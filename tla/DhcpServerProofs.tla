-------------------------- MODULE DhcpServerProofs --------------------------
(***************************************************************************)
(* The lease table of the DHCP server for every set of interfaces and      *)
(* clients, every range and every width of a byte and of a word.           *)
(*                                                                         *)
(* That two leases differ follows from the offset: while the thread is not *)
(* caught in the loop of getOfferAddress, every lease lies below the range *)
(* start plus the offset, and the next address is exactly there.  In the   *)
(* loop the offset runs through every word, but the table is left alone    *)
(* for good, because what the loop tests does not change.                  *)
(***************************************************************************)
EXTENDS DhcpServer, TLAPS

next == mDhcpRangeStart + mNextAddressOffset
stuck == pc = "allocate" /\ skipping

(* What holds of the offset outside the loop.                              *)
OffsetInv ==
  /\ next <= mDhcpRangeEnd + 1 \/ mNextAddressOffset = 0
  /\ \A k \in Keys : mLeases[k] # NoLease => mLeases[k] < next

(* The locals of getOfferAddress, while they are in use.                   *)
LookupInv ==
  mLeases[key] = NoLease /\ ~reserved(lastAddressByte) =>
    nextAddress = next /\ lastAddressByte = last_byte(nextAddress)

Inv ==
  /\ TypeOK /\ UniqueLeases /\ LeasesInRange
  /\ ~stuck => OffsetInv
  /\ pc = "allocate" => LookupInv

LEMMA KeyInKeys == ASSUME TypeOK PROVE key \in Keys
BY DEF TypeOK, key, Request, Lease, Keys

LEMMA RangeBounds ==
  ASSUME TypeOK PROVE mDhcpRangeStart \in 1 .. U32 - 1 /\ mDhcpRangeEnd \in 1 .. U32 - 2
<1>1. range \in [start : 0 .. U32 - 1, end : 0 .. U32 - 2] /\ range.start # 0 /\ range.end # 0
  BY ServerAssumption DEF TypeOK, Served
<1> QED BY <1>1 DEF mDhcpRangeStart, mDhcpRangeEnd

LEMMA WordSize == U32 \in Nat /\ ByteSize \in Nat \ {0, 1, 2} /\ U32 % ByteSize = 0
BY ServerAssumption

LEMMA SmallMod == ASSUME NEW n \in Nat \ {0}, NEW x \in Nat, x < n PROVE x % n = x
OBVIOUS

LEMMA ByteInWord == U32 # 0 => ByteSize <= U32
<1> SUFFICES ASSUME U32 # 0, U32 < ByteSize PROVE FALSE
  BY WordSize
<1>1. U32 \in Nat \ {0} /\ ByteSize \in Nat \ {0}
  BY WordSize
<1>2. U32 % ByteSize = U32
  BY <1>1, SmallMod
<1> QED BY <1>1, <1>2, WordSize

LEMMA RangeStays ==
  ASSUME UNCHANGED range PROVE mDhcpRangeStart' = mDhcpRangeStart /\ mDhcpRangeEnd' = mDhcpRangeEnd
BY DEF mDhcpRangeStart, mDhcpRangeEnd

LEMMA ModRange == ASSUME NEW n \in Nat \ {0}, NEW x \in Nat PROVE x % n \in 0 .. n - 1
OBVIOUS

(* What an allocation leaves: the table with one lease more, at next, or   *)
(* the table as it was.                                                    *)
LEMMA AllocationCases ==
  ASSUME Inv, pc = "allocate", ~skipping
  PROVE  \/ /\ getOfferAddress => mLeases' = mLeases /\ mNextAddressOffset' = mNextAddressOffset
            /\ offerAddress = mLeases[key]
         \/ /\ mLeases[key] = NoLease /\ usable(next) /\ offerAddress = next
            /\ getOfferAddress => /\ mLeases' = [mLeases EXCEPT ![key] = next]
                                  /\ mNextAddressOffset' = mNextAddressOffset + 1
                                  /\ mNextAddressOffset + 1 \in Address
<1> USE WordSize DEF NoLease, Address
<1>1. key \in Keys /\ TypeOK /\ mDhcpRangeStart \in 1 .. U32 - 1 /\ mDhcpRangeEnd \in 1 .. U32 - 2
  BY KeyInKeys, RangeBounds DEF Inv
<1>2. CASE mLeases[key] # NoLease
  BY <1>1, <1>2 DEF getOfferAddress, offerAddress, next_offset, TypeOK
<1>3. CASE mLeases[key] = NoLease /\ ~fits(nextAddress)
  BY <1>1, <1>3 DEF getOfferAddress, offerAddress, next_offset, TypeOK
<1>4. CASE mLeases[key] = NoLease /\ fits(nextAddress)
  <2>1. ~reserved(lastAddressByte) /\ OffsetInv
    BY <1>4 DEF Inv, stuck, skipping
  <2>2. nextAddress = next /\ ~reserved(last_byte(next))
    BY <1>4, <2>1 DEF Inv, LookupInv
  <2>3. next \in mDhcpRangeStart .. mDhcpRangeEnd /\ mNextAddressOffset + 1 < U32
    BY <1>1, <1>4, <2>2 DEF fits, TypeOK, next
  <2>4. (mNextAddressOffset + 1) % U32 = mNextAddressOffset + 1
    BY <1>1, <2>3, SmallMod DEF TypeOK
  <2>5. usable(next)
    BY <2>2, <2>3 DEF usable, reserved, last_byte
  <2>6. offerAddress = next
    BY <1>4, <2>2 DEF offerAddress
  <2>7. next_offset = mNextAddressOffset + 1
    BY <1>4, <2>4 DEF next_offset
  <2> QED BY <1>1, <1>4, <2>3, <2>5, <2>6, <2>7 DEF getOfferAddress, TypeOK
<1> QED BY <1>2, <1>3, <1>4

LEMMA InitInv == Init => Inv
<1> SUFFICES ASSUME Init PROVE Inv
  OBVIOUS
<1> USE WordSize DEF Init, NoLease, Address
<1>0. 1 \in Address
  <2>1. PICK r \in Served : range = r
    OBVIOUS
  <2>2. r.start \in 1 .. U32 - 1
    BY ServerAssumption DEF Served
  <2> QED BY <2>2
<1>1. TypeOK
  BY <1>0 DEF TypeOK, Reply, NoReply
<1>2. UniqueLeases /\ LeasesInRange
  BY DEF UniqueLeases, LeasesInRange
<1>3. OffsetInv
  BY <1>1, RangeBounds DEF OffsetInv
<1> QED BY <1>1, <1>2, <1>3 DEF Inv

LEMMA RunInv == ASSUME Inv, NEW m \in Request, run(m) PROVE Inv'
<1> USE WordSize DEF NoLease, Address
<1>0. TypeOK /\ pc = "poll" /\ OffsetInv /\ mDhcpRangeStart \in 1 .. U32 - 1 /\ mDhcpRangeEnd \in 1 .. U32 - 2
  BY RangeBounds DEF Inv, run, stuck
<1>r. mDhcpRangeStart' = mDhcpRangeStart /\ mDhcpRangeEnd' = mDhcpRangeEnd
  BY RangeStays DEF run
<1>1. UNCHANGED <<range, table>> /\ pc' = "allocate" /\ message' = m /\ reply' = NoReply
  BY DEF run
<1>2. next \in Nat /\ next < U32
  BY <1>0 DEF OffsetInv, TypeOK, next
<1>3. mLeases[key'] = NoLease => nextAddress' = next /\ lastAddressByte' = last_byte(nextAddress')
  <2>1. next % U32 = next
    BY <1>2, SmallMod
  <2> QED BY <1>1, <2>1 DEF run, next, key
<1>4. nextAddress' \in Address /\ lastAddressByte' \in Address
  <2>1. CASE mLeases[key'] = NoLease
    <3>1. next % ByteSize \in 0 .. ByteSize - 1
      BY <1>2, ModRange
    <3>2. ByteSize <= U32
      BY <1>0, ByteInWord
    <3> QED BY <1>2, <1>3, <2>1, <3>1, <3>2 DEF last_byte
  <2>2. CASE mLeases[key'] # NoLease
    BY <1>0, <1>1, <2>2 DEF run, key, TypeOK
  <2> QED BY <2>1, <2>2
<1>5. TypeOK'
  BY <1>0, <1>1, <1>4 DEF TypeOK, table, Reply, NoReply
<1>6. OffsetInv'
  BY <1>0, <1>1, <1>r DEF OffsetInv, table, next
<1>7. LookupInv'
  BY <1>1, <1>3, <1>r DEF LookupInv, table, next
<1>8. UniqueLeases' /\ LeasesInRange'
  BY <1>1, <1>r DEF Inv, UniqueLeases, LeasesInRange, table, usable
<1> QED BY <1>5, <1>6, <1>7, <1>8 DEF Inv

(* Once in the loop, in the loop for ever: the table stays.                *)
LEMMA SkipInv == ASSUME Inv, skip_address PROVE Inv' /\ stuck'
<1> USE WordSize DEF Address
<1>1. UNCHANGED <<range, mLeases, pc, message, lastAddressByte, reply>> /\ TypeOK
  BY DEF skip_address, Inv
<1>r. mDhcpRangeStart' = mDhcpRangeStart /\ mDhcpRangeEnd' = mDhcpRangeEnd
  BY <1>1, RangeStays
<1>2. stuck' /\ LookupInv'
  BY <1>1 DEF skip_address, stuck, skipping, key, reserved, LookupInv
<1>3. nextAddress' \in Address /\ mNextAddressOffset' \in Address
  <2>1. nextAddress + 1 \in Nat /\ mNextAddressOffset + 1 \in Nat /\ U32 \in Nat \ {0}
    BY <1>1 DEF TypeOK
  <2> QED BY <2>1, ModRange DEF skip_address
<1>4. TypeOK'
  BY <1>1, <1>3 DEF TypeOK
<1>5. UniqueLeases' /\ LeasesInRange'
  BY <1>1, <1>r DEF Inv, UniqueLeases, LeasesInRange, usable
<1> QED BY <1>2, <1>4, <1>5 DEF Inv

LEMMA AnswerInv == ASSUME Inv, NEW sent \in BOOLEAN, answer(sent) PROVE Inv'
<1> USE WordSize DEF NoLease, Address
<1>1. pc = "allocate" /\ ~skipping /\ getOfferAddress /\ pc' = "poll" /\ UNCHANGED <<range, locals>>
  BY DEF answer
<1>r. mDhcpRangeStart' = mDhcpRangeStart /\ mDhcpRangeEnd' = mDhcpRangeEnd
  BY <1>1, RangeStays
<1>2. TypeOK /\ OffsetInv /\ key \in Keys /\ mDhcpRangeStart \in 1 .. U32 - 1 /\ mDhcpRangeEnd \in 1 .. U32 - 2
  BY <1>1, KeyInKeys, RangeBounds DEF Inv, stuck
<1>3. reply' \in Reply
  <2>1. offerAddress \in Address
    BY <1>1, <1>2, AllocationCases DEF TypeOK, usable
  <2>2. answer_type \in {"none", "DHCPOFFER", "DHCPACK", "DHCPNAK"}
    BY DEF answer_type
  <2> QED BY <2>1, <2>2 DEF answer, Reply, NoReply
<1>4. CASE mLeases' = mLeases /\ mNextAddressOffset' = mNextAddressOffset
  <2>1. TypeOK'
    BY <1>1, <1>2, <1>3, <1>4 DEF TypeOK, locals
  <2>2. OffsetInv' /\ UniqueLeases' /\ LeasesInRange'
    BY <1>2, <1>4, <1>r DEF Inv, OffsetInv, next, UniqueLeases, LeasesInRange, usable
  <2> QED BY <1>1, <2>1, <2>2 DEF Inv
<1>5. CASE /\ mLeases' = [mLeases EXCEPT ![key] = next] /\ usable(next)
           /\ mNextAddressOffset' = mNextAddressOffset + 1 /\ mNextAddressOffset + 1 \in Address
  <2>1. next \in Address
    BY <1>2, <1>5 DEF usable
  <2>2. TypeOK'
    BY <1>1, <1>2, <1>3, <1>5, <2>1 DEF TypeOK, locals
  <2>3. \A k \in Keys : mLeases'[k] = IF k = key THEN next ELSE mLeases[k]
    BY <1>2, <1>5 DEF TypeOK
  <2>4. \A k \in Keys : mLeases[k] # NoLease => mLeases[k] < next
    BY <1>2 DEF OffsetInv
  <2>5. OffsetInv'
    <3>1. next' = next + 1 /\ next <= mDhcpRangeEnd /\ next \in Nat
      BY <1>2, <1>5, <1>r, <2>1 DEF next, usable, TypeOK
    <3>2. ASSUME NEW k \in Keys, mLeases'[k] # NoLease PROVE mLeases'[k] < next'
      BY <1>2, <2>3, <2>4, <3>1, <3>2 DEF TypeOK
    <3> QED BY <1>2, <1>r, <3>1, <3>2 DEF OffsetInv
  <2>6. UniqueLeases'
    <3> SUFFICES ASSUME NEW j \in Keys, NEW k \in Keys, mLeases'[j] = mLeases'[k],
                        mLeases'[j] # NoLease
                 PROVE  j = k
      BY DEF UniqueLeases
    <3>1. CASE j = key \/ k = key
      BY <1>2, <2>1, <2>3, <2>4, <3>1 DEF TypeOK
    <3>2. CASE j # key /\ k # key
      BY <2>3, <3>2 DEF Inv, UniqueLeases
    <3> QED BY <3>1, <3>2
  <2>7. LeasesInRange'
    <3>1. ASSUME NEW k \in Keys, mLeases'[k] # NoLease PROVE usable(mLeases'[k])
      BY <1>5, <2>3, <3>1 DEF Inv, LeasesInRange
    <3> QED BY <1>r, <3>1 DEF LeasesInRange, usable
  <2> QED BY <1>1, <2>2, <2>5, <2>6, <2>7 DEF Inv
<1> QED BY <1>1, <1>4, <1>5, AllocationCases

LEMMA StepInv == Inv /\ [Next]_vars => Inv'
<1> SUFFICES ASSUME Inv, [Next]_vars PROVE Inv'
  OBVIOUS
<1>1. CASE \E m \in Request : run(m)
  BY <1>1, RunInv
<1>2. CASE skip_address
  BY <1>2, SkipInv
<1>3. CASE \E sent \in BOOLEAN : answer(sent)
  BY <1>3, AnswerInv
<1>4. CASE UNCHANGED vars
  BY <1>4 DEF vars, table, locals, Inv, TypeOK, UniqueLeases, LeasesInRange, usable, stuck, skipping,
              OffsetInv, LookupInv, next, key, mDhcpRangeStart, mDhcpRangeEnd
<1> QED BY <1>1, <1>2, <1>3, <1>4 DEF Next

(* The inductive invariant holds in every behaviour.                       *)
LEMMA AlwaysInv == Spec => []Inv
BY InitInv, StepInv, PTL DEF Spec

(* Every variable of the server stays in its range, the words included.    *)
THEOREM TypeCorrect == Spec => []TypeOK
<1>1. Inv => TypeOK
  BY DEF Inv
<1> QED BY AlwaysInv, <1>1, PTL

(* lease.h: no two endpoints are given the same address.                   *)
THEOREM LeasesDiffer == Spec => []UniqueLeases
<1>1. Inv => UniqueLeases
  BY DEF Inv
<1> QED BY AlwaysInv, <1>1, PTL

(* Every address given out belongs to the range and is neither a network   *)
(* nor a broadcast address.                                                *)
THEOREM LeasesUsable == Spec => []LeasesInRange
<1>1. Inv => LeasesInRange
  BY DEF Inv
<1> QED BY AlwaysInv, <1>1, PTL

(* An ACK is for the address the client asked for, and the table has it.   *)
THEOREM AcksMatch == Spec => []AckAnswersRequest
<1>1. Init => AckAnswersRequest
  BY DEF Init, AckAnswersRequest, NoReply
<1>2. ASSUME Inv, AckAnswersRequest, [Next]_vars PROVE AckAnswersRequest'
  <2>1. CASE \E m \in Request : run(m)
    BY <2>1 DEF run, AckAnswersRequest, NoReply
  <2>2. CASE skip_address
    BY <1>2, <2>2 DEF skip_address, AckAnswersRequest, key
  <2>3. ASSUME NEW sent \in BOOLEAN, answer(sent), reply'.type = "DHCPACK"
        PROVE  reply'.yiaddr = message'.requestedIp /\ mLeases'[key'] = message'.requestedIp
    <3>1. /\ UNCHANGED locals /\ answer_type = "DHCPACK" /\ reply'.yiaddr = offerAddress
          /\ mLeases' = [mLeases EXCEPT ![key] = offerAddress]
      BY <2>3 DEF answer, NoReply, getOfferAddress, answer_type
    <3>2. message.requestedIp = offerAddress
      BY <3>1 DEF answer_type, isValidDhcpRequest
    <3>3. key \in Keys /\ mLeases \in [Keys -> Address] /\ key' = key
      BY <1>2, <3>1, KeyInKeys DEF Inv, TypeOK, locals, key
    <3>4. mLeases'[key] = offerAddress
      BY <3>1, <3>3
    <3> QED BY <3>1, <3>2, <3>3, <3>4 DEF locals
  <2>4. CASE \E sent \in BOOLEAN : answer(sent)
    BY <2>3, <2>4 DEF AckAnswersRequest
  <2>5. CASE UNCHANGED vars
    BY <1>2, <2>5 DEF vars, table, locals, AckAnswersRequest, key
  <2> QED BY <1>2, <2>1, <2>2, <2>4, <2>5 DEF Next
<1> QED BY AlwaysInv, <1>1, <1>2, PTL DEF Spec

(* The table of leases implements the abstract pool: each step adds one    *)
(* usable and unused address for an endpoint that had none, or nothing.    *)
THEOREM PoolImplemented == Spec => ImplementsAddressPool
<1>1. Init => Leases!Init
  BY DEF Init, Leases!Init
<1>2. ASSUME Inv, [Next]_vars PROVE [Leases!Next]_mLeases
  <2>1. CASE \E m \in Request : run(m)
    BY <2>1 DEF run, table
  <2>2. CASE skip_address
    BY <2>2 DEF skip_address
  <2>3. ASSUME NEW sent \in BOOLEAN, answer(sent) PROVE [Leases!Next]_mLeases
    <3>1. pc = "allocate" /\ ~skipping /\ getOfferAddress /\ key \in Keys /\ TypeOK /\ OffsetInv
      BY <1>2, <2>3, KeyInKeys DEF answer, Inv, stuck
    <3>2. CASE mLeases' = mLeases
      BY <3>2
    <3>3. CASE mLeases[key] = NoLease /\ usable(next) /\ mLeases' = [mLeases EXCEPT ![key] = next]
      <4>1. next \in Address \ {NoLease}
        <5>1. mDhcpRangeStart \in 1 .. U32 - 1 /\ mDhcpRangeEnd \in 1 .. U32 - 2
          BY <3>1, RangeBounds
        <5>2. next \in mDhcpRangeStart .. mDhcpRangeEnd /\ next \in Int
          BY <3>1, <3>3, <5>1 DEF usable, TypeOK, Address, next
        <5> QED BY <5>1, <5>2, WordSize DEF Address, NoLease
      <4>2. \A j \in Keys : mLeases[j] # next
        BY <3>1, <4>1 DEF OffsetInv, TypeOK, Address, usable, NoLease
      <4>3. Leases!Allocate(key, next)
        BY <3>3, <4>2 DEF Leases!Allocate
      <4> QED BY <3>1, <4>1, <4>3 DEF Leases!Next
    <3> QED BY <1>2, <3>1, <3>2, <3>3, AllocationCases
  <2>4. CASE \E sent \in BOOLEAN : answer(sent)
    BY <2>3, <2>4
  <2>5. CASE UNCHANGED vars
    BY <2>5 DEF vars, table
  <2> QED BY <1>2, <2>1, <2>2, <2>4, <2>5 DEF Next
<1> QED BY AlwaysInv, <1>1, <1>2, PTL DEF Spec, ImplementsAddressPool, Leases!Spec

(* Once the thread is in the loop of getOfferAddress it stays: after that  *)
(* no message is ever answered.                                            *)
THEOREM LoopNeverLeft == Spec => [][stuck => stuck']_vars
<1>1. ASSUME Inv, [Next]_vars, stuck PROVE stuck' \/ UNCHANGED vars
  <2>1. CASE skip_address
    BY <1>1, <2>1, SkipInv
  <2>2. CASE (\E m \in Request : run(m)) \/ (\E sent \in BOOLEAN : answer(sent))
    BY <1>1, <2>2 DEF run, answer, stuck
  <2> QED BY <1>1, <2>1, <2>2 DEF Next
<1>2. Inv /\ [Next]_vars => [stuck => stuck']_vars
  BY <1>1
<1> QED BY AlwaysInv, <1>2, PTL DEF Spec

-----------------------------------------------------------------------------
(* The other half of the offset: outside the loop no address below the     *)
(* next one was passed over.                                               *)
NoGap == \A a \in mDhcpRangeStart .. next - 1 : \E k \in Keys : mLeases[k] = a

RefusalInv == (~stuck => NoGap) /\ RefusedForAReason

LEMMA RefusalInit == Init => RefusalInv
<1> SUFFICES ASSUME Init PROVE RefusalInv
  OBVIOUS
<1>1. TypeOK /\ mNextAddressOffset = 0 /\ reply = NoReply
  BY InitInv DEF Inv, Init
<1>2. NoGap
  BY <1>1, RangeBounds DEF NoGap, next
<1> QED BY <1>1, <1>2 DEF RefusalInv, RefusedForAReason, NoReply

(* An answer appends the next address to those given out, or changes no    *)
(* lease; it refuses a client without address when the range is used up.   *)
LEMMA RefusalAnswer ==
  ASSUME Inv, RefusalInv, NEW sent \in BOOLEAN, answer(sent) PROVE RefusalInv'
<1>1. /\ pc = "allocate" /\ ~skipping /\ getOfferAddress /\ UNCHANGED <<range, locals>>
      /\ key \in Keys /\ key' = key /\ TypeOK /\ OffsetInv /\ NoGap
  BY KeyInKeys DEF answer, Inv, RefusalInv, stuck, locals, key
<1>2. /\ mDhcpRangeStart \in 1 .. U32 - 1 /\ mDhcpRangeEnd \in 1 .. U32 - 2 /\ next \in Nat
      /\ mDhcpRangeStart' = mDhcpRangeStart /\ mDhcpRangeEnd' = mDhcpRangeEnd
  BY <1>1, RangeBounds, RangeStays, WordSize DEF TypeOK, Address, next
<1>3. mLeases' = [mLeases EXCEPT ![key] = offerAddress]
  BY <1>1 DEF getOfferAddress
<1>4. NoGap'
  <2>1. CASE mLeases' = mLeases /\ mNextAddressOffset' = mNextAddressOffset
    BY <1>1, <1>2, <2>1 DEF NoGap, next
  <2>2. CASE /\ mLeases[key] = NoLease /\ mLeases' = [mLeases EXCEPT ![key] = next]
             /\ mNextAddressOffset' = mNextAddressOffset + 1
    <3>1. next' = next + 1
      BY <1>1, <1>2, <2>2, WordSize DEF next, TypeOK, Address
    <3> SUFFICES ASSUME NEW a \in mDhcpRangeStart .. next PROVE \E k \in Keys : mLeases'[k] = a
      BY <1>2, <3>1 DEF NoGap
    <3>2. CASE a = next
      BY <1>1, <2>2, <3>2 DEF TypeOK
    <3>3. CASE a # next
      <4>1. PICK k \in Keys : mLeases[k] = a
        BY <1>1, <1>2, <3>3 DEF NoGap
      <4>2. k # key
        BY <1>2, <2>2, <4>1 DEF NoLease
      <4> QED BY <1>1, <2>2, <4>1, <4>2 DEF TypeOK
    <3> QED BY <3>2, <3>3
  <2> QED BY <1>1, <2>1, <2>2, AllocationCases
<1>5. RefusedForAReason'
  <2> SUFFICES ASSUME reply'.type = "DHCPNAK"
               PROVE  \/ mLeases'[key] # NoLease /\ mLeases'[key] # message.requestedIp
                      \/ \A a \in mDhcpRangeStart .. mDhcpRangeEnd : \E k \in Keys : mLeases'[k] = a
    BY <1>1, <1>2 DEF RefusedForAReason, locals
  <2>1. answer_type = "DHCPNAK"
    BY DEF answer, NoReply
  <2>2. offerAddress # NoLease => message.requestedIp # offerAddress
    BY <2>1 DEF answer_type, isValidDhcpRequest
  <2>3. mLeases'[key] = offerAddress
    BY <1>1, <1>3 DEF TypeOK
  <2>4. CASE offerAddress # NoLease
    BY <2>2, <2>3, <2>4
  <2>5. CASE offerAddress = NoLease
    <3>1. mLeases[key] = NoLease
      BY <2>5 DEF offerAddress
    <3>2. nextAddress = next
      BY <1>1, <3>1 DEF Inv, LookupInv, skipping
    <3>3. next > mDhcpRangeEnd
      <4>1. ~fits(nextAddress)
        <5>1. next # NoLease
          BY <1>1, <1>2, WordSize DEF NoLease, next, TypeOK, Address
        <5> QED BY <2>5, <3>1, <3>2, <5>1 DEF offerAddress
      <4> QED BY <1>2, <3>2, <4>1 DEF fits
    <3>4. mLeases' = mLeases
      BY <1>1, <1>3, <2>5, <3>1 DEF TypeOK
    <3> QED BY <1>1, <1>2, <3>3, <3>4 DEF NoGap
  <2> QED BY <2>4, <2>5
<1> QED BY <1>4, <1>5 DEF RefusalInv

(* A client is refused for another address than its own, or because no     *)
(* address of the range is free: the allocation passes none over.          *)
THEOREM RefusalsFounded == Spec => []RefusedForAReason
<1>1. ASSUME Inv, RefusalInv, [Next]_vars PROVE RefusalInv'
  <2>1. ASSUME NEW m \in Request, run(m) PROVE RefusalInv'
    <3>1. UNCHANGED <<range, table>> /\ reply' = NoReply /\ NoGap
      BY <1>1, <2>1 DEF run, RefusalInv, stuck
    <3> QED BY <3>1 DEF RefusalInv, NoGap, RefusedForAReason, NoReply, table, next, mDhcpRangeStart
  <2>2. CASE skip_address
    <3>1. stuck' /\ UNCHANGED <<range, mLeases, message, reply>>
      BY <1>1, <2>2, SkipInv DEF skip_address
    <3> QED BY <1>1, <3>1 DEF RefusalInv, RefusedForAReason, key, mDhcpRangeStart, mDhcpRangeEnd
  <2>3. ASSUME NEW sent \in BOOLEAN, answer(sent) PROVE RefusalInv'
    BY <1>1, <2>3, RefusalAnswer
  <2>4. CASE UNCHANGED vars
    BY <1>1, <2>4 DEF vars, table, locals, RefusalInv, NoGap, RefusedForAReason, stuck, skipping, key,
                      next, mDhcpRangeStart, mDhcpRangeEnd
  <2> QED BY <1>1, <2>1, <2>2, <2>3, <2>4 DEF Next
<1>2. RefusalInv => RefusedForAReason
  BY DEF RefusalInv
<1> QED BY AlwaysInv, RefusalInit, <1>1, <1>2, PTL DEF Spec
=============================================================================
