---------------------------- MODULE VsyncProofs ----------------------------
(***************************************************************************)
(* The vsync thread for every period, every pair of word widths of which   *)
(* the narrow divides the wide, and every clock.                           *)
(*                                                                         *)
(* The arithmetic is done once, for congruences: a sum or product that     *)
(* wraps stays congruent to the true one modulo the narrow word, and the   *)
(* true difference is what is left of the period, which is small enough    *)
(* for to_long to give it back.                                            *)
(***************************************************************************)
EXTENDS Vsync, TLAPS

LEMMA Words ==
  /\ Period \in Nat \ {0} /\ U32 \in Nat \ {0} /\ U64 \in Nat \ {0} /\ U64 % U32 = 0
  /\ Period < U32 \div 2 /\ U32 \div 2 \in Nat /\ U32 \div 2 < U32
BY VsyncAssumption

LEMMA DivMod ==
  ASSUME NEW n \in Nat \ {0}, NEW x \in Int
  PROVE  x \div n \in Int /\ x % n \in 0 .. n - 1 /\ x = n * (x \div n) + (x % n)
OBVIOUS

LEMMA DivNat ==
  ASSUME NEW n \in Nat \ {0}, NEW x \in Nat
  PROVE  x \div n \in Nat
OBVIOUS

(* Quotient and remainder are unique.                                      *)
LEMMA ModUnique ==
  ASSUME NEW n \in Nat \ {0}, NEW k \in Int, NEW r \in 0 .. n - 1
  PROVE  (n * k + r) % n = r /\ (n * k + r) \div n = k
OBVIOUS

Congruent(x, y) == \E k \in Int : x = U32 * k + y

LEMMA CongruentMod ==
  ASSUME NEW x \in Int, NEW y \in 0 .. U32 - 1, Congruent(x, y)
  PROVE  x % U32 = y
BY Words, ModUnique DEF Congruent

LEMMA CongruentSum ==
  ASSUME NEW a \in Int, NEW b \in Int, NEW c \in Int, NEW d \in Int,
         Congruent(a, b), Congruent(c, d)
  PROVE  Congruent(a + c, b + d) /\ Congruent(a - c, b - d)
<1>1. PICK k \in Int : a = U32 * k + b
  BY DEF Congruent
<1>2. PICK l \in Int : c = U32 * l + d
  BY DEF Congruent
<1>3. a + c = U32 * (k + l) + (b + d) /\ a - c = U32 * (k - l) + (b - d)
  BY <1>1, <1>2, Words
<1>4. k + l \in Int /\ k - l \in Int
  OBVIOUS
<1> QED BY <1>3, <1>4 DEF Congruent

LEMMA CongruentProduct ==
  ASSUME NEW a \in Int, NEW b \in Int, NEW p \in Int, Congruent(a, b)
  PROVE  Congruent(a * p, b * p)
<1>1. PICK k \in Int : a = U32 * k + b
  BY DEF Congruent
<1>2. a * p = U32 * (k * p) + b * p
  BY <1>1, Words
<1>3. k * p \in Int
  OBVIOUS
<1> QED BY <1>2, <1>3 DEF Congruent

LEMMA CongruentTrans ==
  ASSUME NEW a \in Int, NEW b \in Int, NEW c \in Int, Congruent(a, b), Congruent(b, c)
  PROVE  Congruent(a, c)
<1>1. PICK k \in Int : a = U32 * k + b
  BY DEF Congruent
<1>2. PICK l \in Int : b = U32 * l + c
  BY DEF Congruent
<1>3. a = U32 * (k + l) + c
  BY <1>1, <1>2, Words
<1>4. k + l \in Int
  OBVIOUS
<1> QED BY <1>3, <1>4 DEF Congruent

LEMMA CongruentRefl == ASSUME NEW a \in Int PROVE Congruent(a, a)
<1>1. a = U32 * 0 + a
  BY Words
<1> QED BY <1>1 DEF Congruent

(* Reducing to a word of either width keeps the congruence.                *)
LEMMA CongruentWords ==
  ASSUME NEW a \in Int
  PROVE  /\ a % U32 \in Int /\ Congruent(a % U32, a)
         /\ a % U64 \in 0 .. U64 - 1 /\ Congruent(a % U64, a)
<1>1. a % U32 \in 0 .. U32 - 1 /\ a \div U32 \in Int /\ a = U32 * (a \div U32) + (a % U32)
  BY Words, DivMod
<1>2. a % U32 = U32 * (-(a \div U32)) + a /\ -(a \div U32) \in Int
  BY <1>1, Words
<1>3. a % U64 \in 0 .. U64 - 1 /\ a \div U64 \in Int /\ a = U64 * (a \div U64) + (a % U64)
  BY Words, DivMod
<1>4. U64 \div U32 \in Int /\ U64 = U32 * (U64 \div U32)
  <2>1. U64 \div U32 \in Int /\ U64 = U32 * (U64 \div U32) + (U64 % U32)
    BY Words, DivMod
  <2> QED BY <2>1, Words
<1>5. a % U64 = U32 * (-((U64 \div U32) * (a \div U64))) + a
  <2> DEFINE w == U64 \div U32  q == a \div U64
  <2>1. w \in Int /\ q \in Int /\ U64 = U32 * w /\ a = U64 * q + (a % U64)
    BY <1>3, <1>4
  <2> HIDE DEF w, q
  <2>2. U64 * q = U32 * (w * q)
    BY <2>1, Words
  <2>3. a % U64 = U32 * (-(w * q)) + a
    BY <1>3, <2>1, <2>2, Words
  <2> QED BY <2>3 DEF w, q
<1>6. -((U64 \div U32) * (a \div U64)) \in Int
  BY <1>3, <1>4
<1> QED BY <1>1, <1>2, <1>3, <1>5, <1>6 DEF Congruent

(* A small number that wrapped comes back from to_long.                    *)
LEMMA ToLong ==
  ASSUME NEW x \in Int, NEW w \in 0 .. Period, Congruent(x, w)
  PROVE  to_long(x) = w
<1>1. w \in 0 .. U32 - 1 /\ w < U32 \div 2
  BY Words
<1>2. x % U32 = w
  BY <1>1, CongruentMod
<1> QED BY <1>1, <1>2 DEF to_long

(* What the thread computes: the rest of the period, of the difference as  *)
(* the 64-bit clock has it.                                                *)
LEMMA SleepIsRest ==
  ASSUME NEW now \in Int, NEW last \in Int
  PROVE  time_to_sleep_to_next_vsync(now, last) = Period - (((now - last) % U64) % Period)
<1> DEFINE d == (now - last) % U64
           q == d \div Period
           f == (q + 1) % U32
           p == (f * Period) % U32
           next_vsync == (last + p) % U64
           w == Period - (d % Period)
<1>1. d \in Int /\ Congruent(d, now - last) /\ d >= 0
  BY CongruentWords
<1>2. q \in Int /\ d % Period \in 0 .. Period - 1 /\ d = Period * q + (d % Period)
  BY <1>1, Words, DivMod
<1> HIDE DEF d
<1>3. w \in 1 .. Period /\ (q + 1) * Period = d + w
  <2> DEFINE rest == d % Period
  <2>1. rest \in 0 .. Period - 1 /\ d = Period * q + rest /\ w = Period - rest
    BY <1>2
  <2> HIDE DEF q, w, rest
  <2>2. (q + 1) * Period = Period * q + Period
    BY <1>2, Words
  <2>3. w \in 1 .. Period
    BY <2>1, Words
  <2> QED BY <1>1, <1>2, <2>1, <2>2, <2>3, Words
<1> HIDE DEF q, w
<1>4. f \in Int /\ Congruent(f, q + 1)
  BY <1>2, CongruentWords
<1> HIDE DEF f
<1>5. f * Period \in Int /\ Congruent(f * Period, d + w)
  <2>1. Period \in Int /\ q + 1 \in Int
    BY <1>2, Words
  <2>2. Congruent(f * Period, (q + 1) * Period)
    BY <1>4, <2>1, CongruentProduct
  <2> QED BY <1>3, <1>4, <2>1, <2>2
<1>6. p \in Int /\ Congruent(p, f * Period)
  BY <1>5, CongruentWords
<1> HIDE DEF p
<1>7. Congruent(p, d + w)
  BY <1>1, <1>3, <1>5, <1>6, CongruentTrans
<1>8. Congruent(d + w, now - last + w)
  BY <1>1, <1>3, CongruentSum, CongruentRefl
<1>9. Congruent(p, now - last + w)
  BY <1>1, <1>3, <1>6, <1>7, <1>8, CongruentTrans
<1>10. last + p \in Int /\ Congruent(last + p, now + w)
  <2>1. Congruent(last + p, last + (now - last + w))
    BY <1>3, <1>6, <1>9, CongruentSum, CongruentRefl
  <2>2. last + (now - last + w) = now + w
    BY <1>3
  <2> QED BY <1>6, <2>1, <2>2
<1>11. next_vsync \in Int /\ Congruent(next_vsync, last + p)
  BY <1>10, CongruentWords
<1> HIDE DEF next_vsync
<1>12. Congruent(next_vsync - now, (now + w) - now)
  <2>1. now + w \in Int
    BY <1>3
  <2>2. Congruent(next_vsync, now + w)
    BY <1>10, <1>11, <2>1, CongruentTrans
  <2> QED BY <1>11, <2>1, <2>2, CongruentSum, CongruentRefl
<1>13. to_long(next_vsync - now) = w
  <2>1. (now + w) - now = w
    BY <1>3
  <2> QED BY <1>3, <1>11, <1>12, <2>1, ToLong
<1>14. time_to_sleep_to_next_vsync(now, last) = to_long(next_vsync - now)
  BY DEF time_to_sleep_to_next_vsync, frames_since_last_vsync, next_vsync, p, f, q, d
<1> QED BY <1>13, <1>14 DEF w, d

LEMMA SleepBounds ==
  ASSUME NEW now \in Int, NEW last \in Int
  PROVE  time_to_sleep_to_next_vsync(now, last) \in 1 .. Period
<1>1. (now - last) % U64 \in Int
  BY CongruentWords
<1>2. ((now - last) % U64) % Period \in 0 .. Period - 1
  BY <1>1, Words, DivMod
<1>3. ASSUME NEW r \in 0 .. Period - 1 PROVE Period - r \in 1 .. Period
  BY Words
<1> QED BY <1>2, <1>3, SleepIsRest

(* Unless the clock was behind, that rest leads to the next multiple of    *)
(* the period after the last presentation.                                 *)
LEMMA SleepReachesVsync ==
  ASSUME NEW now \in Times, NEW last \in Times, last <= now
  PROVE  IsNextVsync(now + time_to_sleep_to_next_vsync(now, last), now, last)
<1> DEFINE d == now - last
           q == d \div Period
           r == d % Period
           t == now + time_to_sleep_to_next_vsync(now, last)
<1>1. now \in Nat /\ last \in Nat /\ d \in 0 .. U64 - 1
  BY VsyncAssumption DEF Times
<1>2. d % U64 = d
  <2>1. ASSUME NEW e \in 0 .. U64 - 1 PROVE (U64 * 0 + e) % U64 = e
    BY Words, ModUnique
  <2>2. U64 * 0 + d = d
    BY <1>1, Words
  <2> QED BY <1>1, <2>1, <2>2
<1>3. q \in Int /\ r \in 0 .. Period - 1 /\ d = Period * q + r
  BY <1>1, Words, DivMod
<1>4. t = now + (Period - r)
  BY <1>1, <1>2, SleepIsRest
<1> HIDE DEF q, r, t
<1>5. t \in Int /\ t > now /\ t - last = Period * q + Period
  BY <1>1, <1>3, <1>4, Words
<1>6. (t - last) % Period = 0
  <2>1. t - last = Period * (q + 1) + 0 /\ q + 1 \in Int
    BY <1>3, <1>5, Words
  <2>2. 0 \in 0 .. Period - 1
    BY Words
  <2>3. (Period * (q + 1) + 0) % Period = 0
    BY <2>1, <2>2, Words, ModUnique
  <2> QED BY <2>1, <2>3
<1>7. ASSUME NEW u \in now + 1 .. t - 1 PROVE (u - last) % Period # 0
  <2> DEFINE s == u - last - Period * q
  <2>1. u \in Int /\ s \in 1 .. Period - 1 /\ u - last = Period * q + s
    BY <1>1, <1>3, <1>4, <1>5, Words
  <2>2. s \in 0 .. Period - 1 /\ s # 0
    BY <2>1, Words
  <2> HIDE DEF s
  <2>3. (Period * q + s) % Period = s
    BY <1>3, <2>2, Words, ModUnique
  <2> QED BY <2>1, <2>2, <2>3
<1> QED BY <1>5, <1>6, <1>7 DEF IsNextVsync, t

-----------------------------------------------------------------------------
(* A callback made while the flag is on, or with a flag read while it was, *)
(* is not late; one that is late leaves the thread to read the flag again. *)
LateInv ==
  /\ enabled => late = 0
  /\ pc = "none" => ~vsync_enabled /\ late = 0
  /\ pc \in {"clock", "compute", "call"} /\ vsync_enabled => late = 0
  /\ pc = "call" => vsync_enabled

Inv == TypeOK /\ SleepInPeriod /\ AtMostOneLateCall /\ LateInv

LEMMA InitInv == Init => Inv
<1> SUFFICES ASSUME Init PROVE Inv
  OBVIOUS
<1>1. 0 \in Times
  BY VsyncAssumption DEF Times
<1>2. TypeOK
  <2>1. enabled \in BOOLEAN /\ vsync_enabled \in BOOLEAN /\ crashed \in BOOLEAN
    BY Zenon DEF Init
  <2>2. wait_time \in Int /\ deadline \in Nat /\ late \in Nat
    BY DEF Init
  <2>3. clock \in Times /\ rt \in Times /\ last_vsync_ns \in Times
    BY <1>1, Zenon DEF Init
  <2>4. procs = "null" /\ pc = "none"
    BY DEF Init
  <2> QED BY <2>1, <2>2, <2>3, <2>4, Zenon DEF TypeOK
<1>3. SleepInPeriod /\ AtMostOneLateCall
  BY DEF Init, SleepInPeriod, AtMostOneLateCall
<1>4. LateInv
  BY DEF Init, LateInv
<1> QED BY <1>2, <1>3, <1>4 DEF Inv

LEMMA DeviceInv ==
  ASSUME Inv, \/ hwc_open \/ hwc_register_procs \/ \E e \in BOOLEAN : hwc_event_control(e)
              \/ \E t \in Times : feedback_presented(t)
  PROVE  Inv'
<1> USE DEF Inv, TypeOK, SleepInPeriod, AtMostOneLateCall, LateInv, locals, hist
<1>1. CASE hwc_open
  BY <1>1 DEF hwc_open
<1>2. CASE hwc_register_procs
  BY <1>2 DEF hwc_register_procs
<1>3. ASSUME NEW e \in BOOLEAN, hwc_event_control(e) PROVE Inv'
  BY <1>3 DEF hwc_event_control
<1>4. ASSUME NEW t \in Times, feedback_presented(t) PROVE Inv'
  BY <1>4 DEF feedback_presented
<1> QED BY <1>1, <1>2, <1>3, <1>4

LEMMA ThreadInv == ASSUME Inv, hwc_vsync_thread PROVE Inv'
<1> USE DEF Inv, TypeOK, SleepInPeriod, AtMostOneLateCall, LateInv, locals, hist, dev
<1>1. CASE read_clock
  BY <1>1 DEF read_clock
<1>2. CASE compute
  <2>1. rt \in Int /\ last_vsync_ns \in Int
    BY DEF Times
  <2>2. wait_time' \in 1 .. Period
    BY <1>2, <2>1, SleepBounds DEF compute
  <2> QED BY <1>2, <2>2, Words DEF compute
<1>3. CASE call_vsync
  BY <1>3 DEF call_vsync
<1>4. CASE nanosleep
  <2>1. clock \in Nat
    BY DEF Times
  <2> QED BY <1>4, <2>1 DEF nanosleep
<1>5. CASE wake_read_enabled
  BY <1>5 DEF wake_read_enabled
<1>6. CASE eintr
  BY <1>6 DEF eintr
<1> QED BY <1>1, <1>2, <1>3, <1>4, <1>5, <1>6 DEF hwc_vsync_thread

LEMMA NextInv == Inv /\ [Next]_vars => Inv'
<1> SUFFICES ASSUME Inv, [Next]_vars PROVE Inv'
  OBVIOUS
<1>1. CASE tick
  BY <1>1, VsyncAssumption DEF tick, Inv, TypeOK, SleepInPeriod, AtMostOneLateCall, LateInv, locals, hist, dev, Times
<1>2. CASE UNCHANGED vars
  BY <1>2 DEF vars, Inv, TypeOK, SleepInPeriod, AtMostOneLateCall, LateInv, locals, hist, dev
<1> QED BY <1>1, <1>2, DeviceInv, ThreadInv DEF Next

LEMMA AlwaysInv == Spec => []Inv
BY InitInv, NextInv, PTL DEF Spec

-----------------------------------------------------------------------------
(* The variables keep their types, whatever time it is.                    *)
THEOREM TypeCorrect == Spec => []TypeOK
<1>1. Inv => TypeOK
  BY DEF Inv
<1> QED BY AlwaysInv, <1>1, PTL

(* time_to_sleep_to_next_vsync always returns what nanosleep accepts: a    *)
(* presentation that overtakes the clock, and a product that wraps, change *)
(* the sleep but do not stop the thread.                                   *)
THEOREM SleepValid == Spec => []SleepInPeriod
<1>1. Inv => SleepInPeriod
  BY DEF Inv
<1> QED BY AlwaysInv, <1>1, PTL

(* After SurfaceFlinger switched the callback off it comes once at most.   *)
THEOREM OneLateCall == Spec => []AtMostOneLateCall
<1>1. Inv => AtMostOneLateCall
  BY DEF Inv
<1> QED BY AlwaysInv, <1>1, PTL

(* Every sleep computed from a clock that no presentation overtook ends on *)
(* the next vsync.                                                         *)
THEOREM SleepsToVsync == Spec => SleepsToNextVsync
<1>1. Inv /\ [Next]_vars =>
        [compute /\ last_vsync_ns <= rt => IsNextVsync(rt + wait_time', rt, last_vsync_ns)]_vars
  <2> SUFFICES ASSUME Inv, compute, last_vsync_ns <= rt
               PROVE  IsNextVsync(rt + wait_time', rt, last_vsync_ns)
    OBVIOUS
  <2>1. rt \in Times /\ last_vsync_ns \in Times /\ wait_time' = time_to_sleep_to_next_vsync(rt, last_vsync_ns)
    BY DEF Inv, TypeOK, compute
  <2> QED BY <2>1, SleepReachesVsync
<1> QED BY AlwaysInv, <1>1, PTL DEF Spec, SleepsToNextVsync
=============================================================================
