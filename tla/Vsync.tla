------------------------------- MODULE Vsync -------------------------------
(***************************************************************************)
(* The vsync thread of the hardware composer (hwcomposer/hwcomposer.cpp):  *)
(* hwc_vsync_thread sleeps to the next multiple of the period after the    *)
(* last presentation and calls back into SurfaceFlinger, while the Wayland *)
(* thread stores the presentation times (feedback_presented) and           *)
(* SurfaceFlinger switches the callback on and off (hwc_event_control).    *)
(*                                                                         *)
(* Each critical section on vsync_lock is one step; what happens between   *)
(* two of them is not protected.  Integers have the width they have in a   *)
(* 32-bit build (BoardConfig.mk: TARGET_ARCH := arm): uint64_t wraps at    *)
(* U64, unsigned and long at U32.                                          *)
(***************************************************************************)
EXTENDS Integers

CONSTANTS
  Period,      \* vsync_period_ns
  Second,      \* nanoseconds in a second: nanosleep takes less in tv_nsec
  U32, U64,    \* 2^32 and 2^64
  MaxTime      \* bound: the clock stops here

ASSUME VsyncAssumption ==
  /\ Period \in Nat \ {0} /\ Second \in Nat /\ Period < Second
  /\ U32 \in Nat \ {0} /\ U32 % 2 = 0 /\ Period < U32 \div 2
  /\ U64 \in Nat \ {0} /\ U64 % U32 = 0
  /\ MaxTime \in Nat /\ MaxTime < U64

Times == 0 .. MaxTime

VARIABLES
  clock,           \* CLOCK_MONOTONIC
  procs,           \* pdev->procs: "null" or "registered"
  enabled,         \* pdev->vsync_callback_enabled
  last_vsync_ns,   \* pdev->last_vsync_ns
  pc,              \* control of the vsync thread, "none" before hwc_open
  rt, vsync_enabled, wait_time,   \* its locals
  deadline,        \* end of the nanosleep under way
  late,            \* callbacks made since SurfaceFlinger switched them off
  crashed          \* the thread called through a NULL procs

dev    == <<procs, enabled, last_vsync_ns>>
locals == <<rt, vsync_enabled, wait_time, deadline>>
hist   == <<late, crashed>>
vars   == <<clock, dev, pc, locals, hist>>

Init ==
  /\ clock \in Times
  /\ procs = "null" /\ enabled = FALSE /\ last_vsync_ns = 0
  /\ pc = "none" /\ rt = 0 /\ vsync_enabled = FALSE /\ wait_time = 0 /\ deadline = 0
  /\ late = 0 /\ crashed = FALSE

-----------------------------------------------------------------------------
(* time_to_sleep_to_next_vsync                                             *)

to_long64(x) == IF x % U64 < U64 \div 2 THEN x % U64 ELSE (x % U64) - U64   \* mutant: a 64-bit long
to_long(x)   == IF x % U32 < U32 \div 2 THEN x % U32 ELSE (x % U32) - U32

frames_this_period(now, last) ==      \* mutant: the period under way
  (((now - last) % U64) \div Period) % U32
frames_since_last_vsync(now, last) ==
  (((now - last) % U64) \div Period + 1) % U32

time_to_sleep_to_next_vsync(now, last) ==
  LET next_vsync == (last + ((frames_since_last_vsync(now, last) * Period) % U32)) % U64
  IN  to_long(next_vsync - now)

-----------------------------------------------------------------------------
(* SurfaceFlinger                                                          *)

(* The tail of hwc_open: the thread starts with callbacks enabled, before  *)
(* SurfaceFlinger can have registered its procs.                           *)
hwc_open ==
  /\ pc = "none"
  /\ enabled' = TRUE
  /\ last_vsync_ns' = clock
  /\ pc' = "clock"
  /\ UNCHANGED <<clock, procs, locals, hist>>

hwc_register_procs ==
  /\ pc # "none" /\ procs = "null"
  /\ procs' = "registered"
  /\ UNCHANGED <<clock, enabled, last_vsync_ns, pc, locals, hist>>

hwc_event_control(e) ==
  /\ pc # "none"
  /\ enabled' = e
  /\ late' = IF e THEN 0 ELSE late
  /\ UNCHANGED <<clock, procs, last_vsync_ns, pc, locals, crashed>>

-----------------------------------------------------------------------------
(* The Wayland thread: a frame was presented at t, some time ago but not   *)
(* before the one reported last                                            *)

feedback_predicts(t) ==      \* mutant: stores the vsync after the presentation
  /\ pc # "none" /\ last_vsync_ns <= t /\ t <= clock
  /\ last_vsync_ns' = t + Period
  /\ UNCHANGED <<clock, procs, enabled, pc, locals, hist>>
feedback_presented(t) ==
  /\ pc # "none" /\ last_vsync_ns <= t /\ t <= clock
  /\ last_vsync_ns' = t
  /\ UNCHANGED <<clock, procs, enabled, pc, locals, hist>>

-----------------------------------------------------------------------------
(* The vsync thread                                                        *)

read_clock ==
  /\ pc = "clock"
  /\ rt' = clock
  /\ pc' = "compute"
  /\ UNCHANGED <<clock, dev, vsync_enabled, wait_time, deadline, hist>>

compute ==
  /\ pc = "compute"
  /\ wait_time' = time_to_sleep_to_next_vsync(rt, last_vsync_ns)
  /\ pc' = IF vsync_enabled THEN "call" ELSE "sleep"
  /\ UNCHANGED <<clock, dev, rt, vsync_enabled, deadline, hist>>

call_vsync ==
  /\ pc = "call"
  /\ crashed' = (procs = "null")
  /\ pc' = IF procs = "null" THEN "exited" ELSE "sleep"
  /\ late' = IF enabled THEN 0 ELSE late + 1
  /\ UNCHANGED <<clock, dev, locals>>

nanosleep ==
  /\ pc = "sleep"
  /\ \/ wait_time \in 0 .. Second - 1 /\ pc' = "sleeping" /\ deadline' = clock + wait_time
     \/ wait_time \notin 0 .. Second - 1 /\ pc' = "exited" /\ UNCHANGED deadline   \* EINVAL
  /\ UNCHANGED <<clock, dev, rt, vsync_enabled, wait_time, hist>>

read_enabled_once ==      \* mutant: once true, not read again
  /\ pc = "sleeping" /\ clock >= deadline
  /\ vsync_enabled' = (vsync_enabled \/ enabled)
  /\ pc' = "clock"
  /\ UNCHANGED <<clock, dev, rt, wait_time, deadline, hist>>
wake_read_enabled ==
  /\ pc = "sleeping" /\ clock >= deadline
  /\ vsync_enabled' = enabled
  /\ pc' = "clock"
  /\ UNCHANGED <<clock, dev, rt, wait_time, deadline, hist>>

eintr ==
  /\ pc = "sleeping"
  /\ pc' = "exited"
  /\ UNCHANGED <<clock, dev, locals, hist>>

hwc_vsync_thread ==
  read_clock \/ compute \/ call_vsync \/ nanosleep \/ wake_read_enabled \/ eintr

tick ==      \* external: time passes
  /\ clock < MaxTime
  /\ clock' = clock + 1
  /\ UNCHANGED <<dev, pc, locals, hist>>

Next ==
  \/ hwc_open \/ hwc_register_procs \/ \E e \in BOOLEAN : hwc_event_control(e)
  \/ \E t \in Times : feedback_presented(t)
  \/ hwc_vsync_thread \/ tick

Spec == Init /\ [][Next]_vars

-----------------------------------------------------------------------------
(* Properties                                                              *)

(* Every variable keeps its type.                                          *)
TypeOK ==
  /\ clock \in Times /\ rt \in Times /\ last_vsync_ns \in Times
  /\ procs \in {"null", "registered"} /\ enabled \in BOOLEAN
  /\ pc \in {"none", "clock", "compute", "call", "sleep", "sleeping", "exited"}
  /\ vsync_enabled \in BOOLEAN /\ wait_time \in Int /\ deadline \in Nat
  /\ late \in Nat /\ crashed \in BOOLEAN

(* The sleep is at least one nanosecond and at most one period, also when  *)
(* the presentation is later than the clock sampled before the lock: so    *)
(* nanosleep never refuses it, which would stop vsync for good             *)
(* (hwcomposer.cpp:231-238).                                               *)
SleepInPeriod == pc \in {"call", "sleep", "sleeping"} => wait_time \in 1 .. Period

(* Reference for time_to_sleep_to_next_vsync: the first instant after now  *)
(* that is a whole number of periods after the last presentation.          *)
IsNextVsync(t, now, last) ==
  /\ t > now /\ (t - last) % Period = 0
  /\ \A u \in now + 1 .. t - 1 : (u - last) % Period # 0

(* Unless a presentation overtook the clock sample, the thread sleeps to   *)
(* exactly the next vsync, in spite of the 32-bit product.                 *)
SleepsToNextVsync ==
  [][compute /\ last_vsync_ns <= rt => IsNextVsync(rt + wait_time', rt, last_vsync_ns)]_vars

(* After SurfaceFlinger switched vsync off at most one callback follows:   *)
(* the one whose flag was read before (hwcomposer.cpp:240-259).            *)
AtMostOneLateCall == late <= 1

=============================================================================
