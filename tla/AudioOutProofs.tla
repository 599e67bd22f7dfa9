--------------------------- MODULE AudioOutProofs ---------------------------
(***************************************************************************)
(* The audio HAL for every number of streams and threads.                  *)
(*                                                                         *)
(* The argument is ownership: what a stream's handle is depends on where   *)
(* the one thread is that holds the stream's mutex (PcmInv), and only a    *)
(* holder of both mutexes starts a stream or puts it in standby.           *)
(***************************************************************************)
EXTENDS AudioOut, TLAPS

WithAdev == {"lock_out", "standby", "set_parameters", "write", "configure"}
WithOut  == {"standby", "set_parameters", "write", "configure", "writei", "recover", "exit"}
Waiting  == {"lock_adev", "lock_out"}
Asking   == {"position", "htimestamp", "compute"}

(* Who holds which mutex.                                                  *)
MutexInv ==
  /\ \A t \in Threads : pc[t] \in WithAdev <=> adev_lock = t
  /\ \A t \in Threads : pc[t] \in WithOut => out_lock[stream[t]] = t
  /\ \A s \in Streams : out_lock[s] # NULL =>
       stream[out_lock[s]] = s /\ pc[out_lock[s]] \in WithOut

(* What a thread between calls and in one works on.                        *)
CallInv == \A t \in Threads :
  /\ pc[t] # "idle" => stream[t] \in Streams /\ opened[stream[t]]
  /\ pc[t] \in Waiting => op[t] \in {"standby", "set_parameters", "write"}
  /\ pc[t] \in Asking => t \in Streams

(* The life of a handle.                                                   *)
PcmInv ==
  /\ \A s \in Streams : ~standby[s] => opened[s] /\ pcm[s] = "open"
  /\ \A s \in Streams : standby[s] /\ pcm[s] = "open" =>
       unavailable[s] \/ (out_lock[s] # NULL /\ pc[out_lock[s]] = "configure")
  /\ \A t \in Threads : pc[t] = "configure" => pcm[stream[t]] = "open" /\ standby[stream[t]]
  /\ \A t \in Threads : pc[t] \in {"writei", "recover"} => ~standby[stream[t]]

(* active_output never names a stream that is in standby or freed, even    *)
(* though a stream that stops or fails clears it for another that plays.   *)
ActiveIsPlaying == active_output # NULL => opened[active_output] /\ ~standby[active_output]

Inv == TypeOK /\ MutexInv /\ CallInv /\ PcmInv /\ ActiveIsPlaying

LEMMA Names == Streams \subseteq Threads /\ NULL \notin Threads
BY AudioAssumption DEF Threads

LEMMA ModRange == ASSUME NEW n \in Nat \ {0}, NEW x \in Int PROVE x % n \in 0 .. n - 1
OBVIOUS

LEMMA InitInv == Init => Inv
BY Names, AudioAssumption DEF Init, Inv, TypeOK, MutexInv, CallInv, PcmInv, ActiveIsPlaying,
   NoPosition, WithAdev, WithOut, Waiting, Asking

LEMMA StepInv == Inv /\ [Next]_vars => Inv'
<1> SUFFICES ASSUME Inv, [Next]_vars PROVE Inv'
  OBVIOUS
<1> USE Names, AudioAssumption
    DEF Inv, TypeOK, MutexInv, CallInv, PcmInv, ActiveIsPlaying,
        WithAdev, WithOut, Waiting, Asking, NoPosition
<1>1. ASSUME NEW s \in Streams, adev_open_output_stream(s) PROVE Inv'
  BY <1>1 DEF adev_open_output_stream, mutexes, adev, start, frames, calls, results
<1>2. ASSUME NEW s \in Streams, adev_close_output_stream(s) PROVE Inv'
  BY <1>2 DEF adev_close_output_stream, mutexes, adev, calls
<1>3. ASSUME NEW s \in Streams, play(s) PROVE Inv'
  BY <1>3 DEF play, mutexes, adev, start, calls, results
<1>4. ASSUME NEW t \in Threads, NEW s \in Streams, NEW o \in operations(t, s), call(t, s, o) PROVE Inv'
  BY <1>4 DEF call, operations, first_lock, mutexes, adev, start, frames, results
<1>5. ASSUME NEW t \in Threads, lock_adev(t) PROVE Inv'
  BY <1>5 DEF lock_adev, goto, adev, start, frames, calls, results
<1>6. ASSUME NEW t \in Threads, lock_out(t) PROVE Inv'
  BY <1>6 DEF lock_out, goto, adev, start, frames, calls, results
<1>7. ASSUME NEW t \in Threads, out_standby(t) PROVE Inv'
  <2>1. CASE standby[stream[t]]
    BY <1>7, <2>1 DEF out_standby, return, do_output_standby, unlock_adev, unlock_out, results
  <2>2. CASE ~standby[stream[t]]
    <3>1. stream[t] \in Streams /\ handles[stream[t]] - 1 \in Int
      BY <1>7 DEF out_standby
    <3>2. /\ pcm' = [pcm EXCEPT ![stream[t]] = "NULL"] /\ active_output' = NULL
          /\ handles' = [handles EXCEPT ![stream[t]] = handles[stream[t]] - 1]
          /\ delay' = [delay EXCEPT ![stream[t]] = 0]
          /\ standby' = [standby EXCEPT ![stream[t]] = TRUE]
      BY <1>7, <2>2 DEF out_standby, do_output_standby
    <3>3. TypeOK'
      BY <1>7, <3>1, <3>2 DEF out_standby, return, unlock_adev, unlock_out, results
    <3>4. MutexInv' /\ CallInv'
      BY <1>7, <3>1, <3>2 DEF out_standby, return, unlock_adev, unlock_out, results
    <3>5. PcmInv'
      BY <1>7, <3>1, <3>2 DEF out_standby, return, unlock_adev, unlock_out, results
    <3>6. ActiveIsPlaying'
      BY <3>1, <3>2
    <3> QED BY <3>3, <3>4, <3>5, <3>6
  <2> QED BY <2>1, <2>2
<1>8. ASSUME NEW t \in Threads, out_set_parameters(t) PROVE Inv'
  BY <1>8 DEF out_set_parameters, return, unlock_adev, unlock_out, start, frames, results
<1>9. ASSUME NEW t \in Threads, playing(t) PROVE Inv'
  BY <1>9 DEF playing, goto, unlock_adev, adev, start, frames, calls, results
<1>10. ASSUME NEW t \in Threads, given_up(t) PROVE Inv'
  BY <1>10 DEF given_up, goto, unlock_adev, adev, start, frames, calls, results
<1>11. ASSUME NEW t \in Threads, snd_pcm_open(t) PROVE Inv'
  BY <1>11 DEF snd_pcm_open, goto, may_open, mutexes, adev, calls, results
<1>12. ASSUME NEW t \in Threads, open_fails(t) PROVE Inv'
  BY <1>12 DEF open_fails, goto, may_open, unlock_adev, fail, frames, calls, results
<1>13. ASSUME NEW t \in Threads, configure_fails(t) PROVE Inv'
  BY <1>13 DEF configure_fails, goto, unlock_adev, fail, frames, calls, results
<1>14. ASSUME NEW t \in Threads, not_prepared(t) PROVE Inv'
  BY <1>14 DEF not_prepared, goto, unlock_adev, fail, frames, calls, results
<1>15. ASSUME NEW t \in Threads, started(t) PROVE Inv'
  BY <1>15 DEF started, goto, unlock_adev, frames, calls, results
<1>16. ASSUME NEW t \in Threads, NEW n \in 1 .. Frames, snd_pcm_writei(t, n) PROVE Inv'
  BY <1>16 DEF snd_pcm_writei, goto, count, mutexes, adev, start, calls, results
<1>17. ASSUME NEW t \in Threads, writei_fails(t) PROVE Inv'
  BY <1>17 DEF writei_fails, goto, mutexes, adev, start, frames, calls, results
<1>18. ASSUME NEW t \in Threads, underrun(t) PROVE Inv'
  BY <1>18 DEF underrun, goto, mutexes, adev, start, frames, calls, results
<1>19. ASSUME NEW t \in Threads, exit(t) PROVE Inv'
  BY <1>19 DEF exit, return, unlock_out, adev, start, frames, results
<1>20. ASSUME NEW t \in Threads, test_pcm(t) PROVE Inv'
  <2>1. CASE pcm[stream[t]] = "NULL"
    <3>1. /\ pc[t] = "position" /\ t \in Streams /\ return(t)
          /\ position' = [position EXCEPT ![t] = NoPosition]
          /\ UNCHANGED <<mutexes, adev, opened, start, frames, avail>>
      BY <1>20, <2>1 DEF test_pcm
    <3>2. TypeOK' /\ MutexInv'
      BY <3>1 DEF return, mutexes, adev, start, frames
    <3>3. CallInv' /\ PcmInv' /\ ActiveIsPlaying'
      BY <3>1 DEF return, mutexes, adev, start, frames
    <3> QED BY <3>2, <3>3
  <2>2. CASE pcm[stream[t]] # "NULL"
    BY <1>20, <2>2 DEF test_pcm, goto, return, mutexes, adev, start, frames, calls
  <2> QED BY <2>1, <2>2
<1>21. ASSUME NEW t \in Threads, snd_pcm_htimestamp(t) PROVE Inv'
  <2>1. /\ UNCHANGED <<mutexes, adev, opened, start, frames, position, calls>>
        /\ \E label \in {"compute", "undefined"} : pc' = [pc EXCEPT ![t] = label]
        /\ pc[t] = "htimestamp" /\ t \in Streams
    BY <1>21 DEF snd_pcm_htimestamp, goto
  <2>2. avail' \in [Streams -> 0 .. Buffer]
    BY <1>21, <2>1 DEF snd_pcm_htimestamp
  <2>3. TypeOK' /\ MutexInv'
    BY <2>1, <2>2 DEF mutexes, adev, start, frames, calls
  <2>4. CallInv' /\ PcmInv' /\ ActiveIsPlaying'
    BY <2>1 DEF mutexes, adev, start, calls
  <2> QED BY <2>3, <2>4
<1>22. ASSUME NEW t \in Threads, htimestamp_fails(t) PROVE Inv'
  BY <1>22 DEF htimestamp_fails, return, mutexes, adev, start, frames
<1>23. ASSUME NEW t \in Threads, compute(t) PROVE Inv'
  BY <1>23 DEF compute, return, signed_frames, mutexes, adev, start, frames
<1>24. CASE UNCHANGED vars
  BY <1>24 DEF vars, mutexes, adev, start, frames, calls, results
<1> QED
  BY <1>1, <1>2, <1>3, <1>4, <1>5, <1>6, <1>7, <1>8, <1>9, <1>10, <1>11, <1>12, <1>13, <1>14, <1>15, <1>16, <1>17, <1>18, <1>19, <1>20, <1>21, <1>22, <1>23, <1>24
  DEF Next, step, out_write, out_get_presentation_position

LEMMA AlwaysInv == Spec => []Inv
BY InitInv, StepInv, PTL DEF Spec

(* Every variable keeps its type, the counters of 32 bits included.        *)
THEOREM TypeCorrect == Spec => []TypeOK
<1>1. Inv => TypeOK
  BY DEF Inv
<1> QED BY AlwaysInv, <1>1, PTL

OneLostAtClose(s) ==
  Lost(s)' # Lost(s) => Lost(s)' = Lost(s) + 1 /\ unavailable[s] /\ opened[s] /\ ~opened'[s]

LEMMA HandleStep == ASSUME Inv, [Next]_vars, NEW s \in Streams PROVE OneLostAtClose(s)
<1> USE Names DEF Inv, TypeOK, CallInv, MutexInv, PcmInv, Held, Lost
<1>1. ASSUME UNCHANGED <<pcm, handles>> PROVE OneLostAtClose(s)
  BY <1>1 DEF OneLostAtClose
<1>2. ASSUME NEW r \in Streams, adev_close_output_stream(r) PROVE OneLostAtClose(s)
  <2>1. pcm[r] = "open" => unavailable[r]
    BY <1>2 DEF adev_close_output_stream, WithOut
  <2>2. /\ opened[r] /\ ~opened'[r] /\ handles' = handles
        /\ pcm'[r] = "NULL" /\ (s # r => pcm'[s] = pcm[s])
    BY <1>2 DEF adev_close_output_stream
  <2>3. handles[s] \in Int
    OBVIOUS
  <2> QED BY <2>1, <2>2, <2>3 DEF OneLostAtClose
(* Standby and a start that is not prepared close the handle they held.    *)
<1>3. ASSUME NEW t \in Threads, stream[t] \in Streams, pcm[stream[t]] = "open", pcm'[stream[t]] # "open",
             \A r \in Streams \ {stream[t]} : pcm'[r] = pcm[r],
             handles' = [handles EXCEPT ![stream[t]] = handles[stream[t]] - 1]
      PROVE  OneLostAtClose(s)
  BY <1>3 DEF OneLostAtClose
<1>4. ASSUME NEW t \in Threads, out_standby(t) PROVE OneLostAtClose(s)
  <2>1. stream[t] \in Streams
    BY <1>4 DEF out_standby
  <2>2. CASE standby[stream[t]]
    BY <1>1, <1>4, <2>2 DEF out_standby, do_output_standby
  <2>3. CASE ~standby[stream[t]]
    <3>1. /\ pcm' = [pcm EXCEPT ![stream[t]] = "NULL"] /\ pcm[stream[t]] = "open"
          /\ handles' = [handles EXCEPT ![stream[t]] = handles[stream[t]] - 1]
      BY <1>4, <2>1, <2>3 DEF out_standby, do_output_standby
    <3>2. pcm'[stream[t]] # "open" /\ \A r \in Streams \ {stream[t]} : pcm'[r] = pcm[r]
      BY <2>1, <3>1
    <3> QED BY <1>3, <2>1, <3>1, <3>2
  <2> QED BY <2>2, <2>3
<1>5. ASSUME NEW t \in Threads, not_prepared(t) PROVE OneLostAtClose(s)
  <2>1. stream[t] \in Streams /\ pcm[stream[t]] = "open"
    BY <1>5 DEF not_prepared
  <2>2. /\ pcm' = [pcm EXCEPT ![stream[t]] = "closed"]
        /\ handles' = [handles EXCEPT ![stream[t]] = handles[stream[t]] - 1]
    BY <1>5 DEF not_prepared
  <2>3. pcm'[stream[t]] # "open" /\ \A r \in Streams \ {stream[t]} : pcm'[r] = pcm[r]
    BY <2>1, <2>2
  <2> QED BY <1>3, <2>1, <2>2, <2>3
(* A stream that may be started holds no open handle.                      *)
<1>6. ASSUME NEW t \in Threads, snd_pcm_open(t) PROVE OneLostAtClose(s)
  <2>1. stream[t] \in Streams /\ out_lock[stream[t]] = t /\ pc[t] = "write"
    BY <1>6 DEF snd_pcm_open, WithOut
  <2>2. pcm[stream[t]] # "open"
    BY <1>6, <2>1 DEF snd_pcm_open, may_open
  <2>3. /\ pcm' = [pcm EXCEPT ![stream[t]] = "open"]
        /\ handles' = [handles EXCEPT ![stream[t]] = handles[stream[t]] + 1]
    BY <1>6 DEF snd_pcm_open
  <2> QED BY <2>1, <2>2, <2>3 DEF OneLostAtClose
<1>7. ASSUME NEW t \in Threads,
             \/ lock_adev(t) \/ lock_out(t) \/ out_set_parameters(t) \/ playing(t) \/ given_up(t)
             \/ open_fails(t) \/ configure_fails(t) \/ started(t) \/ writei_fails(t) \/ underrun(t)
             \/ exit(t) \/ test_pcm(t) \/ snd_pcm_htimestamp(t) \/ htimestamp_fails(t) \/ compute(t)
             \/ (\E n \in 1 .. Frames : snd_pcm_writei(t, n))
      PROVE  OneLostAtClose(s)
  BY <1>1, <1>7 DEF lock_adev, lock_out, out_set_parameters, playing, given_up, open_fails, configure_fails,
     started, writei_fails, underrun, exit, test_pcm, snd_pcm_htimestamp, htimestamp_fails, compute,
     snd_pcm_writei, start
<1>8. CASE \E r \in Streams : adev_open_output_stream(r) \/ play(r)
  BY <1>1, <1>8 DEF adev_open_output_stream, play, start
<1>9. CASE \E t \in Threads, r \in Streams : \E o \in operations(t, r) : call(t, r, o)
  BY <1>1, <1>9 DEF call, start
<1>10. CASE UNCHANGED vars
  BY <1>1, <1>10 DEF vars, start
<1> QED BY <1>2, <1>4, <1>5, <1>6, <1>7, <1>8, <1>9, <1>10
        DEF Next, step, out_write, out_get_presentation_position

(* A handle is lost only when a stream whose start failed is closed,       *)
(* whatever fails in whatever order and for any number of streams.         *)
THEOREM HandlesKept == Spec => HandleLostOnlyAtClose
<1>1. Inv /\ [Next]_vars => [\A s \in Streams : OneLostAtClose(s)]_vars
  BY HandleStep
<1>2. Spec => [][\A s \in Streams : OneLostAtClose(s)]_vars
  BY AlwaysInv, <1>1, PTL DEF Spec
<1> QED BY <1>2 DEF HandleLostOnlyAtClose, OneLostAtClose

(* No thread takes the handle from one that writes without the device      *)
(* mutex.                                                                  *)
THEOREM WritesOpen == Spec => []WritesToOpenPcm
<1>1. Inv => WritesToOpenPcm
  BY DEF Inv, CallInv, PcmInv, WritesToOpenPcm
<1> QED BY AlwaysInv, <1>1, PTL

(* However streams start, fail and stop one another's entry, the entry of  *)
(* the adapter names a stream that plays.                                  *)
THEOREM ActivePlays == Spec => []ActiveIsPlaying
<1>1. Inv => ActiveIsPlaying
  BY DEF Inv
<1> QED BY AlwaysInv, <1>1, PTL
-----------------------------------------------------------------------------
(* Positions.  The counter of a stream is what the device took of it,      *)
(* wrapped; what a thread still has of the answer of the device is what    *)
(* was queued then, which the device took before.                          *)
CountInv ==
  /\ \A s \in Streams : written[s] = taken[s] % U32 /\ delay[s] <= taken[s] /\ position[s] <= taken[s]
  /\ \A t \in Threads : pc[t] \in Asking => stream[t] = t
  /\ \A s \in Streams : pc[s] = "compute" => Buffer - avail[s] <= taken[s]

LEMMA Remainder ==
  ASSUME NEW n \in Nat \ {0}, NEW x \in Int
  PROVE  \E q \in Int : x = n * q + (x % n) /\ (x >= 0 => q >= 0)
<1>1. x \div n \in Int /\ x = n * (x \div n) + (x % n) /\ (x >= 0 => x \div n >= 0)
  OBVIOUS
<1> QED BY <1>1

LEMMA ModOf ==
  ASSUME NEW n \in Nat \ {0}, NEW q \in Int, NEW r \in 0 .. n - 1
  PROVE  (n * q + r) % n = r
OBVIOUS

(* What is wrapped may be wrapped again after a sum.                       *)
LEMMA ModSum ==
  ASSUME NEW n \in Nat \ {0}, NEW x \in Int, NEW d \in Int
  PROVE  ((x % n) + d) % n = (x + d) % n
<1> DEFINE y == x % n
           z == (y + d) % n
<1>1. PICK q \in Int : x = n * q + y
  BY Remainder
<1>2. y \in Int
  BY ModRange
<1> HIDE DEF y
<1>3. y + d \in Int
  BY <1>2
<1>4. z \in 0 .. n - 1
  BY <1>3, ModRange
<1>5. PICK p \in Int : y + d = n * p + z
  BY <1>3, Remainder
<1> HIDE DEF z
<1>6. x + d = n * (q + p) + z
  <2>1. n * (q + p) = n * q + n * p
    OBVIOUS
  <2> QED BY <1>1, <1>2, <1>4, <1>5, <2>1
<1>7. q + p \in Int
  OBVIOUS
<1>8. (n * (q + p) + z) % n = z
  BY <1>4, <1>7, ModOf
<1> QED BY <1>6, <1>8 DEF y, z

LEMMA ModSmaller ==
  ASSUME NEW n \in Nat \ {0}, NEW x \in Nat
  PROVE  x % n <= x
OBVIOUS

LEMMA CountWraps ==
  ASSUME NEW x \in Nat, NEW d \in Int
  PROVE  /\ ((x % U32) + d) % U32 = (x + d) % U32
         /\ x + d >= 0 => (x + d) % U32 \in Nat /\ (x + d) % U32 <= x + d
<1>1. U32 \in Nat \ {0} /\ x \in Int
  BY AudioAssumption
<1>2. ((x % U32) + d) % U32 = (x + d) % U32
  BY <1>1, ModSum, Zenon
<1>3. ASSUME x + d >= 0 PROVE (x + d) % U32 \in Nat /\ (x + d) % U32 <= x + d
  <2> DEFINE y == x + d
  <2>1. y \in Nat /\ y \in Int
    BY <1>3
  <2> HIDE DEF y
  <2>2. y % U32 \in 0 .. U32 - 1 /\ y % U32 <= y
    BY <1>1, <2>1, ModRange, ModSmaller, Zenon
  <2> QED BY <1>1, <2>2 DEF y
<1> QED BY <1>2, <1>3

LEMMA CountStep == ASSUME Inv, CountInv, [Next]_vars PROVE CountInv'
<1> USE Names, AudioAssumption DEF Inv, TypeOK, CallInv, MutexInv, CountInv, Asking, NoPosition
<1>1. ASSUME NEW s \in Streams, adev_open_output_stream(s) PROVE CountInv'
  BY <1>1 DEF adev_open_output_stream, frames, calls, results
<1>2. ASSUME NEW s \in Streams, adev_close_output_stream(s) PROVE CountInv'
  <2>1. 0 % U32 = 0 /\ \A t \in Threads : stream[t] # s
    BY <1>2 DEF adev_close_output_stream
  <2> QED BY <1>2, <2>1 DEF adev_close_output_stream, calls
<1>3. ASSUME NEW s \in Streams, play(s) PROVE CountInv'
  BY <1>3 DEF play, calls, results
<1>4. ASSUME NEW t \in Threads, NEW s \in Streams, NEW o \in operations(t, s), call(t, s, o) PROVE CountInv'
  BY <1>4 DEF call, operations, first_lock, frames, results
<1>5. ASSUME NEW t \in Threads, lock_adev(t) \/ lock_out(t) PROVE CountInv'
  BY <1>5 DEF lock_adev, lock_out, goto, frames, calls, results, Waiting
<1>6. ASSUME NEW t \in Threads, out_standby(t) PROVE CountInv'
  <2>1. delay' = delay \/ delay' = [delay EXCEPT ![stream[t]] = 0]
    BY <1>6 DEF out_standby, do_output_standby
  <2>2. \A s \in Streams : delay'[s] <= taken[s]
    BY <2>1
  <2> QED BY <1>6, <2>2 DEF out_standby, return, results
<1>7. ASSUME NEW t \in Threads, out_set_parameters(t) PROVE CountInv'
  BY <1>7 DEF out_set_parameters, return, frames, results
<1>8. ASSUME NEW t \in Threads, snd_pcm_open(t) PROVE CountInv'
  BY <1>8 DEF snd_pcm_open, goto, calls, results
<1>9. ASSUME NEW t \in Threads, NEW n \in 1 .. Frames, snd_pcm_writei(t, n) PROVE CountInv'
  <2>1. stream[t] \in Streams /\ n \in Nat
    BY <1>9 DEF snd_pcm_writei
  <2> DEFINE x == taken[stream[t]]
  <2>2. x \in Nat /\ written[stream[t]] = x % U32 /\ ((x % U32) + n) % U32 = (x + n) % U32
    <3>1. x \in Nat /\ n \in Int /\ written[stream[t]] = x % U32
      BY <2>1
    <3> HIDE DEF x
    <3> QED BY <3>1, CountWraps, Zenon
  <2>3. \A s \in Streams : written'[s] = taken'[s] % U32 /\ delay'[s] <= taken'[s] /\ taken[s] <= taken'[s]
    <3>1. /\ delay' = [delay EXCEPT ![stream[t]] = delay[stream[t]] + n]
          /\ taken' = [taken EXCEPT ![stream[t]] = x + n]
          /\ written' = [written EXCEPT ![stream[t]] = (written[stream[t]] + n) % U32]
      BY <1>9 DEF snd_pcm_writei, count
    <3>2. taken'[stream[t]] = x + n /\ written'[stream[t]] = (written[stream[t]] + n) % U32
      BY <2>1, <3>1
    <3>3. written'[stream[t]] = taken'[stream[t]] % U32
      BY <2>2, <3>2, Zenon
    <3>4. \A s \in Streams : s # stream[t] => written'[s] = taken'[s] % U32
      BY <2>1, <3>1
    <3>5. \A s \in Streams : delay'[s] <= taken'[s] /\ taken[s] <= taken'[s]
      BY <2>1, <3>1
    <3> QED BY <3>3, <3>4, <3>5, Zenon
  <2>4. /\ \A u \in Threads : pc'[u] \in Asking => pc[u] = pc'[u] /\ stream'[u] = stream[u]
        /\ \A s \in Streams : pc'[s] = "compute" => pc[s] = "compute"
        /\ UNCHANGED <<avail, position>>
    BY <1>9 DEF snd_pcm_writei, goto, calls, results
  <2>5. \A s \in Streams : position'[s] <= taken'[s]
    <3> TAKE s \in Streams
    <3>1. taken[s] \in Nat /\ taken'[s] \in Nat /\ position[s] \in Nat \union {-1}
      BY <1>9, <2>1 DEF snd_pcm_writei
    <3> QED BY <2>3, <2>4, <3>1
  <2>6. \A s \in Streams : pc'[s] = "compute" => Buffer - avail'[s] <= taken'[s]
    <3> TAKE s \in Streams
    <3>1. taken[s] \in Nat /\ taken'[s] \in Nat /\ avail[s] \in Nat
      BY <1>9, <2>1 DEF snd_pcm_writei
    <3> QED BY <2>3, <2>4, <3>1
  <2> QED BY <2>3, <2>4, <2>5, <2>6
<1>10. ASSUME NEW t \in Threads,
              \/ playing(t) \/ given_up(t) \/ open_fails(t) \/ configure_fails(t) \/ not_prepared(t)
              \/ started(t) \/ writei_fails(t) \/ underrun(t)
       PROVE  CountInv'
  BY <1>10 DEF playing, given_up, open_fails, configure_fails, not_prepared, started, writei_fails,
               underrun, fail, goto, frames, calls, results
<1>11. ASSUME NEW t \in Threads, exit(t) PROVE CountInv'
  BY <1>11 DEF exit, return, frames, results
<1>12. ASSUME NEW t \in Threads, test_pcm(t) PROVE CountInv'
  BY <1>12 DEF test_pcm, goto, return, frames, calls
<1>13. ASSUME NEW t \in Threads, snd_pcm_htimestamp(t) PROVE CountInv'
  <2>1. t \in Streams /\ stream[t] = t
    BY <1>13 DEF snd_pcm_htimestamp
  <2> QED BY <1>13, <2>1 DEF snd_pcm_htimestamp, goto, frames, calls
<1>14. ASSUME NEW t \in Threads, htimestamp_fails(t) PROVE CountInv'
  BY <1>14 DEF htimestamp_fails, return, frames
<1>15. ASSUME NEW t \in Threads, compute(t) PROVE CountInv'
  <2>1. t \in Streams /\ pc[t] = "compute"
    BY <1>15 DEF compute
  <2> DEFINE x == taken[t]  d == avail[t] - Buffer
  <2>2. x \in Nat /\ d \in Int /\ x + d \in Nat /\ x + d <= x
    BY <2>1
  <2>3. signed_frames(t) = ((x % U32) + d) % U32
    <3>1. written[t] = x % U32 /\ x % U32 \in Int
      BY <2>1, <2>2, ModRange
    <3>2. written[t] - Buffer + avail[t] = (x % U32) + d
      BY <2>1, <3>1
    <3> QED BY <3>2 DEF signed_frames
  <2>4. signed_frames(t) \in Nat /\ signed_frames(t) <= taken[t]
    <3>1. /\ signed_frames(t) = (x + d) % U32
          /\ (x + d) % U32 \in Nat /\ (x + d) % U32 <= x + d
      <4> HIDE DEF x, d
      <4>1. x \in Nat /\ d \in Int /\ x + d >= 0
        BY <2>2
      <4> QED BY <2>3, <4>1, CountWraps, Zenon
    <3> QED BY <2>2, <3>1
  <2> HIDE DEF x, d
  <2>5. /\ position' = [position EXCEPT ![t] = signed_frames(t)] /\ avail' = [avail EXCEPT ![t] = 0]
        /\ UNCHANGED frames /\ return(t)
    BY <1>15 DEF compute
  <2> QED BY <2>1, <2>4, <2>5 DEF return, frames
<1>16. CASE UNCHANGED vars
  BY <1>16 DEF vars, frames, calls, results
<1> QED
  BY <1>1, <1>2, <1>3, <1>4, <1>5, <1>6, <1>7, <1>8, <1>9, <1>10, <1>11, <1>12, <1>13, <1>14, <1>15, <1>16
  DEF Next, step, out_write, out_get_presentation_position

(* The position of a stream never runs ahead of what the device took, in   *)
(* whatever width it is computed and however often the counter wrapped.    *)
THEOREM PositionTaken == Spec => []PositionWithinTaken
<1>1. Init => CountInv
  <2>1. 0 % U32 = 0
    BY AudioAssumption
  <2> QED BY <2>1, Names, AudioAssumption DEF Init, CountInv, Asking, NoPosition
<1>2. Inv /\ CountInv /\ [Next]_vars => CountInv'
  BY CountStep
<1>3. CountInv => PositionWithinTaken
  BY DEF CountInv, PositionWithinTaken
<1> QED BY AlwaysInv, <1>1, <1>2, <1>3, PTL DEF Spec
=============================================================================
