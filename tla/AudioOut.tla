------------------------------ MODULE AudioOut ------------------------------
(***************************************************************************)
(* Playback in the audio HAL (audio/audio_hw.c): output streams that share *)
(* the adapter, the mutex of each, the life of a stream's PCM handle, and  *)
(* the count of frames from which positions are computed.                  *)
(*                                                                         *)
(* The caller is external.  AudioFlinger gives each stream a thread that   *)
(* alone writes and asks for the position; it closes a stream in standby   *)
(* when no call is under way.  Standby and parameters come from any        *)
(* thread.  So does the device: it plays what was queued, and calls to it  *)
(* succeed or fail.  The position is computed in the 32 bits of unsigned   *)
(* and size_t, so its test for a negative result never fails.              *)
(***************************************************************************)
EXTENDS Integers

CONSTANTS
  Streams,      \* output streams, each with the thread that plays it
  Binders,      \* other threads of the audio server
  NULL,
  Routes,       \* values of the routing parameter, 0 among them
  Frames,       \* frames of one write
  Buffer,       \* period_size * period_count, the frames the device queues
  U32,          \* 2^32
  MaxTaken,     \* bound on the frames a stream plays in its life
  MaxHandles    \* bound: handles left open before no stream is opened again

ASSUME AudioAssumption ==
  /\ Streams \intersect Binders = {} /\ NULL \notin Streams \union Binders
  /\ Frames \in Nat \ {0} /\ Buffer \in Nat /\ Frames <= Buffer
  /\ U32 \in Nat \ {0} /\ MaxTaken \in Nat /\ MaxHandles \in Nat \ {0}

Threads == Streams \union Binders
NoPosition == -1

VARIABLES
  adev_lock, out_lock,            \* the thread that holds a mutex, or NULL
  active_output, devices,         \* struct alsa_audio_device
  opened, standby, unavailable,   \* struct alsa_stream_out of each stream
  pcm, written,
  handles, delay, taken,          \* the device: open handles, frames queued and ever taken
  pc, stream, op,                 \* where a thread is, and in which call on which stream
  avail, position                 \* local of out_get_presentation_position, and its result

mutexes == <<adev_lock, out_lock>>
adev    == <<active_output, devices>>
start   == <<standby, unavailable, pcm, handles>>
frames  == <<written, delay, taken>>
calls   == <<stream, op>>
results == <<avail, position>>
vars    == <<mutexes, adev, opened, start, frames, pc, calls, results>>

Init ==
  /\ adev_lock = NULL /\ out_lock = [s \in Streams |-> NULL]
  /\ active_output = NULL /\ devices = 0
  /\ opened = [s \in Streams |-> FALSE]
  /\ standby = [s \in Streams |-> TRUE] /\ unavailable = [s \in Streams |-> FALSE]
  /\ pcm = [s \in Streams |-> "NULL"] /\ handles = [s \in Streams |-> 0]
  /\ written = [s \in Streams |-> 0]
  /\ delay = [s \in Streams |-> 0] /\ taken = [s \in Streams |-> 0]
  /\ pc = [t \in Threads |-> "idle"] /\ stream = [t \in Threads |-> NULL]
  /\ op = [t \in Threads |-> "none"]
  /\ avail = [s \in Streams |-> 0] /\ position = [s \in Streams |-> NoPosition]

goto(t, label) == pc' = [pc EXCEPT ![t] = label] /\ UNCHANGED calls
return(t) ==
  /\ pc' = [pc EXCEPT ![t] = "idle"]
  /\ stream' = [stream EXCEPT ![t] = NULL] /\ op' = [op EXCEPT ![t] = "none"]

-----------------------------------------------------------------------------
(* Opening allocates the stream anew, closing frees it; in between the     *)
(* variables of a stream have their initial values.  Nothing is closed     *)
(* with it: a handle that the stream still held stays open in the device.  *)

adev_open_output_stream(s) ==
  /\ ~opened[s] /\ handles[s] < MaxHandles /\ opened' = [opened EXCEPT ![s] = TRUE]
  /\ UNCHANGED <<mutexes, adev, start, frames, pc, calls, results>>

adev_close_output_stream(s) ==
  /\ opened[s] /\ standby[s] /\ \A t \in Threads : stream[t] # s
  /\ opened' = [opened EXCEPT ![s] = FALSE]
  /\ unavailable' = [unavailable EXCEPT ![s] = FALSE]
  /\ pcm' = [pcm EXCEPT ![s] = "NULL"] /\ written' = [written EXCEPT ![s] = 0]
  /\ delay' = [delay EXCEPT ![s] = 0] /\ taken' = [taken EXCEPT ![s] = 0]
  /\ position' = [position EXCEPT ![s] = NoPosition]
  /\ UNCHANGED <<mutexes, adev, standby, handles, pc, calls, avail>>

-----------------------------------------------------------------------------
(* Calls, which take the device mutex before that of the stream.           *)

operations(t, s) ==
  {"standby", "set_parameters"} \union (IF t = s THEN {"write", "position"} ELSE {})

first_lock_if_standby(s, o) ==   \* mutant: a playing stream writes without the device mutex
  IF o = "write" /\ ~standby[s] THEN "lock_out" ELSE "lock_adev"
first_lock(s, o) == "lock_adev"

call(t, s, o) ==
  /\ pc[t] = "idle" /\ opened[s] /\ o \in operations(t, s)
  /\ o = "write" => taken[s] + Frames <= MaxTaken
  /\ stream' = [stream EXCEPT ![t] = s] /\ op' = [op EXCEPT ![t] = o]
  /\ pc' = [pc EXCEPT ![t] = IF o = "position" THEN "position" ELSE first_lock(s, o)]
  /\ UNCHANGED <<mutexes, adev, opened, start, frames, results>>

lock_adev(t) ==
  /\ pc[t] = "lock_adev" /\ adev_lock = NULL
  /\ adev_lock' = t /\ goto(t, "lock_out")
  /\ UNCHANGED <<out_lock, adev, opened, start, frames, results>>

lock_out(t) ==
  /\ pc[t] = "lock_out" /\ out_lock[stream[t]] = NULL
  /\ out_lock' = [out_lock EXCEPT ![stream[t]] = t] /\ goto(t, op[t])
  /\ UNCHANGED <<adev_lock, adev, opened, start, frames, results>>

unlock_adev(t) == adev_lock' = IF adev_lock = t THEN NULL ELSE adev_lock
unlock_out(t)  == out_lock' = [out_lock EXCEPT ![stream[t]] = NULL]

do_output_standby(s) ==
  IF standby[s] THEN UNCHANGED <<standby, pcm, handles, delay, active_output>>
  ELSE /\ pcm' = [pcm EXCEPT ![s] = "NULL"] /\ handles' = [handles EXCEPT ![s] = @ - 1]
       /\ delay' = [delay EXCEPT ![s] = 0]
       /\ active_output' = NULL /\ standby' = [standby EXCEPT ![s] = TRUE]

out_standby(t) ==
  /\ pc[t] = "standby" /\ do_output_standby(stream[t])
  /\ unlock_out(t) /\ unlock_adev(t) /\ return(t)
  /\ UNCHANGED <<devices, opened, unavailable, written, taken, results>>

out_set_parameters(t) ==
  /\ pc[t] = "set_parameters"
  /\ \E val \in Routes : devices' = IF val # 0 THEN val ELSE devices
  /\ unlock_out(t) /\ unlock_adev(t) /\ return(t)
  /\ UNCHANGED <<active_output, opened, start, frames, results>>

-----------------------------------------------------------------------------
(* out_write, with start_output_stream when the stream is in standby.      *)

playing_unlocked(t) ==          \* mutant: the mutex of the stream is not kept while writing
  /\ pc[t] = "write" /\ ~standby[stream[t]]
  /\ unlock_adev(t) /\ unlock_out(t) /\ goto(t, "writei")
  /\ UNCHANGED <<adev, opened, start, frames, results>>
playing(t) ==
  /\ pc[t] = "write" /\ ~standby[stream[t]]
  /\ unlock_adev(t) /\ goto(t, "writei")
  /\ UNCHANGED <<out_lock, adev, opened, start, frames, results>>

given_up(t) ==
  /\ pc[t] = "write" /\ standby[stream[t]] /\ unavailable[stream[t]]
  /\ unlock_adev(t) /\ goto(t, "exit")
  /\ UNCHANGED <<out_lock, adev, opened, start, frames, results>>

may_open_again(s) == standby[s]                \* mutant: unavailable is not asked
may_open(s)       == standby[s] /\ ~unavailable[s]

snd_pcm_open(t) ==
  LET s == stream[t] IN
  /\ pc[t] = "write" /\ may_open(s)
  /\ pcm' = [pcm EXCEPT ![s] = "open"] /\ handles' = [handles EXCEPT ![s] = @ + 1]
  /\ delay' = [delay EXCEPT ![s] = 0] /\ goto(t, "configure")
  /\ UNCHANGED <<mutexes, adev, opened, standby, unavailable, written, taken, results>>

fail(t) ==
  /\ active_output' = NULL /\ unavailable' = [unavailable EXCEPT ![stream[t]] = TRUE]
  /\ unlock_adev(t) /\ goto(t, "exit")
  /\ UNCHANGED <<out_lock, devices, opened, standby, frames, results>>

open_fails(t) == pc[t] = "write" /\ may_open(stream[t]) /\ fail(t) /\ UNCHANGED <<pcm, handles>>

(* The hardware parameters, or snd_pcm_prepare: the handle stays open.     *)
configure_fails(t) == pc[t] = "configure" /\ fail(t) /\ UNCHANGED <<pcm, handles>>

(* The handle is closed, but out->pcm keeps its value.                     *)
not_prepared(t) ==
  LET s == stream[t] IN
  /\ pc[t] = "configure" /\ fail(t)
  /\ pcm' = [pcm EXCEPT ![s] = "closed"] /\ handles' = [handles EXCEPT ![s] = @ - 1]

started(t) ==
  /\ pc[t] = "configure"
  /\ active_output' = stream[t] /\ standby' = [standby EXCEPT ![stream[t]] = FALSE]
  /\ unlock_adev(t) /\ goto(t, "writei")
  /\ UNCHANGED <<out_lock, devices, opened, unavailable, pcm, handles, frames, results>>

count_requested(n) == Frames                   \* mutant: written += out_frames
count(n)           == n

(* snd_pcm_writei blocks while the device has no room.                     *)
snd_pcm_writei(t, n) ==
  LET s == stream[t] IN
  /\ pc[t] \in {"writei", "recover"} /\ delay[s] + n <= Buffer
  /\ delay' = [delay EXCEPT ![s] = @ + n] /\ taken' = [taken EXCEPT ![s] = @ + n]
  /\ written' = [written EXCEPT ![s] = (@ + count(n)) % U32]
  /\ goto(t, "exit")
  /\ UNCHANGED <<mutexes, adev, opened, start, results>>

writei_fails(t) ==
  /\ pc[t] \in {"writei", "recover"} /\ goto(t, "exit")
  /\ UNCHANGED <<mutexes, adev, opened, start, frames, results>>

(* -EPIPE: an underrun; snd_pcm_prepare, and once more.                    *)
underrun(t) ==
  /\ pc[t] = "writei" /\ delay[stream[t]] = 0 /\ goto(t, "recover")
  /\ UNCHANGED <<mutexes, adev, opened, start, frames, results>>

exit(t) ==
  /\ pc[t] = "exit" /\ unlock_out(t) /\ return(t)
  /\ UNCHANGED <<adev_lock, adev, opened, start, frames, results>>

-----------------------------------------------------------------------------
(* out_get_presentation_position takes no mutex: another thread may put    *)
(* the stream in standby after the test of out->pcm.  What snd_pcm_        *)
(* htimestamp does with a handle that is closed is undefined.              *)

test_pcm(t) ==
  /\ pc[t] = "position"
  /\ IF pcm[stream[t]] = "NULL"
       THEN return(t) /\ position' = [position EXCEPT ![t] = NoPosition]
       ELSE goto(t, "htimestamp") /\ UNCHANGED position
  /\ UNCHANGED <<mutexes, adev, opened, start, frames, avail>>

snd_pcm_htimestamp(t) ==
  /\ pc[t] = "htimestamp"
  /\ IF pcm[stream[t]] = "open"
       THEN avail' = [avail EXCEPT ![t] = Buffer - delay[t]] /\ goto(t, "compute")
       ELSE goto(t, "undefined") /\ UNCHANGED avail
  /\ UNCHANGED <<mutexes, adev, opened, start, frames, position>>

htimestamp_fails(t) ==
  /\ pc[t] = "htimestamp" /\ pcm[stream[t]] = "open" /\ return(t)
  /\ position' = [position EXCEPT ![t] = NoPosition]
  /\ UNCHANGED <<mutexes, adev, opened, start, frames, avail>>

signed_frames_wide(t) == written[t] - Buffer + avail[t]   \* mutant: a signed sum
signed_frames(t)      == (written[t] - Buffer + avail[t]) % U32

compute(t) ==
  /\ pc[t] = "compute" /\ return(t)
  /\ position' = [position EXCEPT ![t] = signed_frames(t)] /\ avail' = [avail EXCEPT ![t] = 0]
  /\ UNCHANGED <<mutexes, adev, opened, start, frames>>

(* The device plays.                                                       *)
play(s) ==
  /\ delay[s] > 0 /\ delay' = [delay EXCEPT ![s] = @ - 1]
  /\ UNCHANGED <<mutexes, adev, opened, start, written, taken, pc, calls, results>>

out_write(t) ==
  \/ playing(t) \/ given_up(t)
  \/ snd_pcm_open(t) \/ open_fails(t) \/ configure_fails(t) \/ not_prepared(t) \/ started(t)
  \/ (\E n \in 1 .. Frames : snd_pcm_writei(t, n)) \/ underrun(t) \/ exit(t)

out_get_presentation_position(t) ==
  test_pcm(t) \/ snd_pcm_htimestamp(t) \/ htimestamp_fails(t) \/ compute(t)

step(t) ==
  \/ lock_adev(t) \/ lock_out(t) \/ out_standby(t) \/ out_set_parameters(t)
  \/ out_write(t) \/ out_get_presentation_position(t)

Next ==
  \/ \E s \in Streams : adev_open_output_stream(s) \/ adev_close_output_stream(s) \/ play(s)
  \/ \E t \in Threads, s \in Streams : \E o \in operations(t, s) : call(t, s, o)
  \/ \E t \in Threads : step(t) \/ writei_fails(t)

Spec == Init /\ [][Next]_vars

(* Threads run and the device plays; no mutex is fair.                     *)
FairSpec == /\ Spec
            /\ \A t \in Threads : WF_vars(step(t))
            /\ \A s \in Streams : WF_vars(play(s))

-----------------------------------------------------------------------------
TypeOK ==
  /\ adev_lock \in Threads \union {NULL} /\ out_lock \in [Streams -> Threads \union {NULL}]
  /\ active_output \in Streams \union {NULL} /\ devices \in Routes \union {0}
  /\ opened \in [Streams -> BOOLEAN] /\ standby \in [Streams -> BOOLEAN]
  /\ unavailable \in [Streams -> BOOLEAN]
  /\ pcm \in [Streams -> {"NULL", "open", "closed"}] /\ handles \in [Streams -> Int]
  /\ written \in [Streams -> 0 .. U32 - 1] /\ delay \in [Streams -> 0 .. Buffer]
  /\ taken \in [Streams -> Nat]
  /\ pc \in [Threads -> {"idle", "lock_adev", "lock_out", "standby", "set_parameters", "write",
                         "configure", "writei", "recover", "exit", "position", "htimestamp",
                         "compute", "undefined"}]
  /\ stream \in [Threads -> Streams \union {NULL}]
  /\ op \in [Threads -> {"none", "standby", "set_parameters", "write", "position"}]
  /\ avail \in [Streams -> 0 .. Buffer] /\ position \in [Streams -> Nat \union {NoPosition}]

Held(s) == IF pcm[s] = "open" THEN 1 ELSE 0
Lost(s) == handles[s] - Held(s)

(* A handle is lost when it is open and out->pcm does not hold it: nothing *)
(* will ever close it.  No start overwrites an open handle and no standby  *)
(* forgets one, however often a start failed before; only closing a stream *)
(* whose start failed after the open loses its handle, and just that one.  *)
HandleLostOnlyAtClose ==
  [][\A s \in Streams : Lost(s)' # Lost(s) =>
       Lost(s)' = Lost(s) + 1 /\ unavailable[s] /\ opened[s] /\ ~opened'[s]]_vars

(* out_write gives up the device mutex before it blocks in snd_pcm_writei. *)
(* Until it is done no standby closes the handle under it, and the stream  *)
(* is marked as playing, so that a later standby will close it.            *)
WritesToOpenPcm ==
  \A t \in Threads : pc[t] \in {"writei", "recover"} =>
    pcm[stream[t]] = "open" /\ ~standby[stream[t]]

(* A position never exceeds the frames the device has taken, through short *)
(* writes, underruns, standbys and the wrap of the counter.                *)
PositionWithinTaken == \A s \in Streams : position[s] <= taken[s]

(* The comment in out_write: taking the device mutex "systematically" lets *)
(* a thread that waits for the stream while it holds the device have it.   *)
(* So nobody keeps the device mutex for ever, whatever is written.         *)
DeviceLockReleased == \A t \in Threads : adev_lock = t ~> adev_lock # t
=============================================================================
