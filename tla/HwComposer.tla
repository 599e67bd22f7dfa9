----------------------------- MODULE HwComposer -----------------------------
(***************************************************************************)
(* The frame path of the SPURV hardware composer                           *)
(* (hwcomposer/hwcomposer.cpp, hwcomposer/simple-dmabuf-drm.c).            *)
(*                                                                         *)
(* Two threads of one process share the buffers of the window:             *)
(*   - the SurfaceFlinger thread calls hwc_prepare and then hwc_set, which *)
(*     commits one Wayland buffer per usable layer and gives the layer a   *)
(*     release fence: a point of one sw_sync timeline;                     *)
(*   - the Wayland thread dispatches the compositor's wl_buffer.release    *)
(*     events to buffer_release, which frees the buffer and increments     *)
(*     the timeline.                                                       *)
(* No lock protects busy, release_fence_fd or the timeline, so each access *)
(* that the other thread can observe is a step of its own.                 *)
(*                                                                         *)
(* A commit is named by its sync point: commits are numbered in the order  *)
(* in which hwc_set makes them, and stage[p] says how far commit p has     *)
(* travelled.  A buffer is named by its prime_fd, the key of the buffer    *)
(* table.                                                                  *)
(***************************************************************************)
EXTENDS Integers, Sequences, FiniteSets

CONSTANTS
  Buffers,          \* the prime_fd numbers gralloc hands out
  NoHandle,         \* a layer whose handle is NULL
  NoBuffer,         \* no commit uses this point yet
  NUM_BUFFERS,      \* capacity of window->buffers
  Contents,         \* the layer lists SurfaceFlinger may compose
  InOrderReleases,  \* TRUE: the compositor releases commits oldest first
  Disconnects,      \* TRUE: the compositor may go away
  MaxPoint          \* bound: sync points a behaviour may use

CompositionTypes == {"FRAMEBUFFER", "OVERLAY", "FRAMEBUFFER_TARGET", "SIDEBAND"}

(* What hwc_prepare and hwc_set read of a layer: the HWC_SKIP_LAYER flag,  *)
(* the composition type, whether blending is HWC_BLENDING_NONE, the handle,*)
(* whether its pixel format is one the table knows, and whether the layer  *)
(* comes with an acquire fence.                                            *)
Layers == [skip: BOOLEAN, compositionType: CompositionTypes, opaque: BOOLEAN,
           handle: Buffers \cup {NoHandle}, known: BOOLEAN, acquire: BOOLEAN]

ASSUME HwComposerAssumption ==
  /\ NoHandle \notin Buffers
  /\ NoBuffer \notin Buffers
  /\ NUM_BUFFERS \in Nat
  /\ InOrderReleases \in BOOLEAN
  /\ Disconnects \in BOOLEAN
  /\ MaxPoint \in Nat
  /\ Contents \subseteq Seq(Layers)

Points  == 1 .. MaxPoint
NoFence == 0                    \* a release_fence_fd of -1
Fences  == Points \cup {NoFence}
Stages  == {"none", "client", "wire", "held", "event", "released"}

VARIABLES
  next_sync_point,   \* pdev->next_sync_point
  timeline,          \* the value of the sw_sync timeline
  created,           \* prime_fds with an entry in window->buffers
  busy,              \* buffer.busy
  release_fence_fd,  \* buffer.release_fence_fd: the point its fence waits for
  open_fences,       \* points whose release fence descriptor is open
  sf_pc, layers, idx,\* control of hwc_set, its layer list and loop counter
  acquire_fds,       \* layers whose acquire fence is open
  retire_fd,         \* contents->retireFenceFd
  wl_pc,             \* control of the Wayland thread
  mybuf,             \* the commit whose release is being dispatched
  stage,             \* how far each commit has travelled
  commit_buf,        \* the buffer attached in each commit
  sf_fence,          \* SurfaceFlinger: last release fence it got for a buffer
  fresh              \* producer: the buffer has content not committed yet

table_vars == <<created, busy, release_fence_fd>>
sf_vars    == <<sf_pc, layers, idx, acquire_fds, retire_fd>>
fence_vars == <<next_sync_point, timeline, open_fences>>
wl_vars    == <<wl_pc, mybuf>>
net_vars   == <<stage, commit_buf>>
app_vars   == <<sf_fence, fresh>>
vars == <<table_vars, sf_vars, fence_vars, wl_vars, net_vars, app_vars>>

(* hwc_open: the timeline is created at 0 and points are dealt from 1.     *)
first_sync_point_zero == 0        \* mutant: the first fence is born signalled
first_sync_point == 1

Init ==
  /\ next_sync_point = first_sync_point
  /\ timeline = 0
  /\ created = {}
  /\ busy = [b \in Buffers |-> FALSE]
  /\ release_fence_fd = [b \in Buffers |-> NoFence]
  /\ open_fences = {}
  /\ sf_pc = "idle" /\ layers = <<>> /\ idx = 1
  /\ acquire_fds = {} /\ retire_fd = NoFence
  /\ wl_pc = "dispatch" /\ mybuf = NoFence
  /\ stage = [p \in Points |-> "none"]
  /\ commit_buf = [p \in Points |-> NoBuffer]
  /\ sf_fence = [b \in Buffers |-> NoFence]
  /\ fresh = [b \in Buffers |-> TRUE]

alive == sf_pc # "aborted"      \* the process has not died in an assert
layer == layers[idx]

-----------------------------------------------------------------------------
(* The SurfaceFlinger thread                                               *)

Prepared(l) ==
  IF l.compositionType = "FRAMEBUFFER" /\ ~l.skip
  THEN [l EXCEPT !.compositionType = "OVERLAY"] ELSE l

(* hwc_prepare, for any of the layer lists that leaves the points bounded. *)
hwc_prepare ==
  /\ sf_pc = "idle"
  /\ \E c \in Contents :
       /\ next_sync_point + Len(c) <= MaxPoint + 1
       /\ layers' = [i \in DOMAIN c |-> Prepared(c[i])]
  /\ sf_pc' = "prepared"
  /\ acquire_fds' = {i \in DOMAIN layers' : layers'[i].acquire}
  /\ UNCHANGED <<idx, retire_fd, table_vars, fence_vars, wl_vars, net_vars, app_vars>>

(* Entry of hwc_set: the retire fence waits for the next sync point.       *)
set_enter ==
  /\ sf_pc = "prepared"
  /\ sf_pc' = "layer" /\ idx' = 1
  /\ retire_fd' = next_sync_point
  /\ UNCHANGED <<layers, acquire_fds, table_vars, fence_vars, wl_vars, net_vars, app_vars>>

drop_layer_leak ==      \* mutant: the acquire fence is left open
  /\ idx' = idx + 1
  /\ sf_pc' = "layer"
  /\ UNCHANGED <<layers, acquire_fds, retire_fd, busy, release_fence_fd, fence_vars,
                 wl_vars, net_vars, app_vars>>

drop_layer ==      \* close(acquireFenceFd); continue
  /\ acquire_fds' = acquire_fds \ {idx}
  /\ idx' = idx + 1
  /\ sf_pc' = "layer"
  /\ UNCHANGED <<layers, retire_fd, busy, release_fence_fd, fence_vars, wl_vars, net_vars, app_vars>>

at_layer == sf_pc = "layer" /\ idx <= Len(layers)

usable(l) ==
  ~l.skip /\ l.compositionType = "OVERLAY" /\ l.opaque /\ l.handle # NoHandle

layer_unusable ==
  /\ at_layer /\ ~usable(layer)
  /\ drop_layer /\ UNCHANGED created

(* get_dmabuf_buffer: a known prime_fd keeps its entry for ever; a new one *)
(* needs a free slot (assert), a known format and a DRM node to open.      *)
table_miss == at_layer /\ usable(layer) /\ layer.handle \notin created

get_dmabuf_full ==
  /\ table_miss /\ Cardinality(created) >= NUM_BUFFERS
  /\ sf_pc' = "aborted"
  /\ UNCHANGED <<layers, idx, acquire_fds, retire_fd, table_vars, fence_vars,
                 wl_vars, net_vars, app_vars>>

get_dmabuf_fails ==      \* unknown format, or drm_connect failed
  /\ table_miss /\ Cardinality(created) < NUM_BUFFERS
  /\ drop_layer /\ UNCHANGED created

get_dmabuf_create ==
  /\ table_miss /\ Cardinality(created) < NUM_BUFFERS /\ layer.known
  /\ created' = created \cup {layer.handle}
  /\ UNCHANGED <<sf_vars, busy, release_fence_fd, fence_vars, wl_vars, net_vars, app_vars>>

found == at_layer /\ usable(layer) /\ layer.handle \in created

layer_busy ==
  /\ found /\ busy[layer.handle]
  /\ drop_layer /\ UNCHANGED created

(* sw_sync_fence_create(next_sync_point++) and the store into the buffer.  *)
(* get_surface always has the window's surface, as subsurfaces are not     *)
(* compiled in: the way out for a layer without one is left out.           *)
make_fence ==
  /\ release_fence_fd' = [release_fence_fd EXCEPT ![layer.handle] = next_sync_point]
  /\ open_fences' = open_fences \cup {next_sync_point}
  /\ sf_fence' = [sf_fence EXCEPT ![layer.handle] = next_sync_point]
  /\ next_sync_point' = next_sync_point + 1
  /\ sf_pc' = "commit"
  /\ UNCHANGED <<layers, idx, acquire_fds, retire_fd, created, busy, timeline,
                 wl_vars, net_vars, fresh>>

layer_fence_unchecked == found /\ make_fence      \* mutant: no test of busy
layer_fence == found /\ ~busy[layer.handle] /\ make_fence

(* busy = true, attach, damage, frame callback, feedback, wl_surface_commit *)
layer_commit ==
  /\ sf_pc = "commit"
  /\ busy' = [busy EXCEPT ![layer.handle] = TRUE]
  /\ stage' = [stage EXCEPT ![next_sync_point - 1] = "client"]
  /\ commit_buf' = [commit_buf EXCEPT ![next_sync_point - 1] = layer.handle]
  /\ fresh' = [fresh EXCEPT ![layer.handle] = FALSE]
  /\ sf_pc' = "acquire"
  /\ UNCHANGED <<layers, idx, acquire_fds, retire_fd, created, release_fence_fd,
                 fence_vars, wl_vars, sf_fence>>

(* sync_wait returns when the fence signals or after 100 ms; then close    *)
layer_acquire ==
  /\ sf_pc = "acquire"
  /\ acquire_fds' = acquire_fds \ {idx}
  /\ sf_pc' = "flush"
  /\ UNCHANGED <<layers, idx, retire_fd, table_vars, fence_vars, wl_vars, net_vars, app_vars>>

(* The requests buffered in libwayland go out, unless the peer is gone     *)
flushed ==
  IF wl_pc = "exited" THEN stage
  ELSE [p \in Points |-> IF stage[p] = "client" THEN "wire" ELSE stage[p]]

layer_flush_missing ==      \* mutant: no wl_display_flush
  /\ sf_pc = "flush"
  /\ idx' = idx + 1
  /\ sf_pc' = "layer"
  /\ UNCHANGED <<layers, acquire_fds, retire_fd, table_vars, fence_vars, wl_vars,
                 net_vars, app_vars>>

layer_flush ==
  /\ sf_pc = "flush"
  /\ stage' = flushed
  /\ idx' = idx + 1
  /\ sf_pc' = "layer"
  /\ UNCHANGED <<layers, acquire_fds, retire_fd, table_vars, fence_vars, wl_vars,
                 commit_buf, app_vars>>

set_return_signals ==      \* mutant: the retire fence signals on the same timeline
  /\ sf_pc = "layer" /\ idx > Len(layers)
  /\ timeline' = timeline + 1
  /\ retire_fd' = NoFence
  /\ sf_pc' = "idle" /\ layers' = <<>> /\ idx' = 1
  /\ UNCHANGED <<acquire_fds, table_vars, next_sync_point, open_fences, wl_vars,
                 net_vars, app_vars>>

(* End of hwc_set: the retire fence is closed and withheld                 *)
set_return ==
  /\ sf_pc = "layer" /\ idx > Len(layers)
  /\ retire_fd' = NoFence
  /\ sf_pc' = "idle" /\ layers' = <<>> /\ idx' = 1
  /\ UNCHANGED <<acquire_fds, table_vars, fence_vars, wl_vars, net_vars, app_vars>>

hwc_set ==
  \/ set_enter \/ layer_unusable
  \/ get_dmabuf_full \/ get_dmabuf_fails \/ get_dmabuf_create
  \/ layer_busy \/ layer_fence \/ layer_commit \/ layer_acquire \/ layer_flush
  \/ set_return

-----------------------------------------------------------------------------
(* The Wayland thread: wl_display_dispatch flushes, waits for events and   *)
(* runs their listeners.                                                   *)

wl_flush ==
  /\ alive /\ wl_pc = "dispatch"
  /\ stage' = flushed
  /\ wl_pc' = "poll"
  /\ UNCHANGED <<mybuf, commit_buf, table_vars, sf_vars, fence_vars, app_vars>>

wl_other_event ==      \* any event that is not a release
  /\ alive /\ wl_pc = "poll"
  /\ wl_pc' = "dispatch"
  /\ UNCHANGED <<mybuf, table_vars, sf_vars, fence_vars, net_vars, app_vars>>

wl_disconnect ==       \* wl_display_dispatch returns -1: the thread ends
  /\ alive /\ Disconnects /\ wl_pc \in {"dispatch", "poll"}
  /\ wl_pc' = "exited"
  /\ UNCHANGED <<mybuf, table_vars, sf_vars, fence_vars, net_vars, app_vars>>

(* buffer_release is three steps to the other thread: busy = false, the    *)
(* increment of the timeline, and the close of whatever fence the buffer   *)
(* then holds.                                                             *)
release_busy_kept(p) ==      \* mutant: the buffer stays busy
  /\ alive /\ wl_pc = "poll" /\ stage[p] = "event"
  /\ InOrderReleases => \A q \in Points : q < p => stage[q] # "event"
  /\ stage' = [stage EXCEPT ![p] = "released"]
  /\ mybuf' = p
  /\ wl_pc' = "signal"
  /\ UNCHANGED <<table_vars, commit_buf, sf_vars, fence_vars, app_vars>>

release_busy(p) ==
  /\ alive /\ wl_pc = "poll" /\ stage[p] = "event"
  /\ InOrderReleases => \A q \in Points : q < p => stage[q] # "event"
  /\ busy' = [busy EXCEPT ![commit_buf[p]] = FALSE]
  /\ stage' = [stage EXCEPT ![p] = "released"]
  /\ mybuf' = p
  /\ wl_pc' = "signal"
  /\ UNCHANGED <<created, release_fence_fd, commit_buf, sf_vars, fence_vars, app_vars>>

increment_timeline(n) ==
  /\ alive /\ wl_pc = "signal"
  /\ timeline' = timeline + n
  /\ wl_pc' = "close"
  /\ UNCHANGED <<mybuf, next_sync_point, open_fences, table_vars, sf_vars, net_vars, app_vars>>

release_signal_none == increment_timeline(0)     \* mutant: no increment
release_signal_twice == increment_timeline(2)    \* mutant: both fences of a frame
release_signal == increment_timeline(1)

release_close ==
  /\ alive /\ wl_pc = "close"
  /\ open_fences' = open_fences \ {release_fence_fd[commit_buf[mybuf]]}
  /\ release_fence_fd' = [release_fence_fd EXCEPT ![commit_buf[mybuf]] = NoFence]
  /\ mybuf' = NoFence
  /\ wl_pc' = "dispatch"
  /\ UNCHANGED <<next_sync_point, timeline, created, busy, sf_vars, net_vars, app_vars>>

buffer_release == (\E p \in Points : release_busy(p)) \/ release_signal \/ release_close

hwc_wayland_thread == wl_flush \/ wl_other_event \/ wl_disconnect \/ buffer_release

-----------------------------------------------------------------------------
(* External: the Wayland compositor.  Requests arrive in order; a buffer   *)
(* may be released once it was received.                                   *)

compositor_receive(p) ==
  /\ wl_pc # "exited" /\ stage[p] = "wire"
  /\ \A q \in Points : q < p => stage[q] # "wire"
  /\ stage' = [stage EXCEPT ![p] = "held"]
  /\ UNCHANGED <<commit_buf, table_vars, sf_vars, fence_vars, wl_vars, app_vars>>

compositor_release(p) ==
  /\ wl_pc # "exited" /\ stage[p] = "held"
  /\ InOrderReleases => \A q \in Points : q < p => stage[q] # "held"
  /\ stage' = [stage EXCEPT ![p] = "event"]
  /\ UNCHANGED <<commit_buf, table_vars, sf_vars, fence_vars, wl_vars, app_vars>>

replaced(p) == \E q \in Points : q > p /\ stage[q] = "held"

(* External: a producer renders into a buffer once the last release fence  *)
(* SurfaceFlinger got for it has signalled, and never while SurfaceFlinger *)
(* composes it.  A layer that got no fence keeps its earlier one.          *)
produce(b) ==
  /\ alive /\ ~fresh[b]
  /\ timeline >= sf_fence[b]
  /\ \A i \in DOMAIN layers : layers[i].handle # b
  /\ fresh' = [fresh EXCEPT ![b] = TRUE]
  /\ UNCHANGED <<sf_fence, table_vars, sf_vars, fence_vars, wl_vars, net_vars>>

environment ==
  \/ \E p \in Points : compositor_receive(p) \/ compositor_release(p)
  \/ \E b \in Buffers : produce(b)

Next == hwc_prepare \/ hwc_set \/ hwc_wayland_thread \/ environment

Spec == Init /\ [][Next]_vars

(* hwc_set waits for nothing without a timeout; the Wayland thread runs    *)
(* while events are pending and takes them in the order they came, so that *)
(* other events do not overtake a release for ever; and the compositor     *)
(* releases what was replaced.                                             *)
Fairness ==
  /\ WF_vars(hwc_set)
  /\ WF_vars(wl_flush)
  /\ SF_vars(buffer_release)
  /\ WF_vars(\E p \in Points : compositor_receive(p))
  /\ \A p \in Points : WF_vars(replaced(p) /\ compositor_release(p))

FairSpec == Spec /\ Fairness

-----------------------------------------------------------------------------
(* Properties                                                              *)

(* Every variable keeps its type; in particular next_sync_point stays a    *)
(* valid fence number or one past the bound.                               *)
TypeOK ==
  /\ next_sync_point \in 1 .. MaxPoint + 1
  /\ timeline \in Nat
  /\ created \subseteq Buffers
  /\ busy \in [Buffers -> BOOLEAN]
  /\ release_fence_fd \in [Buffers -> Fences]
  /\ open_fences \subseteq Points
  /\ sf_pc \in {"idle", "prepared", "layer", "commit", "acquire", "flush", "aborted"}
  /\ layers \in Seq(Layers)
  /\ idx \in Nat \ {0}
  /\ acquire_fds \subseteq Nat \ {0}
  /\ retire_fd \in 0 .. MaxPoint + 1
  /\ wl_pc \in {"dispatch", "poll", "signal", "close", "exited"}
  /\ mybuf \in Fences
  /\ stage \in [Points -> Stages]
  /\ commit_buf \in [Points -> Buffers \cup {NoBuffer}]
  /\ sf_fence \in [Buffers -> Fences]
  /\ fresh \in [Buffers -> BOOLEAN]

in_flight(p) == stage[p] \in {"client", "wire", "held", "event"}

(* hwcomposer.cpp:394, "To be signaled when the compositor releases the    *)
(* buffer": a signalled release fence belongs to a commit the compositor   *)
(* has released.  buffer_release only counts, so this needs commits to     *)
(* come back in the order in which they were made.                         *)
ReleaseFenceHonest ==
  \A p \in Points : p <= timeline => stage[p] \in {"event", "released"}

(* A layer with new content never finds its buffer busy: hwc_set would     *)
(* drop that content for good (hwcomposer.cpp:379-384).  It needs busy to  *)
(* be cleared before the fence is signalled (simple-dmabuf-drm.c:95-96).   *)
NewContentNotBusy == \A b \in Buffers : fresh[b] => ~busy[b]

(* Two commits on their way never attach the same buffer, so each release  *)
(* event answers exactly one commit: hwc_set's test of busy against the    *)
(* unlocked store in buffer_release.                                       *)
OneCommitPerBuffer ==
  \A p, q \in Points :
    in_flight(p) /\ in_flight(q) /\ commit_buf[p] = commit_buf[q] => p = q

(* Whatever the order of releases, once no buffer is out every fence dealt *)
(* has signalled: no waiter is left behind by the counter.                 *)
QuiescentSignalled ==
  (\A b \in Buffers : ~busy[b]) /\ sf_pc # "commit" /\ wl_pc \in {"dispatch", "poll"}
    => timeline = next_sync_point - 1

(* At the head of hwc_set's loop the acquire fences of the layers done are *)
(* closed, on each of its seven ways out, and the others are still open.   *)
AcquireFences ==
  sf_pc = "layer" => acquire_fds = {i \in idx .. Len(layers) : layers[i].acquire}

(* A release fence is not closed before it signals.  buffer_release closes *)
(* the fence the buffer holds by then, which hwc_set may have replaced.    *)
ClosedAfterSignal ==
  \A p \in Points : p < next_sync_point /\ p \notin open_fences => p <= timeline

(* Every commit but the newest is released and its fence signals: hwc_set  *)
(* flushes, the compositor replaces, the Wayland thread counts.            *)
FramesReleased ==
  \A p \in Points : (stage[p] # "none" /\ p + 1 < next_sync_point) ~> timeline >= p

(* With in-order releases the counter implements the fences promised.      *)
RF == INSTANCE ReleaseFences WITH
        MaxFence  <- MaxPoint,
        issued    <- next_sync_point - 1,
        released  <- {p \in Points : stage[p] \in {"event", "released"}},
        signalled <- {p \in Points : p <= timeline}

ImplementsReleaseFences == RF!Spec

=============================================================================
