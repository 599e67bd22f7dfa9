-------------------------- MODULE HwComposerProofs --------------------------
(***************************************************************************)
(* Proofs about HwComposer for every set of buffers, every layer list,     *)
(* every number of sync points and, where it says so, every order in which *)
(* the compositor releases buffers.                                        *)
(***************************************************************************)
EXTENDS HwComposer, FiniteSetTheorems, TLAPS

(* Where hwc_set is: a layer in the middle of the loop is a usable one,    *)
(* and the sync points still needed by this frame fit the bound.           *)
ControlInv ==
  /\ sf_pc \in {"commit", "acquire", "flush"} =>
       /\ idx \in DOMAIN layers
       /\ usable(layer)
  /\ sf_pc = "prepared" => next_sync_point + Len(layers) <= MaxPoint + 1
  /\ sf_pc = "layer" => next_sync_point + Len(layers) - idx <= MaxPoint
  /\ sf_pc \in {"commit", "acquire", "flush"} =>
       next_sync_point + Len(layers) - idx <= MaxPoint + 1
  /\ sf_pc = "commit" => next_sync_point > 1
  /\ wl_pc \in {"signal", "close"} =>
       mybuf \in Points /\ commit_buf[mybuf] \in Buffers

(* What the commits say of the buffers: a commit on its way keeps its      *)
(* buffer busy and is the last one SurfaceFlinger got a fence for; a busy  *)
(* buffer has such a commit.                                               *)
BufferInv ==
  /\ \A p \in Points : in_flight(p) =>
       /\ commit_buf[p] \in Buffers
       /\ busy[commit_buf[p]]
       /\ sf_fence[commit_buf[p]] = p
  /\ \A b \in Buffers : busy[b] =>
       /\ sf_fence[b] \in Points
       /\ in_flight(sf_fence[b])
       /\ commit_buf[sf_fence[b]] = b
  /\ sf_pc = "commit" =>
       /\ ~busy[layer.handle]
       /\ sf_fence[layer.handle] = next_sync_point - 1

(* Which commits exist: those of all points below next_sync_point, except  *)
(* that the newest fence may still wait for its commit.                    *)
committed == IF sf_pc = "commit" THEN next_sync_point - 2 ELSE next_sync_point - 1

StageInv == \A p \in Points : stage[p] = "none" <=> p > committed

(* The acquire fences open at each place of hwc_set.                       *)
from(i) == {j \in i .. Len(layers) : layers[j].acquire}

AcquireInv ==
  /\ sf_pc = "idle" => acquire_fds = {}
  /\ sf_pc = "prepared" => acquire_fds = from(1)
  /\ sf_pc \in {"layer", "commit", "acquire"} => acquire_fds = from(idx)
  /\ sf_pc = "flush" => acquire_fds = from(idx + 1)

Inv == TypeOK /\ ControlInv /\ StageInv /\ BufferInv

(* With in-order releases commits never overtake each other, and the       *)
(* timeline counts the ones whose release was dispatched.                  *)
Ordered ==
  \A p, q \in Points : q < p =>
    /\ stage[p] = "released" => stage[q] = "released"
    /\ stage[p] = "event" => stage[q] \in {"event", "released"}
    /\ stage[p] = "held" => stage[q] \in {"held", "event", "released"}
    /\ stage[p] = "wire" => stage[q] \in {"wire", "held", "event", "released"}

pending == IF wl_pc = "signal" THEN 1 ELSE 0

TimelineInv == \A p \in Points : stage[p] = "released" <=> p <= timeline + pending

SignalInv == wl_pc = "signal" => mybuf = timeline + 1

FifoInv == Ordered /\ TimelineInv /\ SignalInv

-----------------------------------------------------------------------------
(* Type correctness and control                                            *)

LEMMA InitInv == Init => Inv /\ AcquireInv /\ FifoInv
<1> SUFFICES ASSUME Init PROVE Inv /\ AcquireInv /\ FifoInv
  OBVIOUS
<1> USE HwComposerAssumption
<1>1. TypeOK
  BY DEF Init, TypeOK, Points, Fences, NoFence, Stages, first_sync_point
<1>2. ControlInv
  BY DEF Init, ControlInv
<1>3. StageInv
  BY DEF Init, StageInv, committed, first_sync_point, Points
<1>4. BufferInv
  BY DEF Init, BufferInv, in_flight, Points
<1>5. AcquireInv
  BY DEF Init, AcquireInv
<1>6. FifoInv
  BY DEF Init, FifoInv, Ordered, TimelineInv, SignalInv, pending, Points
<1> QED
  BY <1>1, <1>2, <1>3, <1>4, <1>5, <1>6 DEF Inv

(* hwc_prepare turns a layer list into one of the same length.             *)
LEMMA PreparedType ==
  ASSUME NEW c \in Contents
  PROVE  /\ [i \in DOMAIN c |-> Prepared(c[i])] \in Seq(Layers)
         /\ Len([i \in DOMAIN c |-> Prepared(c[i])]) = Len(c)
<1>1. c \in Seq(Layers)
  BY HwComposerAssumption
<1>2. \A l \in Layers : Prepared(l) \in Layers
  BY DEF Prepared, Layers, CompositionTypes
<1>3. DOMAIN c = 1 .. Len(c) /\ Len(c) \in Nat /\ \A i \in 1 .. Len(c) : c[i] \in Layers
  BY <1>1
<1> QED
  BY <1>2, <1>3

(* A usable layer carries the prime_fd of a buffer.                        *)
LEMMA UsableHandle ==
  ASSUME TypeOK, idx \in DOMAIN layers, usable(layer)
  PROVE  layer.handle \in Buffers
<1>1. layer \in Layers
  BY DEF TypeOK, layer
<1> QED
  BY <1>1 DEF usable, Layers

LEMMA AtLayerIndex ==
  ASSUME TypeOK, at_layer
  PROVE  idx \in DOMAIN layers
BY DEF TypeOK, at_layer

LEMMA NextTypeOK == TypeOK /\ ControlInv /\ [Next]_vars => TypeOK'
<1> SUFFICES ASSUME TypeOK, ControlInv, [Next]_vars PROVE TypeOK'
  OBVIOUS
<1> USE HwComposerAssumption
<1> USE DEF TypeOK, table_vars, sf_vars, fence_vars, wl_vars, net_vars, app_vars, Points, Fences, NoFence
<1>1. CASE hwc_prepare
  BY <1>1, PreparedType DEF hwc_prepare
<1>2. CASE set_enter
  BY <1>2 DEF set_enter
<1>3. CASE layer_unusable
  BY <1>3 DEF layer_unusable, drop_layer
<1>4. CASE get_dmabuf_full
  BY <1>4 DEF get_dmabuf_full
<1>5. CASE get_dmabuf_fails
  BY <1>5 DEF get_dmabuf_fails, drop_layer
<1>6. CASE get_dmabuf_create
  BY <1>6, UsableHandle, AtLayerIndex DEF get_dmabuf_create, table_miss
<1>7. CASE layer_busy
  BY <1>7 DEF layer_busy, drop_layer
<1>8. CASE layer_fence
  BY <1>8 DEF layer_fence, make_fence, found, at_layer, ControlInv
<1>9. CASE layer_commit
  <2>1. layer.handle \in Buffers
    BY <1>9, UsableHandle DEF layer_commit, ControlInv
  <2>2. next_sync_point - 1 \in Points
    BY <1>9 DEF layer_commit, ControlInv
  <2> QED
    BY <1>9, <2>1, <2>2 DEF layer_commit, Stages
<1>10. CASE layer_acquire
  BY <1>10 DEF layer_acquire
<1>11. CASE layer_flush
  BY <1>11 DEF layer_flush, flushed, Stages
<1>12. CASE set_return
  BY <1>12 DEF set_return
<1>13. CASE wl_flush
  BY <1>13 DEF wl_flush, flushed, Stages
<1>14. CASE wl_other_event
  BY <1>14 DEF wl_other_event
<1>15. CASE wl_disconnect
  BY <1>15 DEF wl_disconnect
<1>16. ASSUME NEW p \in Points, release_busy(p) PROVE TypeOK'
  BY <1>16 DEF release_busy, Stages
<1>17. CASE release_signal
  BY <1>17 DEF release_signal, increment_timeline
<1>18. CASE release_close
  BY <1>18 DEF release_close
<1>19. ASSUME NEW p \in Points, compositor_receive(p) PROVE TypeOK'
  BY <1>19 DEF compositor_receive, Stages
<1>20. ASSUME NEW p \in Points, compositor_release(p) PROVE TypeOK'
  BY <1>20 DEF compositor_release, Stages
<1>21. ASSUME NEW b \in Buffers, produce(b) PROVE TypeOK'
  BY <1>21 DEF produce
<1>22. CASE UNCHANGED vars
  BY <1>22 DEF vars
<1> QED
  BY <1>1, <1>2, <1>3, <1>4, <1>5, <1>6, <1>7, <1>8, <1>9, <1>10, <1>11, <1>12, <1>13, <1>14, <1>15, <1>16, <1>17, <1>18, <1>19, <1>20, <1>21, <1>22
     DEF Next, hwc_set, hwc_wayland_thread, buffer_release, environment

LEMMA NextControlInv == TypeOK /\ ControlInv /\ BufferInv /\ [Next]_vars => ControlInv'
<1> SUFFICES ASSUME TypeOK, ControlInv, BufferInv, [Next]_vars PROVE ControlInv'
  OBVIOUS
<1> USE HwComposerAssumption
<1> USE DEF TypeOK, table_vars, sf_vars, fence_vars, wl_vars, net_vars, app_vars, Points, Fences, NoFence
<1>1. CASE hwc_prepare
  BY <1>1, PreparedType DEF hwc_prepare, ControlInv, layer, usable
<1>2. CASE set_enter
  BY <1>2 DEF set_enter, ControlInv, layer, usable
<1>3. CASE layer_unusable
  BY <1>3 DEF layer_unusable, drop_layer, at_layer, ControlInv, layer, usable
<1>4. CASE get_dmabuf_full
  BY <1>4 DEF get_dmabuf_full, table_miss, at_layer, ControlInv, layer, usable
<1>5. CASE get_dmabuf_fails
  BY <1>5 DEF get_dmabuf_fails, drop_layer, table_miss, at_layer, ControlInv, layer, usable
<1>6. CASE get_dmabuf_create
  BY <1>6 DEF get_dmabuf_create, table_miss, at_layer, ControlInv, layer, usable
<1>7. CASE layer_busy
  BY <1>7 DEF layer_busy, drop_layer, found, at_layer, ControlInv, layer, usable
<1>8. CASE layer_fence
  BY <1>8 DEF layer_fence, make_fence, found, at_layer, ControlInv, layer, usable
<1>9. CASE layer_commit
  <2>1. layer.handle \in Buffers
    BY <1>9, UsableHandle DEF layer_commit, ControlInv
  <2>2. next_sync_point - 1 \in Points
    BY <1>9 DEF layer_commit, ControlInv
  <2>3. \A p \in Points : commit_buf[p] \in Buffers => commit_buf'[p] \in Buffers
    BY <1>9, <2>1, <2>2 DEF layer_commit
  <2> QED
    BY <1>9, <2>3 DEF layer_commit, ControlInv, layer, usable
<1>10. CASE layer_acquire
  BY <1>10 DEF layer_acquire, ControlInv, layer, usable
<1>11. CASE layer_flush
  BY <1>11 DEF layer_flush, flushed, ControlInv, layer, usable
<1>12. CASE set_return
  BY <1>12 DEF set_return, ControlInv, layer, usable
<1>13. CASE wl_flush
  BY <1>13 DEF wl_flush, flushed, ControlInv, layer, usable
<1>14. CASE wl_other_event
  BY <1>14 DEF wl_other_event, ControlInv, layer, usable
<1>15. CASE wl_disconnect
  BY <1>15 DEF wl_disconnect, ControlInv, layer, usable
<1>16. ASSUME NEW p \in Points, release_busy(p) PROVE ControlInv'
  BY <1>16 DEF release_busy, ControlInv, layer, usable, BufferInv, in_flight
<1>17. CASE release_signal
  BY <1>17 DEF release_signal, increment_timeline, ControlInv, layer, usable
<1>18. CASE release_close
  BY <1>18 DEF release_close, ControlInv, layer, usable
<1>19. ASSUME NEW p \in Points, compositor_receive(p) PROVE ControlInv'
  BY <1>19 DEF compositor_receive, ControlInv, layer, usable
<1>20. ASSUME NEW p \in Points, compositor_release(p) PROVE ControlInv'
  BY <1>20 DEF compositor_release, ControlInv, layer, usable
<1>21. ASSUME NEW b \in Buffers, produce(b) PROVE ControlInv'
  BY <1>21 DEF produce, ControlInv, layer, usable
<1>22. CASE UNCHANGED vars
  BY <1>22 DEF vars, ControlInv, layer, usable
<1> QED
  BY <1>1, <1>2, <1>3, <1>4, <1>5, <1>6, <1>7, <1>8, <1>9, <1>10, <1>11, <1>12, <1>13, <1>14, <1>15, <1>16, <1>17, <1>18, <1>19, <1>20, <1>21, <1>22
     DEF Next, hwc_set, hwc_wayland_thread, buffer_release, environment

LEMMA NextStageInv == TypeOK /\ ControlInv /\ StageInv /\ [Next]_vars => StageInv'
<1> SUFFICES ASSUME TypeOK, ControlInv, StageInv, [Next]_vars PROVE StageInv'
  OBVIOUS
<1> USE HwComposerAssumption
<1> USE DEF TypeOK, table_vars, sf_vars, fence_vars, wl_vars, net_vars, app_vars, Points, Fences, NoFence
<1>1. CASE hwc_prepare
  BY <1>1 DEF hwc_prepare, StageInv, committed
<1>2. CASE set_enter
  BY <1>2 DEF set_enter, StageInv, committed
<1>3. CASE layer_unusable
  BY <1>3 DEF layer_unusable, drop_layer, at_layer, StageInv, committed
<1>4. CASE get_dmabuf_full
  BY <1>4 DEF get_dmabuf_full, table_miss, at_layer, StageInv, committed
<1>5. CASE get_dmabuf_fails
  BY <1>5 DEF get_dmabuf_fails, drop_layer, table_miss, at_layer, StageInv, committed
<1>6. CASE get_dmabuf_create
  BY <1>6 DEF get_dmabuf_create, table_miss, at_layer, StageInv, committed
<1>7. CASE layer_busy
  BY <1>7 DEF layer_busy, drop_layer, found, at_layer, StageInv, committed
<1>8. CASE layer_fence
  BY <1>8 DEF layer_fence, make_fence, found, at_layer, StageInv, committed, ControlInv
<1>9. CASE layer_commit
  BY <1>9 DEF layer_commit, StageInv, committed, ControlInv
<1>10. CASE layer_acquire
  BY <1>10 DEF layer_acquire, StageInv, committed
<1>11. CASE layer_flush
  BY <1>11 DEF layer_flush, flushed, StageInv, committed
<1>12. CASE set_return
  BY <1>12 DEF set_return, StageInv, committed
<1>13. CASE wl_flush
  BY <1>13 DEF wl_flush, flushed, StageInv, committed
<1>14. CASE wl_other_event
  BY <1>14 DEF wl_other_event, StageInv, committed
<1>15. CASE wl_disconnect
  BY <1>15 DEF wl_disconnect, StageInv, committed
<1>16. ASSUME NEW p \in Points, release_busy(p) PROVE StageInv'
  BY <1>16 DEF release_busy, StageInv, committed
<1>17. CASE release_signal
  BY <1>17 DEF release_signal, increment_timeline, StageInv, committed
<1>18. CASE release_close
  BY <1>18 DEF release_close, StageInv, committed
<1>19. ASSUME NEW p \in Points, compositor_receive(p) PROVE StageInv'
  BY <1>19 DEF compositor_receive, StageInv, committed
<1>20. ASSUME NEW p \in Points, compositor_release(p) PROVE StageInv'
  BY <1>20 DEF compositor_release, StageInv, committed
<1>21. ASSUME NEW b \in Buffers, produce(b) PROVE StageInv'
  BY <1>21 DEF produce, StageInv, committed
<1>22. CASE UNCHANGED vars
  BY <1>22 DEF vars, StageInv, committed
<1> QED
  BY <1>1, <1>2, <1>3, <1>4, <1>5, <1>6, <1>7, <1>8, <1>9, <1>10, <1>11, <1>12, <1>13, <1>14, <1>15, <1>16, <1>17, <1>18, <1>19, <1>20, <1>21, <1>22
     DEF Next, hwc_set, hwc_wayland_thread, buffer_release, environment

LEMMA NextAcquireInv == TypeOK /\ ControlInv /\ AcquireInv /\ [Next]_vars => AcquireInv'
<1> SUFFICES ASSUME TypeOK, ControlInv, AcquireInv, [Next]_vars PROVE AcquireInv'
  OBVIOUS
<1> USE HwComposerAssumption
<1> USE DEF TypeOK, table_vars, sf_vars, fence_vars, wl_vars, net_vars, app_vars, Points, Fences, NoFence
<1>1. CASE hwc_prepare
  BY <1>1, PreparedType DEF hwc_prepare, AcquireInv, from
<1>2. CASE set_enter
  BY <1>2 DEF set_enter, AcquireInv, from
<1>3. CASE layer_unusable
  BY <1>3 DEF layer_unusable, drop_layer, at_layer, AcquireInv, from
<1>4. CASE get_dmabuf_full
  BY <1>4 DEF get_dmabuf_full, table_miss, at_layer, AcquireInv, from
<1>5. CASE get_dmabuf_fails
  BY <1>5 DEF get_dmabuf_fails, drop_layer, table_miss, at_layer, AcquireInv, from
<1>6. CASE get_dmabuf_create
  BY <1>6 DEF get_dmabuf_create, table_miss, at_layer, AcquireInv, from
<1>7. CASE layer_busy
  BY <1>7 DEF layer_busy, drop_layer, found, at_layer, AcquireInv, from
<1>8. CASE layer_fence
  BY <1>8 DEF layer_fence, make_fence, found, at_layer, AcquireInv, from
<1>9. CASE layer_commit
  BY <1>9 DEF layer_commit, AcquireInv, from
<1>10. CASE layer_acquire
  BY <1>10 DEF layer_acquire, AcquireInv, from
<1>11. CASE layer_flush
  BY <1>11 DEF layer_flush, flushed, AcquireInv, from
<1>12. CASE set_return
  BY <1>12 DEF set_return, AcquireInv, from
<1>13. CASE wl_flush
  BY <1>13 DEF wl_flush, flushed, AcquireInv, from
<1>14. CASE wl_other_event
  BY <1>14 DEF wl_other_event, AcquireInv, from
<1>15. CASE wl_disconnect
  BY <1>15 DEF wl_disconnect, AcquireInv, from
<1>16. ASSUME NEW p \in Points, release_busy(p) PROVE AcquireInv'
  BY <1>16 DEF release_busy, AcquireInv, from
<1>17. CASE release_signal
  BY <1>17 DEF release_signal, increment_timeline, AcquireInv, from
<1>18. CASE release_close
  BY <1>18 DEF release_close, AcquireInv, from
<1>19. ASSUME NEW p \in Points, compositor_receive(p) PROVE AcquireInv'
  BY <1>19 DEF compositor_receive, AcquireInv, from
<1>20. ASSUME NEW p \in Points, compositor_release(p) PROVE AcquireInv'
  BY <1>20 DEF compositor_release, AcquireInv, from
<1>21. ASSUME NEW b \in Buffers, produce(b) PROVE AcquireInv'
  BY <1>21 DEF produce, AcquireInv, from
<1>22. CASE UNCHANGED vars
  BY <1>22 DEF vars, AcquireInv, from
<1> QED
  BY <1>1, <1>2, <1>3, <1>4, <1>5, <1>6, <1>7, <1>8, <1>9, <1>10, <1>11, <1>12, <1>13, <1>14, <1>15, <1>16, <1>17, <1>18, <1>19, <1>20, <1>21, <1>22
     DEF Next, hwc_set, hwc_wayland_thread, buffer_release, environment

LEMMA NextBufferInv == TypeOK /\ ControlInv /\ StageInv /\ BufferInv /\ [Next]_vars => BufferInv'
<1> SUFFICES ASSUME TypeOK, ControlInv, StageInv, BufferInv, [Next]_vars PROVE BufferInv'
  OBVIOUS
<1> USE HwComposerAssumption
<1> USE DEF TypeOK, table_vars, sf_vars, fence_vars, wl_vars, net_vars, app_vars, Points, Fences, NoFence
<1>1. CASE hwc_prepare
  BY <1>1 DEF hwc_prepare, BufferInv, in_flight, layer
<1>2. CASE set_enter
  BY <1>2 DEF set_enter, BufferInv, in_flight, layer
<1>3. CASE layer_unusable
  BY <1>3 DEF layer_unusable, drop_layer, at_layer, BufferInv, in_flight, layer
<1>4. CASE get_dmabuf_full
  BY <1>4 DEF get_dmabuf_full, table_miss, at_layer, BufferInv, in_flight, layer
<1>5. CASE get_dmabuf_fails
  BY <1>5 DEF get_dmabuf_fails, drop_layer, table_miss, at_layer, BufferInv, in_flight, layer
<1>6. CASE get_dmabuf_create
  BY <1>6 DEF get_dmabuf_create, table_miss, at_layer, BufferInv, in_flight, layer
<1>7. CASE layer_busy
  BY <1>7 DEF layer_busy, drop_layer, found, at_layer, BufferInv, in_flight, layer
<1>8. CASE layer_fence
  BY <1>8, UsableHandle, AtLayerIndex DEF layer_fence, make_fence, found, at_layer, BufferInv, in_flight, layer
<1>9. CASE layer_commit
  <2> DEFINE new == next_sync_point - 1
             h == layer.handle
  <2>1. h \in Buffers
    BY <1>9, UsableHandle DEF layer_commit, ControlInv
  <2>2. new \in Points /\ stage[new] = "none"
    BY <1>9 DEF layer_commit, ControlInv, StageInv, committed
  <2>3. \A p \in Points : in_flight(p) => p # new /\ commit_buf[p] # h
    BY <1>9, <2>1, <2>2 DEF layer_commit, BufferInv, in_flight
  <2>4. \A p \in Points :
           /\ stage'[p] = IF p = new THEN "client" ELSE stage[p]
           /\ commit_buf'[p] = IF p = new THEN h ELSE commit_buf[p]
    BY <1>9, <2>2 DEF layer_commit
  <2>5. \A b \in Buffers : busy'[b] <=> b = h \/ busy[b]
    BY <1>9, <2>1 DEF layer_commit
  <2>6. sf_fence' = sf_fence /\ sf_fence[h] = new /\ sf_pc' = "acquire"
    BY <1>9 DEF layer_commit, BufferInv
  <2>7. \A p \in Points : in_flight(p)' =>
           commit_buf'[p] \in Buffers /\ busy'[commit_buf'[p]] /\ sf_fence'[commit_buf'[p]] = p
    BY <2>1, <2>2, <2>3, <2>4, <2>5, <2>6 DEF BufferInv, in_flight
  <2>8. \A b \in Buffers : busy'[b] =>
           sf_fence'[b] \in Points /\ in_flight(sf_fence[b])' /\ commit_buf'[sf_fence'[b]] = b
    BY <2>1, <2>2, <2>3, <2>4, <2>5, <2>6 DEF BufferInv, in_flight
  <2> QED
    BY <2>6, <2>7, <2>8 DEF BufferInv, in_flight
<1>10. CASE layer_acquire
  BY <1>10 DEF layer_acquire, BufferInv, in_flight, layer
<1>11. CASE layer_flush
  BY <1>11 DEF layer_flush, flushed, BufferInv, in_flight, layer
<1>12. CASE set_return
  BY <1>12 DEF set_return, BufferInv, in_flight, layer
<1>13. CASE wl_flush
  BY <1>13 DEF wl_flush, flushed, BufferInv, in_flight, layer
<1>14. CASE wl_other_event
  BY <1>14 DEF wl_other_event, BufferInv, in_flight, layer
<1>15. CASE wl_disconnect
  BY <1>15 DEF wl_disconnect, BufferInv, in_flight, layer
<1>16. ASSUME NEW p \in Points, release_busy(p) PROVE BufferInv'
  BY <1>16 DEF release_busy, BufferInv, in_flight, layer
<1>17. CASE release_signal
  BY <1>17 DEF release_signal, increment_timeline, BufferInv, in_flight, layer
<1>18. CASE release_close
  BY <1>18 DEF release_close, BufferInv, in_flight, layer
<1>19. ASSUME NEW p \in Points, compositor_receive(p) PROVE BufferInv'
  BY <1>19 DEF compositor_receive, BufferInv, in_flight, layer
<1>20. ASSUME NEW p \in Points, compositor_release(p) PROVE BufferInv'
  BY <1>20 DEF compositor_release, BufferInv, in_flight, layer
<1>21. ASSUME NEW b \in Buffers, produce(b) PROVE BufferInv'
  BY <1>21 DEF produce, BufferInv, in_flight, layer
<1>22. CASE UNCHANGED vars
  BY <1>22 DEF vars, BufferInv, in_flight, layer
<1> QED
  BY <1>1, <1>2, <1>3, <1>4, <1>5, <1>6, <1>7, <1>8, <1>9, <1>10, <1>11, <1>12, <1>13, <1>14, <1>15, <1>16, <1>17, <1>18, <1>19, <1>20, <1>21, <1>22
     DEF Next, hwc_set, hwc_wayland_thread, buffer_release, environment


(* A commit cannot overtake an older one: requests leave and arrive in     *)
(* order, and in-order releases keep it so.                                *)
LEMMA NextOrdered ==
  InOrderReleases /\ TypeOK /\ ControlInv /\ StageInv /\ Ordered /\ [Next]_vars => Ordered'
<1> SUFFICES ASSUME InOrderReleases, TypeOK, ControlInv, StageInv, Ordered, [Next]_vars
             PROVE Ordered'
  OBVIOUS
<1> USE HwComposerAssumption DEF Points
<1>0. stage \in [Points -> Stages]
  BY DEF TypeOK
<1>1. CASE UNCHANGED stage
  BY <1>1 DEF Ordered
<1>2. CASE layer_commit
  <2> DEFINE new == next_sync_point - 1
  <2>1. new \in Points /\ next_sync_point \in Nat /\ sf_pc = "commit"
    BY <1>2 DEF layer_commit, ControlInv, TypeOK
  <2>2. \A p \in Points : stage'[p] = IF p = new THEN "client" ELSE stage[p]
    BY <1>0, <1>2, <2>1 DEF layer_commit
  <2>3. \A p \in Points : p >= new => stage[p] = "none"
    BY <2>1 DEF StageInv, committed
  <2> QED
    BY <1>0, <2>1, <2>2, <2>3 DEF Ordered
<1>3. CASE stage' = flushed
  <2>1. \A p, q \in Points : q < p /\ stage[p] # "none" => stage[q] # "none"
    BY DEF StageInv, committed, TypeOK
  <2>2. \A p \in Points : stage'[p] = stage[p] \/ (stage[p] = "client" /\ stage'[p] = "wire")
    BY <1>0, <1>3 DEF flushed
  <2>3. (\A p \in Points : stage'[p] = stage[p]) \/ (\A p \in Points : stage'[p] # "client")
    BY <1>0, <1>3 DEF flushed
  <2>4. \A p \in Points : stage'[p] \in Stages
    BY <1>0, <2>2 DEF Stages
  <2> QED
    BY <1>0, <2>1, <2>2, <2>3, <2>4 DEF Ordered, Stages
<1>4. ASSUME NEW r \in Points, release_busy(r) PROVE Ordered'
  <2>1. \A p \in Points : stage'[p] = IF p = r THEN "released" ELSE stage[p]
    BY <1>0, <1>4 DEF release_busy
  <2>2. stage[r] = "event" /\ \A q \in Points : q < r => stage[q] = "released"
    BY <1>4 DEF release_busy, Ordered
  <2> QED
    BY <1>0, <2>1, <2>2 DEF Ordered
<1>5. ASSUME NEW r \in Points, compositor_receive(r) PROVE Ordered'
  <2>1. \A p \in Points : stage'[p] = IF p = r THEN "held" ELSE stage[p]
    BY <1>0, <1>5 DEF compositor_receive
  <2>2. stage[r] = "wire" /\ \A q \in Points : q < r => stage[q] \in {"held", "event", "released"}
    BY <1>5 DEF compositor_receive, Ordered
  <2> QED
    BY <1>0, <2>1, <2>2 DEF Ordered
<1>6. ASSUME NEW r \in Points, compositor_release(r) PROVE Ordered'
  <2>1. \A p \in Points : stage'[p] = IF p = r THEN "event" ELSE stage[p]
    BY <1>0, <1>6 DEF compositor_release
  <2>2. stage[r] = "held" /\ \A q \in Points : q < r => stage[q] \in {"event", "released"}
    BY <1>6 DEF compositor_release, Ordered
  <2> QED
    BY <1>0, <2>1, <2>2 DEF Ordered
<1> QED
  BY <1>1, <1>2, <1>3, <1>4, <1>5, <1>6
     DEF Next, hwc_prepare, hwc_set, set_enter, layer_unusable, drop_layer, get_dmabuf_full,
         get_dmabuf_fails, get_dmabuf_create, layer_busy, layer_fence, make_fence,
         layer_acquire, layer_flush, set_return, hwc_wayland_thread, wl_flush, wl_other_event,
         wl_disconnect, buffer_release, release_signal, increment_timeline, release_close,
         environment, produce, net_vars, vars

(* The timeline counts the dispatched releases, oldest first.              *)
LEMMA NextTimelineInv ==
  /\ InOrderReleases /\ TypeOK /\ ControlInv /\ StageInv
  /\ Ordered /\ TimelineInv /\ SignalInv /\ [Next]_vars
  => TimelineInv' /\ SignalInv'
<1> SUFFICES ASSUME InOrderReleases, TypeOK, ControlInv, StageInv,
                    Ordered, TimelineInv, SignalInv, [Next]_vars
             PROVE  TimelineInv' /\ SignalInv'
  OBVIOUS
<1> USE HwComposerAssumption DEF Points
<1>0. stage \in [Points -> Stages] /\ timeline \in Nat
  BY DEF TypeOK
<1>1. ASSUME UNCHANGED <<timeline, mybuf>>, wl_pc' = wl_pc \/ {wl_pc, wl_pc'} \cap {"signal", "close"} = {},
             \A p \in Points : stage'[p] = "released" <=> stage[p] = "released"
      PROVE  TimelineInv' /\ SignalInv'
  <2>1. pending' = pending /\ (wl_pc' = "signal" => wl_pc = "signal")
    BY <1>1 DEF pending
  <2> QED
    BY <1>1, <2>1 DEF TimelineInv, SignalInv
<1>2. CASE layer_commit
  <2>1. stage[next_sync_point - 1] = "none" /\ next_sync_point - 1 \in Points
    BY <1>2 DEF layer_commit, ControlInv, TypeOK, StageInv, committed
  <2>2. \A p \in Points : stage'[p] = "released" <=> stage[p] = "released"
    BY <1>0, <1>2, <2>1 DEF layer_commit
  <2> QED
    BY <1>1, <1>2, <2>2 DEF layer_commit, fence_vars, wl_vars
<1>3. CASE layer_flush \/ wl_flush
  <2>1. \A p \in Points : stage'[p] = "released" <=> stage[p] = "released"
    BY <1>0, <1>3 DEF layer_flush, wl_flush, flushed
  <2> QED
    BY <1>1, <1>3, <2>1 DEF layer_flush, wl_flush, fence_vars, wl_vars
<1>4. ASSUME NEW r \in Points, release_busy(r) PROVE TimelineInv' /\ SignalInv'
  <2>1. \A p \in Points : stage'[p] = IF p = r THEN "released" ELSE stage[p]
    BY <1>0, <1>4 DEF release_busy
  <2>2. stage[r] = "event" /\ \A q \in Points : q < r => stage[q] = "released"
    BY <1>4 DEF release_busy, Ordered
  <2>3. r = timeline + 1
    <3>1. pending = 0
      BY <1>4 DEF release_busy, pending
    <3>2. r > timeline
      BY <1>0, <2>2, <3>1 DEF TimelineInv
    <3>3. r = 1 \/ r - 1 \in Points
      OBVIOUS
    <3> QED
      BY <1>0, <2>2, <3>1, <3>2, <3>3 DEF TimelineInv
  <2>4. \A p \in Points : p < r => stage[p] = "released"
    BY <2>2
  <2>5. \A p \in Points : p > r => stage[p] # "released"
    BY <2>2, <1>0 DEF Ordered
  <2> QED
    BY <1>0, <1>4, <2>1, <2>3, <2>4, <2>5
       DEF TimelineInv, SignalInv, pending, release_busy, fence_vars
<1>5. CASE release_signal
  BY <1>0, <1>5 DEF release_signal, increment_timeline, net_vars, TimelineInv, SignalInv, pending
<1>6. CASE release_close
  BY <1>0, <1>6 DEF release_close, net_vars, TimelineInv, SignalInv, pending
<1>7. ASSUME NEW r \in Points, compositor_receive(r) \/ compositor_release(r)
      PROVE  TimelineInv' /\ SignalInv'
  <2>1. \A p \in Points : stage'[p] = "released" <=> stage[p] = "released"
    BY <1>0, <1>7 DEF compositor_receive, compositor_release
  <2> QED
    BY <1>1, <1>7, <2>1 DEF compositor_receive, compositor_release, fence_vars, wl_vars
<1>8. CASE wl_other_event \/ wl_disconnect
  BY <1>1, <1>8 DEF wl_other_event, wl_disconnect, fence_vars, net_vars
<1>9. CASE UNCHANGED <<timeline, wl_vars, net_vars>>
  BY <1>1, <1>9 DEF wl_vars, net_vars
<1> QED
  BY <1>2, <1>3, <1>4, <1>5, <1>6, <1>7, <1>8, <1>9
     DEF Next, hwc_prepare, hwc_set, set_enter, layer_unusable, drop_layer, get_dmabuf_full,
         get_dmabuf_fails, get_dmabuf_create, layer_busy, layer_fence, make_fence,
         layer_acquire, set_return, hwc_wayland_thread, buffer_release,
         environment, produce, net_vars, wl_vars, fence_vars, vars
-----------------------------------------------------------------------------
(* Theorems about every order of releases                                  *)

LEMMA InvHolds == Spec => [](Inv /\ AcquireInv)
<1>1. Init => Inv /\ AcquireInv
  BY InitInv
<1>2. Inv /\ AcquireInv /\ [Next]_vars => (Inv /\ AcquireInv)'
  BY NextTypeOK, NextControlInv, NextStageInv, NextBufferInv, NextAcquireInv DEF Inv
<1> QED
  BY <1>1, <1>2, PTL DEF Spec

(* Type correctness of the composer: every fence dealt by hwc_set has a    *)
(* valid sync point, whatever the layers and the compositor do.            *)
THEOREM TypeCorrect == Spec => []TypeOK
<1>1. Inv => TypeOK
  BY DEF Inv
<1> QED
  BY <1>1, InvHolds, PTL

(* hwc_set's unlocked test of busy suffices: no buffer is ever committed   *)
(* again before its earlier commit was released.                           *)
THEOREM BufferCommittedOnce == Spec => []OneCommitPerBuffer
<1>1. Inv => OneCommitPerBuffer
  BY DEF Inv, BufferInv, OneCommitPerBuffer
<1> QED
  BY <1>1, InvHolds, PTL

(* hwc_set closes every acquire fence it was given, none of them early.    *)
THEOREM AcquireFencesClosed == Spec => []AcquireFences
<1>1. AcquireInv => AcquireFences
  BY DEF AcquireInv, AcquireFences, from
<1> QED
  BY <1>1, InvHolds, PTL
-----------------------------------------------------------------------------
(* The counting argument, for every order of releases: the timeline is the *)
(* number of commits whose release was dispatched.                         *)

done == {p \in Points : stage[p] = "released"}

CountInv == timeline + pending = Cardinality(done)

LEMMA DoneFinite == IsFiniteSet(Points) /\ IsFiniteSet(done)
<1>1. IsFiniteSet(Points)
  BY FS_Interval, HwComposerAssumption DEF Points
<1>2. done \in SUBSET Points
  BY DEF done
<1> QED
  BY <1>1, <1>2, FS_Subset

LEMMA NextCountInv == Inv /\ CountInv /\ [Next]_vars => CountInv'
<1> SUFFICES ASSUME Inv, CountInv, [Next]_vars PROVE CountInv'
  OBVIOUS
<1> USE HwComposerAssumption
<1>0. stage \in [Points -> Stages] /\ timeline \in Nat
  BY DEF Inv, TypeOK
<1>1. ASSUME UNCHANGED timeline, wl_pc' = wl_pc \/ {wl_pc, wl_pc'} \cap {"signal", "close"} = {},
             \A p \in Points : stage'[p] = "released" <=> stage[p] = "released"
      PROVE  CountInv'
  <2>1. done' = done /\ pending' = pending
    BY <1>1 DEF done, pending
  <2> QED
    BY <1>1, <2>1 DEF CountInv
<1>2. CASE layer_commit
  <2>1. stage[next_sync_point - 1] = "none"
    BY <1>2 DEF layer_commit, Inv, ControlInv, TypeOK, StageInv, committed, Points
  <2>2. \A p \in Points : stage'[p] = "released" <=> stage[p] = "released"
    BY <1>0, <1>2, <2>1 DEF layer_commit
  <2> QED
    BY <1>1, <1>2, <2>2 DEF layer_commit, fence_vars, wl_vars
<1>3. CASE layer_flush \/ wl_flush
  <2>1. \A p \in Points : stage'[p] = "released" <=> stage[p] = "released"
    BY <1>0, <1>3 DEF layer_flush, wl_flush, flushed
  <2> QED
    BY <1>1, <1>3, <2>1 DEF layer_flush, wl_flush, fence_vars, wl_vars
<1>4. ASSUME NEW r \in Points, release_busy(r) PROVE CountInv'
  <2>1. done' = done \cup {r} /\ r \notin done
    BY <1>0, <1>4 DEF release_busy, done
  <2>2. Cardinality(done') = Cardinality(done) + 1
    BY <2>1, DoneFinite, FS_AddElement
  <2>3. pending = 0 /\ pending' = 1 /\ timeline' = timeline
    BY <1>4 DEF release_busy, pending, fence_vars
  <2> QED
    BY <1>0, <2>2, <2>3 DEF CountInv
<1>5. CASE release_signal
  <2>1. done' = done /\ pending = 1 /\ pending' = 0 /\ timeline' = timeline + 1
    BY <1>5 DEF release_signal, increment_timeline, net_vars, done, pending
  <2> QED
    BY <1>0, <2>1 DEF CountInv
<1>6. CASE release_close
  <2>1. done' = done /\ pending = 0 /\ pending' = 0 /\ timeline' = timeline
    BY <1>6 DEF release_close, net_vars, done, pending
  <2> QED
    BY <2>1 DEF CountInv
<1>7. ASSUME NEW r \in Points, compositor_receive(r) \/ compositor_release(r)
      PROVE  CountInv'
  <2>1. \A p \in Points : stage'[p] = "released" <=> stage[p] = "released"
    BY <1>0, <1>7 DEF compositor_receive, compositor_release
  <2> QED
    BY <1>1, <1>7, <2>1 DEF compositor_receive, compositor_release, fence_vars, wl_vars
<1>8. CASE wl_other_event \/ wl_disconnect
  BY <1>1, <1>8 DEF wl_other_event, wl_disconnect, fence_vars, net_vars
<1>9. CASE UNCHANGED <<timeline, wl_vars, net_vars>>
  BY <1>1, <1>9 DEF wl_vars, net_vars
<1> QED
  BY <1>2, <1>3, <1>4, <1>5, <1>6, <1>7, <1>8, <1>9
     DEF Next, hwc_prepare, hwc_set, set_enter, layer_unusable, drop_layer, get_dmabuf_full,
         get_dmabuf_fails, get_dmabuf_create, layer_busy, layer_fence, make_fence,
         layer_acquire, set_return, hwc_wayland_thread, buffer_release,
         environment, produce, net_vars, wl_vars, fence_vars, vars

(* No waiter is left behind: once no buffer is out, every fence dealt has  *)
(* signalled, in whatever order the releases came.                         *)
THEOREM NoFenceLeftBehind == Spec => []QuiescentSignalled
<1>1. Init => CountInv
  <2> SUFFICES ASSUME Init PROVE CountInv
    OBVIOUS
  <2>1. done = {} /\ timeline = 0 /\ pending = 0
    BY DEF Init, done, pending
  <2> QED
    BY <2>1, FS_EmptySet DEF CountInv
<1>2. Inv /\ CountInv => QuiescentSignalled
  <2> SUFFICES ASSUME Inv, CountInv, \A b \in Buffers : ~busy[b], sf_pc # "commit",
                      wl_pc \in {"dispatch", "poll"}
               PROVE  timeline = next_sync_point - 1
    BY DEF QuiescentSignalled
  <2>1. next_sync_point \in 1 .. MaxPoint + 1 /\ stage \in [Points -> Stages] /\ timeline \in Nat
    BY DEF Inv, TypeOK
  <2>2. \A p \in Points : ~in_flight(p)
    BY DEF Inv, BufferInv
  <2>3. \A p \in Points : stage[p] = "released" <=> p <= next_sync_point - 1
    BY <2>1, <2>2, HwComposerAssumption DEF Inv, StageInv, committed, in_flight, Stages, Points
  <2>4. done = 1 .. (next_sync_point - 1)
    BY <2>1, <2>3, HwComposerAssumption DEF done, Points
  <2>5. Cardinality(1 .. (next_sync_point - 1)) = next_sync_point - 1
    BY <2>1, HwComposerAssumption, FS_Interval
  <2> QED
    BY <2>1, <2>4, <2>5 DEF CountInv, pending
<1> QED
  BY <1>1, <1>2, NextCountInv, InvHolds, PTL DEF Spec

-----------------------------------------------------------------------------
(* Theorems about a compositor that releases commits oldest first          *)

LEMMA FifoHolds == ASSUME InOrderReleases PROVE Spec => [](Inv /\ FifoInv)
<1>1. Init => Inv /\ FifoInv
  BY InitInv
<1>2. Inv /\ FifoInv /\ [Next]_vars => FifoInv'
  BY NextOrdered, NextTimelineInv DEF Inv, FifoInv
<1> QED
  BY <1>1, <1>2, InvHolds, PTL DEF Spec

LEMMA SignalledReleased ==
  ASSUME FifoInv, TypeOK, NEW p \in Points, p <= timeline PROVE stage[p] = "released"
BY HwComposerAssumption DEF FifoInv, TimelineInv, pending, TypeOK, Points

(* "To be signaled when the compositor releases the buffer"                *)
(* (hwcomposer.cpp:394) holds of a compositor that releases in order.      *)
THEOREM FencesHonest == ASSUME InOrderReleases PROVE Spec => []ReleaseFenceHonest
<1>1. Inv /\ FifoInv => ReleaseFenceHonest
  BY SignalledReleased DEF ReleaseFenceHonest, Inv
<1> QED
  BY <1>1, FifoHolds, PTL

(* With such a compositor hwc_set never drops a layer that has something   *)
(* new to show because its buffer is still busy.                           *)
THEOREM NewContentAccepted == ASSUME InOrderReleases PROVE Spec => []NewContentNotBusy
<1>1. Init => NewContentNotBusy
  BY DEF Init, NewContentNotBusy
<1>2. Inv /\ FifoInv /\ NewContentNotBusy /\ [Next]_vars => NewContentNotBusy'
  <2> SUFFICES ASSUME Inv, FifoInv, NewContentNotBusy, [Next]_vars PROVE NewContentNotBusy'
    OBVIOUS
  <2>0. busy \in [Buffers -> BOOLEAN] /\ fresh \in [Buffers -> BOOLEAN]
    BY DEF Inv, TypeOK
  <2>1. CASE layer_commit
    <3>1. \A b \in Buffers : b # layer.handle => busy'[b] = busy[b] /\ fresh'[b] = fresh[b]
      BY <2>0, <2>1 DEF layer_commit
    <3>2. \A b \in Buffers : b = layer.handle => ~fresh'[b]
      BY <2>0, <2>1 DEF layer_commit
    <3> QED
      BY <3>1, <3>2 DEF NewContentNotBusy
  <2>2. ASSUME NEW p \in Points, release_busy(p) PROVE NewContentNotBusy'
    BY <2>0, <2>2 DEF release_busy, app_vars, NewContentNotBusy
  <2>3. ASSUME NEW b \in Buffers, produce(b) PROVE NewContentNotBusy'
    <3>1. ~busy[b]
      <4> SUFFICES ASSUME busy[b] PROVE FALSE
        OBVIOUS
      <4>1. sf_fence[b] \in Points /\ in_flight(sf_fence[b])
        BY DEF Inv, BufferInv
      <4>2. sf_fence[b] <= timeline
        BY <2>3, <4>1, HwComposerAssumption DEF produce, Points, Inv, TypeOK
      <4>3. stage[sf_fence[b]] = "released"
        BY <4>1, <4>2, SignalledReleased DEF Inv
      <4> QED
        BY <4>1, <4>3 DEF in_flight
    <3> QED
      BY <2>0, <2>3, <3>1 DEF produce, table_vars, NewContentNotBusy
  <2>4. CASE UNCHANGED <<busy, fresh>>
    BY <2>4 DEF NewContentNotBusy
  <2> QED
    BY <2>1, <2>2, <2>3, <2>4
       DEF Next, hwc_prepare, hwc_set, set_enter, layer_unusable, drop_layer, get_dmabuf_full,
           get_dmabuf_fails, get_dmabuf_create, layer_busy, layer_fence, make_fence,
           layer_acquire, layer_flush, set_return, hwc_wayland_thread, wl_flush,
           wl_other_event, wl_disconnect, buffer_release, release_signal, increment_timeline,
           release_close, environment, compositor_receive, compositor_release,
           table_vars, app_vars, vars
<1> QED
  BY <1>1, <1>2, FifoHolds, PTL DEF Spec

-----------------------------------------------------------------------------
(* Refinement                                                              *)

(* With a compositor that releases in order, the timeline counter is a     *)
(* correct implementation of one fence per commit.                         *)
THEOREM FencesImplemented == ASSUME InOrderReleases PROVE Spec => ImplementsReleaseFences
<1> DEFINE rel == {p \in Points : stage[p] \in {"event", "released"}}
           sig == {p \in Points : p <= timeline}
<1>1. Init => RF!Init
  BY HwComposerAssumption DEF Init, first_sync_point, RF!Init, Points
<1>2. Inv /\ FifoInv /\ [Next]_vars => [RF!Next]_RF!vars
  <2> SUFFICES ASSUME Inv, FifoInv, [Next]_vars PROVE [RF!Next]_RF!vars
    OBVIOUS
  <2> USE HwComposerAssumption
  <2>0. /\ stage \in [Points -> Stages] /\ timeline \in Nat
        /\ next_sync_point \in 1 .. MaxPoint + 1
    BY DEF Inv, TypeOK
  <2>1. CASE layer_fence
    <3>1. next_sync_point <= MaxPoint /\ next_sync_point' - 1 = next_sync_point - 1 + 1
      BY <2>0, <2>1 DEF layer_fence, make_fence, found, at_layer, Inv, ControlInv, TypeOK
    <3>2. rel' = rel /\ sig' = sig
      BY <2>1 DEF layer_fence, make_fence, net_vars
    <3>3. RF!Issue
      BY <2>0, <3>1, <3>2 DEF RF!Issue
    <3> QED
      BY <3>3 DEF RF!Next
  <2>2. CASE layer_commit
    <3>1. next_sync_point - 1 \in Points /\ stage[next_sync_point - 1] = "none"
      BY <2>0, <2>2 DEF layer_commit, Inv, ControlInv, StageInv, committed, Points
    <3>2. rel' = rel
      BY <2>0, <2>2, <3>1 DEF layer_commit
    <3> QED
      BY <2>2, <3>2 DEF layer_commit, fence_vars, RF!vars
  <2>3. CASE layer_flush \/ wl_flush
    <3>1. rel' = rel
      BY <2>0, <2>3 DEF layer_flush, wl_flush, flushed
    <3> QED
      BY <2>3, <3>1 DEF layer_flush, wl_flush, fence_vars, RF!vars
  <2>4. ASSUME NEW p \in Points, release_busy(p) \/ compositor_receive(p)
        PROVE  [RF!Next]_RF!vars
    <3>1. rel' = rel
      BY <2>0, <2>4 DEF release_busy, compositor_receive
    <3> QED
      BY <2>4, <3>1 DEF release_busy, compositor_receive, fence_vars, RF!vars
  <2>5. ASSUME NEW p \in Points, compositor_release(p) PROVE [RF!Next]_RF!vars
    <3>1. rel' = rel \cup {p} /\ p \notin rel
      BY <2>0, <2>5 DEF compositor_release
    <3>2. p \in 1 .. next_sync_point - 1
      BY <2>0, <2>5 DEF compositor_release, Inv, StageInv, committed, Points
    <3>3. RF!Release(p)
      BY <2>5, <3>1, <3>2 DEF RF!Release, compositor_release, fence_vars
    <3> QED
      BY <3>2, <3>3 DEF RF!Next
  <2>6. CASE release_signal
    <3>1. PICK t \in Points : t = timeline + 1 /\ stage[t] = "released"
      BY <2>0, <2>6 DEF release_signal, increment_timeline, Inv, ControlInv, FifoInv, SignalInv,
                        TimelineInv, pending, Points
    <3>2. sig' = sig \cup {t} /\ t \notin sig
      BY <2>0, <2>6, <3>1 DEF release_signal, increment_timeline, Points
    <3>3. t \in 1 .. next_sync_point - 1
      BY <2>0, <3>1 DEF Inv, StageInv, committed, Points
    <3>4. RF!Signal(t)
      BY <2>6, <3>1, <3>2 DEF RF!Signal, release_signal, increment_timeline, net_vars
    <3> QED
      BY <3>3, <3>4 DEF RF!Next
  <2>7. CASE UNCHANGED <<next_sync_point, timeline, stage>>
    BY <2>7 DEF RF!vars
  <2> QED
    BY <2>1, <2>2, <2>3, <2>4, <2>5, <2>6, <2>7
       DEF Next, hwc_prepare, hwc_set, set_enter, layer_unusable, drop_layer, get_dmabuf_full,
           get_dmabuf_fails, get_dmabuf_create, layer_busy, layer_acquire, set_return,
           hwc_wayland_thread, wl_other_event, wl_disconnect, buffer_release, release_close,
           environment, produce, net_vars, fence_vars, vars
<1> QED
  BY <1>1, <1>2, FifoHolds, PTL DEF Spec, ImplementsReleaseFences, RF!Spec

=============================================================================
