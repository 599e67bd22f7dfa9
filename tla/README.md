# Verification of the SPURV device tree

`src/spurv` is an Android device tree that runs Android in a container on a
Linux host with a Wayland compositor. Most of it is configuration; the program
logic is in five parts. This directory models that logic in TLA+, checks it with
TLC on small instances and proves the main results with TLAPS.

## Inventory

### Hardware composer (`hwcomposer/`)

An Android HWC 1.1 module that forwards each layer to the host compositor.

- State: the table `window->buffers` (one `wl_buffer` per dmabuf, with `busy`,
  `release_fence_fd`, `timeline_fd`), the sw_sync timeline and
  `next_sync_point`, `last_vsync_ns` and `vsync_callback_enabled` under
  `vsync_lock`, the callback table `procs`, the touch pipe `input_fd`.
- Threads: SurfaceFlinger's composition thread (`hwc_prepare`, `hwc_set`), its
  control calls (`hwc_event_control`, `hwc_register_procs`, ...), the Wayland
  thread (`hwc_wayland_thread`: `buffer_release`, `feedback_presented`,
  `frame`, the touch listener) and the vsync thread (`hwc_vsync_thread`).
- Hard: buffers are shared without a lock; release fences are points of one
  counter although releases need not come in order; commits are flushed by two
  threads; the vsync thread computes with a clock sampled before it takes the
  lock; the device is published piece by piece.
- Correct when: a release fence signals only after its buffer was released and
  eventually does; new content is never dropped; no buffer is committed twice;
  every acquire fence is closed; a vsync sleep is always a valid one and ends on
  a multiple of the period after the last presentation; touch sequences reach
  the pipe whole.

### DHCP server (`dhcp/server/`) and client (`dhcp/client/`), messages (`dhcp/common/`)

The host runs the server on the container's veth interface, the container the
client.

- Server state: `mLeases` (interface and MAC to address) and
  `mNextAddressOffset`; operations: DISCOVER to OFFER, REQUEST to ACK or NACK.
  Leases live in memory only and never expire.
- Client state: `mState`, `mNextTimeout` (the wait without its random part),
  the T1 and T2 timers, the last message (for its xid), the server and request addresses, and
  the interface's address and default route. One thread; it alternates between
  sending and waiting.
- Hard: lost, duplicated, delayed and foreign messages; retransmission with new
  transaction ids; restarts of either side; two servers; timer arithmetic in 32
  bits; a configuration that fails half way; address allocation at octet
  boundaries and at the end of the range.
- Correct when: no address is leased to two clients, leases are stable and in
  range, the allocation terminates; the client is bound only to an address it
  was granted, leaves the network on NACK, keeps asking with growing and bounded
  timeouts, and gives up its lease in time.

### Audio HAL (`audio/`)

Playback through ALSA's `pulse` device; capture is a stub.

- State: of the adapter its mutex, `active_output` and `devices`; of each output
  stream its mutex, `standby`, `unavailable`, the handle `pcm`, `written`.
- Operations: open and close a stream, `out_standby`, `out_set_parameters`,
  `out_write` (with `start_output_stream` and underrun recovery),
  `out_get_presentation_position`.
- Hard: two mutexes; a write that blocks in the device with only one of them; a
  start that can fail in eleven places, nine of which leave the handle open, and
  is never tried again; a position that is computed without a mutex; 32-bit
  frame counts.
- Correct when: nobody holds the device mutex for ever; a handle in use is not
  closed, none is overwritten, and one at most is lost with each stream; `active_output` names a stream that plays;
  positions do not exceed what was played.

### Gatekeeper (`gatekeeper/`)

Software password verifier: enroll and verify with a failure record per user and
a cache of fast hashes, both in memory only; one static device object shared by
several opens. The class that decides when records are used is outside the
repository, so it is not modelled.

### Launcher, scripts, policies, build files

`apps/`, `launch-container.sh`, `run.sh`, `overlay/`, `sepolicy/`,
`kernel.config` and the makefiles hold no state machine and are not modelled.

## How the parts interact

The parts are separate processes and share no state. Within the composer the
frame path and the vsync thread share the Wayland thread, whose
`feedback_presented` feeds the vsync thread; they share no variable beyond that,
so each has a module of its own. Touch events come through the same connection
as the events of the seat that make and destroy the `wl_touch`: `Touch` extends
`Display`, which has the connection, and adds the handlers and the pipe.

The DHCP client and server meet through messages only. `DhcpClient` and
`DhcpServer` have the other side as their environment, the client's an
over-approximation of the server (any ACK for the requested address or NAK at any
time), the server's one of its clients (any valid message at any time); so each
can be checked with its own hazards, timers there, reserved addresses here.
`Dhcp` joins several of each by a network. It handles a message with the
operators of `DhcpServer` itself and keeps of the client what a server can see
of it, without its timers.

## Modules

| Module | Models | State and actions |
|---|---|---|
| `ReleaseFences` | what SurfaceFlinger may expect of release fences | fences issued, buffers released, fences signalled |
| `HwComposer` | `hwc_prepare`, `hwc_set`, `get_dmabuf_buffer`, `hwc_wayland_thread`, `buffer_release` | the buffer table, the timeline, one control variable per thread, the stage of each commit; one action per access that the other thread can see |
| `MCHwComposer` | layer lists for TLC | |
| `HwComposerProofs` | theorems | |
| `Vsync` | `hwc_vsync_thread`, `feedback_presented`, `hwc_event_control`, `hwc_register_procs`, the tail of `hwc_open` | the clock, the device fields under `vsync_lock`, the thread's locals; one action per critical section |
| `VsyncProofs` | theorems | |
| `Display` | `hwc_open` with `create_display`, the registry, the seat, `create_window`; `hwc_close` | the pointers of `struct display`, the events under way, where `hwc_open` is; one action per event handler, per roundtrip that ends, per change of the compositor |
| `Touch` | `touch_handle_*`, `ensure_pipe`; specification of `Display` and input together | the fingers, the pipe with its packets, the slots of the reader; one action per handler, the touch screen, the reader |
| `MCTouch` | compositors for TLC | |
| `TouchProofs`, `PipeProofs` | theorems about the display; about the pipe and its reader | |
| `AddressPool` | what a client may expect of leases | the leases |
| `DhcpServer` | `DhcpServer::run` and everything it calls | `mLeases`, `mNextAddressOffset`, the message in work; `run`, the body of the allocation loop, `answer` |
| `MCDhcpServer`, `DhcpServerProofs` | ranges for TLC; theorems | |
| `DhcpClient` | `DhcpClient::run`, `waitAndReceive`, `configureDhcp`, `haltNetwork`, the timers, the interface | the state machine's fields, what is left of each timer, the last message, the interface; `run`, one action per kind of reply, `timed_out`, `tick` |
| `MCDhcpClient`, `DhcpClientProofs` | leases for TLC; theorems | |
| `Dhcp` | clients and servers on their links, restarts, the network | per client the state, the addresses, the transaction count and the interface; per server its table and offset; the set of all messages sent |
| `MCDhcp`, `DhcpProofs` | settings for TLC; theorems | |
| `AudioOut` | playback in `audio_hw.c` | both kinds of mutex, the streams, the device, where each thread is |
| `AudioOutProofs` | theorems | |

Variables have the names of the fields they stand for. `"map"` in `PROJECT.json`
gives the lines of every definition. Operators marked "mutant" are the plausible
bugs that show each property can fail.

### What the composer's model assumes

A `bool` is read and written whole. Each producer waits on its own duplicate of
the last release fence that SurfaceFlinger got for its buffer before it draws
again. The fence `-1` and points that were never dealt are `NoFence`. Descriptor
numbers and their reuse are not modelled. Subsurfaces are not compiled in
(`USE_SUBSURFACES` is 0), so every layer finds a surface. The compositor takes requests in order
and releases what was replaced; `InOrderReleases` says whether it also releases
in the order of commits, `Disconnects` whether it may go away.

### What the vsync model assumes

The 32-bit ARM build of `BoardConfig.mk`: `long` and `unsigned` have 32 bits, the
clock 64. The clock's value in a `double` is exact for 104 days.

### What the DHCP models assume

The server: the build keeps the loop of `getOfferAddress`, whose trip count it
cannot compute. `Ranges` end two below the largest word, so that `start + offset`
cannot wrap outside that loop. Addresses are numbers in host order; the code
stores network order and converts at each comparison. The client: the process
runs within a tick of its timeout; a packet socket refuses to send on an
interface that is down, and no other program brings it up. Lease times in the
message are what the client reads.

`Dhcp`: the network is the set of all messages ever sent and a message may be
received at any time and any number of times, which covers loss, delay,
repetition and reordering. A reply is a broadcast on its link, as the server
sends it. A restarted server is one that falls silent while another, with an
empty table, begins to answer. A client's wait may end at any time, so `Dhcp`
has every behaviour that the timers of `DhcpClient` allow, and more. The range it
serves has no reserved address, where `DhcpServer` needs several steps. Which
client may restart, whose interface may fail and how many messages a process
sends is chosen at the start (`Settings`).

### What the display and touch models assume

Every event is handled whole before the next, in order. `malloc` returns memory
that is all zero or all garbage. The compositor sends capabilities after
`wl_seat` was bound, and touch events only to a surface that has a buffer. It
may announce capabilities again without a change of touch, or go away at any
time. Following a pointer that nobody set, or NULL, ends the process; of the
first frame `first_commit` has the two it depends on, the presentation and the
toplevel, while the size of the output only decides between setting and
unsetting fullscreen. The reader of the
pipe follows the multi-touch protocol with slots; it restarts with empty slots,
while what is in the pipe stays as long as the composer has it open. The module
runs in the composer service (`device-vendor.mk`, `manifest.xml`), where nothing
ignores or handles SIGPIPE: a touch that is written while the reader is away and
the pipe was opened before ends the process (`broken_pipe`). The fourth
event of `touch_handle_up`, which it never fills, is one the reader ignores,
another slot, or a contact.

### What the audio model assumes

AudioFlinger: each stream has one thread that writes and asks for its position;
standby and parameters may come from any thread; a stream is closed in standby,
with no call under way. `handles` counts what the device has open for a stream
and for those that were closed before in its place; it is not reset when the
struct of the stream is freed. What `snd_pcm_htimestamp` does with a handle that is
already closed is undefined: the thread's `pc` is then `"undefined"` and stays.

## Runs

| Run | Shows | Bounds |
|---|---|---|
| `hwc_inorder` | with a compositor that releases in order: fences signal after the release, new content is never dropped, acquire fences are closed on every way through the loop, the counter implements `ReleaseFences` | three buffers for two slots (the assert is reached), frames of up to two layers, every kind of dropped layer, four sync points, the compositor may go away |
| `hwc_anyorder` | in any order: no buffer is committed twice, all fences are signalled when no buffer is out, and every replaced frame is released in the end | two buffers, four sync points, fairness |
| `hwc_fence_close` (violated) | `buffer_release` may close the fence of the next commit | three sync points |
| `vsync` | every sleep is valid and ends on the next vsync, whatever presentation comes between clock and lock; one late callback at most | eleven clock values, a period of three, words of 3 and 6 bits, so the product and the frame count wrap |
| `dhcps` | leases are unique, usable and stable, ACKs match requests and the table, NAKs have a reason; the table implements `AddressPool` | two MAC addresses behind three accepted or refused interfaces and without one, one range that runs out and one that crosses reserved addresses, a byte of three bits, a word of four |
| `dhcps_hang` (violated) | the allocation loop does not end at a reserved address | the crossing range |
| `dhcpc` | the address in use is the one requested, Bound is left in time, the lease is overrun by what the timeouts allow at most, every state with a limit is left, a served client gets its lease | two addresses, leases shorter and longer than the longest timeout (4 ticks), one without a lease time, one with its own timers; failures of each kind in each configuration |
| `dhcp` | no address a server gave is used behind two of its interfaces and each address in use is on record, through restarts of clients and servers, late and repeated messages, and clients that share transaction ids; a server that made the offer does not refuse it | two clients with one MAC address behind two interfaces, or both behind one; two servers; two addresses; up to four messages per client process |
| `dhcpc_nak` (violated) | after a NAK no message leaves the interface any more | as above |
| `dhcpc_config` (violated) | a configuration that fails after the timers were started keeps the client in Renewing | as above |
| `touch` | `hwc_open` and the first frame use nothing before it is announced, one `wl_touch` while there is touch, no buffer before the configure; fingers end up where they are for the reader and a lift is seen, unless the event itself was lost | seven compositors, of which two have all that a frame needs and five lack a global or have only the fullscreen shell; two fingers and two positions, three touch events, two changes of the seat, a pipe of two packets, one restart of the reader: enough to lose the middle one of three events and to lose the seat with events under way |
| `audio` | no handle is closed in use, one is lost only by closing a stream whose start failed, positions are within what was played, the device mutex is always released | one stream (the policy configuration has one output), three threads, buffers of two frames, a counter of two bits that wraps, two lost handles after which no stream is opened any more (`MaxHandles`) |

The bounds are where the algorithms change behaviour: each interaction involves
at most two buffers, two endpoints or two threads of one stream, so the smallest
sets with one element more than a conflict needs show it; words and bytes are
narrowed until they overflow within a run. The theorems remove the bounds.

Deadlock is checked except in `hwc_inorder` (an assert ends the process),
`vsync` (the clock stops at its bound), `dhcp` (the messages of a client are
bounded), `touch` (the process may end, the events are bounded) and `audio` (a call on a closed handle
ends its thread; a deadlock between mutexes would violate `DeviceLockReleased`).

### Fairness

- Composer: `hwc_set` waits for nothing without a timeout, and the Wayland thread
  runs: weak fairness. `buffer_release` is strongly fair because the thread takes
  events in the order they came, so others cannot overtake a release for ever.
  The compositor receives what was sent and releases what was replaced, which is
  the Wayland protocol.
- DHCP server: the thread runs. DHCP client: the process runs and time goes by
  (`FairSpec`); that servers answer who keeps asking (`Served`) is a premise of
  `GetsLease` and of the run `dhcpc_nak`, not a fact about the client.
- Touch: the Wayland thread handles what arrived and the reader reads what is in
  the pipe, which is all `LiftSeen` needs.
- Audio: threads run and the device plays. No mutex is fair: `DeviceLockReleased`
  holds because `out_write` takes the device mutex even when it does not need it.

## Findings

1. `buffer_release` closes whatever fence the buffer holds after `busy` was
   cleared, which may be the next one (`hwc_fence_close`).
2. `getOfferAddress` hangs at an address that ends in .255 or .0 (`dhcps_hang`).
3. A NAK leaves the client's interface down for good (`dhcpc_nak`).
4. A failing configuration in Renewing never leads to Init (`dhcpc_config`).

Of these, 2 to 4 concern programs the product does not start by default:
`init.spurv.rc` disables the client, and the server is not installed.

Known limits of the code, which the properties except and the hazards of
`PROJECT.json` list: with a compositor that releases out of the order of commits
(`InOrderReleases = FALSE`) a fence may signal while its buffer is still shown,
because fences are points of one counter and the counter steps for whichever
buffer came back; a touch that the compositor cancels, or whose lift meets a full
pipe, stays down for Android until its id is used again; the fourth event of a
lift may put the finger down again; a touch while the reader of the pipe is away
ends the composer; a seat without touch may end it too, through a pointer that
`create_display` left as `malloc` gave it; with a compositor that has only the
fullscreen shell `create_window` succeeds, but the first frame follows
`xdg_toplevel`, which is NULL then, and without `wp_presentation` it follows a
pointer that nobody set, so `UsedOnceAnnounced` asks for both; a stream whose
start failed after the open leaks its handle when it is closed; the lease time is sent in the byte order of
the host and read in that of the network.

## Theorems

All proofs hold for every value of the constants that satisfies the named
assumptions (`HwComposerAssumption` and the like, which every run checks for its
values). They ask little: words and timeouts are positive, the range of
addresses lies below the largest word (`DhcpAssumption`, `ServerAssumption`), a
compositor announces a sequence of globals (`DisplayAssumption`), 0 is a finger
and no position, and the pipe holds some number of packets (`TouchAssumption`).

- **Composer.** The inductive invariant is `TypeOK` with where `hwc_set` is in its
  loop and that the points a frame still needs exist (`ControlInv`), which points
  are committed (`StageInv`), and that a buffer is busy exactly when one commit
  attaches it and is on its way (`BufferInv`): `OneCommitPerBuffer` follows from
  the last, and is not inductive without knowing that the fence SurfaceFlinger
  holds is that commit's. `AcquireInv` extends it to each place of the loop. With
  in-order releases `Ordered`, `TimelineInv` and `SignalInv` say that stages
  never overtake each other and the timeline counts dispatched releases, which
  gives `ReleaseFenceHonest`, `NewContentNotBusy` and the refinement of
  `ReleaseFences`. `CountInv` counts releases against the timeline for any order
  and gives `QuiescentSignalled`.
- **Vsync.** The sleep is computed in a narrow and a wide word. Numbers that
  differ by a multiple of the narrow word are `Congruent`; that every step of
  the computation keeps the class shows that the sum comes out right although the
  product and the frame count wrap, for every width of the words, so `SleepValid`
  and `SleepsToVsync` follow. `OneLateCall` needs `LateInv`: which calls the
  thread can still make after the callback was switched off.
- **DHCP server.** Two leases differ because each lies below the next address
  (`OffsetInv`), as long as the thread is not in the endless loop (`stuck`); in it
  the offset runs through all words, but the table cannot change any more, which
  is itself proved (`LoopNeverLeft`). `LookupInv` ties the locals of
  `getOfferAddress` to the table. The refinement of `AddressPool` follows. That a
  NAK has a reason is the other half: no address below the next one was passed
  over (`NoGap`), so a refused address that should have been granted is leased to
  another.
- **DHCP client.** `ConfiguredAsRequested` needs that a request on its way names
  the address in `mRequestAddress` (`RequestInv`) and that a reply to it can only
  be handled in a state that sent it (`ChosenInv`, `WaitInv`).
  `BoundWithinLease` is proved for servers whose T1 is before the end of the
  lease (`T1BeforeEnd`) from `LeaseInv`: in Bound the wait, T1 and the lease run
  down together. `OverrunIsBounded` is proved for servers whose timers do not
  exceed the lease (`TimersWithinLease`; those the client derives itself do not,
  also where their product wraps): in each state the lease covers what is left of
  the waits but for the overrun (`OverrunInv`). The sum of the growing waits is a
  recursive function; that it exists and bounds each of its tails is shown by
  induction over a set of numbers (the library's `WFMin`).
- **DHCP, clients and servers.** A message may arrive at any time, so what it
  promises must hold for ever. `Basic`: an OFFER or an ACK in the network stands
  for a lease on record, leases are never changed, and the address of an interface
  is a lease of some client on its link, although clients share transaction ids
  and take each other's replies; `UsedIsLeased` and `UniqueUse` follow, and that
  the table of each server implements `AddressPool` in this company too
  (`EachImplementsAddressPool`).
  `Conversation` is about a client alone on its link whose process goes on: what
  carries the number of its last message is that message or an answer to it
  (`CurrentInv`), so its interface has the address it asked for, and the server
  that made an offer does not refuse it.
- **Display.** Each roundtrip waits for one answer, and what a compositor sends
  before it is read before it: the proofs say which events are `Ahead` of the
  answer. `GlobalsInv` has each announced global known or ahead, so that neither
  `hwc_open` nor the first frame meets one that is not set; `WindowInv` has the
  configure handled or ahead, and for the one `wl_touch` the events under way say
  how the seat is, the last of them truly (`Says`, `TouchesInv`).
- **Touch.** `ShownIsTouched` holds at rest; the invariant says where a finger is
  known in between. The last event under way about a finger puts it where it is,
  a cancel and the seat's loss of touch being about all fingers; if there is none,
  what the reader will know when the pipe is empty (`Told`) does, unless the
  finger is excused (`FingersInv`). A contact that is not shown yet, or that the
  stray event of a lift put down, has a packet to come (`ShownInv`). A broken pipe
  ends the connection, and with it what is claimed. Every packet
  begins with its slot, so a reader that restarted in slot 0 and one that did not
  agree on what a packet says of its finger, and it says nothing of others
  (`PacketFold`, `FoldAgrees`); the folds exist by induction over a set.
- **Audio.** What a stream's handle is depends on where the holder of the stream's
  mutex is (`PcmInv`, `MutexInv`); `CallInv` says that a stream in a call is open.
  `HandlesKept` follows step by step: a stream in standby with an open handle and
  no call is one whose start failed, so it is never started again, and only its
  closing loses the handle.
  `PositionTaken` rests on the counter being what the device took, modulo its
  word (`CountInv`). The proof is for any number of streams and threads, the run
  for one stream.

Every invariant, action property and refinement of the passing runs is proved.
Only model-checked is what is about liveness: `FramesReleased`, `GivesUp`,
`GetsLease`, `DeviceLockReleased`, `LiftSeen` and, of the violated runs,
`AllocationEnds`, `StartsOver` and `FailureMovesOn`: TLAPS has no rules for
fairness here.

## Plan

Done: every safety property has its proof. What would come next:

1. `HwComposer` extended: reuse of descriptor numbers by gralloc, a
   `create_failed` that leaves an entry without buffer.
2. The byte order of the lease time, with `DhcpClient` in place of the client of
   `Dhcp`.
3. The client of `Dhcp` shown to allow every step of `DhcpClient`.

## Not modelled

- The encoding of DHCP options, checksums and the routing table.
- Queries of the composer (`hwc_query`, `hwc_blank`, `hwc_get_display_*`,
  `hwc_dump`) and the stubs of the audio HAL, capture among them: they answer from
  constants, sleep or fill in zeros, and change no state.
- The end of the vsync thread: it has none, and uses the device after `hwc_close`
  freed it. A model would show this at once and nothing else.
- The gatekeeper: two maps in memory; when they are read and written is decided by
  a class outside the repository.
- The rest of `simple-dmabuf-drm.c` is left of a demo client and is not reached:
  `redraw` would run only when `window->initialized`, which nothing sets.
- The launcher, which starts one activity; scripts, policies, build files.
