-------------------------------- MODULE Touch --------------------------------
(***************************************************************************)
(* Touch input (the touch_handle_* of hwcomposer.cpp) on its way from the  *)
(* compositor through the Wayland events of Display and a named pipe to    *)
(* InputFlinger.  One write is one packet, at most 144 bytes, so it enters *)
(* the pipe whole or not at all; ABS_MT_POSITION_X, POSITION_Y and         *)
(* PRESSURE are one event.  The reader follows the Linux multi-touch       *)
(* protocol: a slot keeps what it was told and is shown at SYN_REPORT.     *)
(* The composer is a service of its own that keeps the default action for  *)
(* SIGPIPE.  The frame event is left out, its handler is empty; shape and  *)
(* orientation are not in version 1 of the seat, the one that is bound.    *)
(***************************************************************************)
EXTENDS Display, SequencesExt

CONSTANTS
  Ids, Positions,
  PipeSize,        \* packets the pipe holds
  MaxTouches,      \* bound: touch events the compositor makes
  MaxRestarts      \* bound: restarts of the reader

ASSUME TouchAssumption == 0 \notin Positions /\ 0 \in Ids /\ PipeSize \in Nat

Up == 0

VARIABLES
  fingers, touched,     \* the compositor: where each finger is; how many events it made
  input_fd, pipe,       \* is the pipe open for writing; packets in it
  listening, restarts,  \* the reader has the pipe open; how often it was restarted
  reader,               \* what it knows: current slot, contacts, contacts shown
  excused               \* history: ids the reader may be wrong about

input == <<fingers, touched, input_fd, pipe, listening, restarts, reader, excused>>
vars  == <<display, input>>

NoContact == [i \in Ids |-> Up]

Init ==
  /\ InitDisplay
  /\ fingers = NoContact /\ touched = 0 /\ input_fd = FALSE /\ pipe = <<>>
  /\ listening = FALSE /\ restarts = 0 /\ excused = {}
  /\ reader = [slot |-> 0, contact |-> NoContact, shown |-> NoContact]

-----------------------------------------------------------------------------
(* The events of a packet, and what the reader makes of them.              *)

slot(id)    == [type |-> "ABS_MT_SLOT", id |-> id]
contact(at) == [type |-> "ABS_MT_TRACKING_ID and position", at |-> at]
lift        == [type |-> "ABS_MT_TRACKING_ID -1"]
syn         == [type |-> "SYN_REPORT"]
noise       == [type |-> "none that a touch screen has"]

(* What the stack may hold where touch_handle_up writes one event too many *)
Garbage == {noise} \union {slot(i) : i \in Ids} \union {contact(p) : p \in Positions}

read_event(r, e) ==
  CASE e.type = "ABS_MT_SLOT" -> [r EXCEPT !.slot = e.id]
    [] e = lift -> [r EXCEPT !.contact[r.slot] = Up]
    [] e = syn -> [r EXCEPT !.shown = r.contact]
    [] e = noise -> r
    [] OTHER -> [r EXCEPT !.contact[r.slot] = e.at]

read_packet(r, packet) == FoldLeft(read_event, r, packet)

Told     == FoldLeft(read_packet, reader, pipe)
ToldDown == {i \in Ids : Told.contact[i] # Up}

contact_no_slot(id, at) == <<contact(at), syn>>        \* mutant: the slot is taken for granted
contact_packet(id, at)  == <<slot(id), contact(at), syn>>

lift_no_syn(id, last) == <<slot(id), lift, last>>      \* mutant: without SYN_REPORT
lift_packet(id, last) == <<slot(id), lift, syn, last>>

(* A fifo opened for writing without waiting needs a reader.               *)
ensure_pipe_anew == listening                          \* mutant: input_fd is not kept
ensure_pipe      == input_fd \/ listening

delivered(id, packet) ==
  /\ ensure_pipe /\ listening /\ Len(pipe) < PipeSize
  /\ pipe' = Append(pipe, packet) /\ events' = Tail(events)
  /\ excused' = IF Last(packet).type = contact(1).type THEN excused \union {id} ELSE excused \ {id}
  /\ UNCHANGED <<opening, connected>>

(* ENXIO of the open, or EAGAIN: the event is lost.                        *)
lost(id) ==
  /\ ~ensure_pipe \/ (listening /\ Len(pipe) = PipeSize)
  /\ events' = Tail(events) /\ excused' = excused \union {id}
  /\ UNCHANGED <<pipe, opening, connected>>

(* SIGPIPE ends the composer.  The pipe it leaves behind does not matter.  *)
broken_pipe ==
  /\ ensure_pipe /\ ~listening
  /\ opening' = "killed" /\ connected' = FALSE /\ events' = <<>>
  /\ UNCHANGED <<input_fd, pipe, excused>>

write(id, packet) ==
  /\ \/ (delivered(id, packet) \/ lost(id)) /\ input_fd' = ensure_pipe
     \/ broken_pipe
  /\ UNCHANGED <<server, memory, windows, fingers, touched, listening, restarts, reader>>

arrived_at(what) == arrived(what) /\ Head(events).to \in touches

touch_handle_down   == arrived_at("down")   /\ write(Head(events).id, contact_packet(Head(events).id, Head(events).at))
touch_handle_motion == arrived_at("motion") /\ write(Head(events).id, contact_packet(Head(events).id, Head(events).at))
touch_handle_up     == arrived_at("up") /\ \E last \in Garbage : write(Head(events).id, lift_packet(Head(events).id, last))

ignored(ids) ==
  /\ events' = Tail(events) /\ excused' = excused \union ids
  /\ UNCHANGED <<opening, server, connected, memory, windows, fingers, touched,
                 input_fd, pipe, listening, restarts, reader>>

(* The handler is empty: the reader keeps what the compositor takes back.  *)
touch_handle_cancel == arrived_at("cancel") /\ ignored(ToldDown)

(* libwayland drops the events of an object that was destroyed.            *)
touch_destroyed ==
  \E what \in {"down", "motion", "up", "cancel"} :
    arrived(what) /\ Head(events).to \notin touches
      /\ ignored(IF what = "cancel" THEN ToldDown ELSE {Head(events).id})

(* The touches of a seat that loses its touch end without an event.        *)
seat_capabilities ==
  /\ seat_handle_capabilities
  /\ excused' = IF touches \subseteq touches' THEN excused ELSE excused \union ToldDown
  /\ UNCHANGED <<fingers, touched, input_fd, pipe, listening, restarts, reader>>

-----------------------------------------------------------------------------
(* The compositor.  A surface gets touches once it has a buffer.           *)

Sees == connected /\ opening = "running" /\ attached = "proper" /\ seatTouch /\ touches # {}

tell(what, id, at) ==
  /\ Sees /\ touched < MaxTouches /\ touched' = touched + 1
  /\ Len(events) < MaxEvents
  /\ events' = events \o SetToSeq({[to |-> t, what |-> what, id |-> id, at |-> at] : t \in touches})
  /\ UNCHANGED <<opening, server, connected, memory, windows,
                 input_fd, pipe, listening, restarts, reader, excused>>

down(id, at) ==
  /\ fingers[id] = Up /\ fingers' = [fingers EXCEPT ![id] = at]
  /\ tell("down", id, at)

motion(id, at) ==
  /\ fingers[id] \notin {Up, at} /\ fingers' = [fingers EXCEPT ![id] = at]
  /\ tell("motion", id, at)

up(id) ==
  /\ fingers[id] # Up /\ fingers' = [fingers EXCEPT ![id] = Up]
  /\ tell("up", id, Up)

(* A cancel is about no finger in particular.                              *)
cancel == fingers # NoContact /\ fingers' = NoContact /\ tell("cancel", 0, Up)

touchscreen == cancel \/ \E id \in Ids : up(id) \/ \E at \in Positions : down(id, at) \/ motion(id, at)

seat_change == seat_changes /\ fingers' = (IF seatTouch' THEN fingers ELSE NoContact)
                 /\ UNCHANGED <<touched, input_fd, pipe, listening, restarts, reader, excused>>

(* The reader.  While the composer has the pipe open, what is in it stays. *)
reader_opens ==
  /\ ~listening /\ listening' = TRUE
  /\ reader' = [slot |-> 0, contact |-> NoContact, shown |-> NoContact]
  /\ excused' = excused \union {i \in Ids : reader.contact[i] # Up}
  /\ UNCHANGED <<display, fingers, touched, input_fd, pipe, restarts>>

reader_dies ==
  /\ listening /\ restarts < MaxRestarts
  /\ listening' = FALSE /\ restarts' = restarts + 1
  /\ pipe' = IF input_fd THEN pipe ELSE <<>>
  /\ UNCHANGED <<display, fingers, touched, input_fd, reader, excused>>

reader_reads ==
  /\ listening /\ pipe # <<>> /\ pipe' = Tail(pipe) /\ reader' = read_packet(reader, Head(pipe))
  /\ UNCHANGED <<display, fingers, touched, input_fd, listening, restarts, excused>>

-----------------------------------------------------------------------------
Touching == touch_handle_down \/ touch_handle_motion \/ touch_handle_up \/ touch_handle_cancel
              \/ touch_destroyed \/ seat_capabilities

Other ==
  /\ \/ connect \/ registry_handle_global \/ xdg_surface_handle_configure
     \/ second_roundtrip \/ create_display \/ create_window \/ start_thread
     \/ first_commit \/ thread_ends \/ hwc_close
     \/ send_configure \/ goes_away
  /\ UNCHANGED input

Next == Touching \/ Other \/ touchscreen \/ seat_change
          \/ reader_opens \/ reader_dies \/ reader_reads

(* The Wayland thread goes on dispatching, InputFlinger goes on reading.   *)
Dispatch == Touching \/ ((registry_handle_global \/ xdg_surface_handle_configure) /\ UNCHANGED input)

Spec == Init /\ [][Next]_vars /\ WF_vars(Dispatch) /\ WF_vars(reader_reads)

-----------------------------------------------------------------------------
(* One packet per write, at most PipeSize of them; pointers, objects and   *)
(* contacts are of their kinds; only a device that was opened has written. *)
TypeOK ==
  /\ opening \in Openings /\ compositor \in Compositors /\ connected \in BOOLEAN
  /\ \A e \in Range(events) : "to" \in DOMAIN e => e.to \in 1 .. made
  /\ field \in [Fields -> {"null", "garbage", "bound"}] /\ touches \subseteq 1 .. made
  /\ attached \in {"no", "early", "proper"} /\ wait_for_configure \in BOOLEAN
  /\ fingers \in [Ids -> Positions \union {Up}] /\ excused \subseteq Ids
  /\ Len(pipe) <= PipeSize /\ (pipe # <<>> => input_fd)
  /\ reader.slot \in Ids /\ reader.contact \in [Ids -> Positions \union {Up}]
  /\ reader.shown \in [Ids -> Positions \union {Up}]

(* When all is read, InputFlinger shows each finger where it is, and none  *)
(* that is not there: whatever was lost before, an event that reaches the  *)
(* pipe puts its finger right, and never another one.  Excused are fingers *)
(* whose last event found the pipe full, not open or its wl_touch gone,    *)
(* those of a cancelled touch, of a reader that was restarted, and one     *)
(* that an uninitialised event put down again.                             *)
ShownIsTouched ==
  opening = "running" /\ connected /\ listening /\ events = <<>> /\ pipe = <<>> =>
    \A i \in Ids \ excused : reader.shown[i] = fingers[i]

Working(i) == opening = "running" /\ connected /\ listening /\ i \notin excused
                /\ fingers[i] = Up

(* A finger that was lifted is not shown for ever, unless it is excused,   *)
(* comes down again, or one of the three programs ends.                    *)
LiftSeen ==
  \A i \in Ids : (Working(i) /\ reader.shown[i] # Up) ~> ~(Working(i) /\ reader.shown[i] # Up)
=============================================================================
