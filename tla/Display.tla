------------------------------- MODULE Display -------------------------------
(***************************************************************************)
(* The Wayland client of the hardware composer (simple-dmabuf-drm.c and    *)
(* hwc_open, hwc_close of hwcomposer.cpp): how it finds the globals of the *)
(* compositor, makes its window and follows the seat.  Events arrive in    *)
(* order and are handled one by one, first in the three roundtrips of      *)
(* hwc_open, then by the Wayland thread.  A roundtrip is over when "done"  *)
(* is read, or at once when the connection is lost: nobody looks at what   *)
(* it returns.                                                             *)
(*                                                                         *)
(* create_display does not clear the memory of its struct: a pointer is    *)
(* "null" or "garbage" until the registry sets it.  What follows the use   *)
(* of either is "crashed".  Left out are pings, buffer formats and the id  *)
(* of the presentation clock, which nobody reads, and the size of the      *)
(* output, which only decides whether a frame sets or unsets fullscreen.   *)
(* Touch completes this module to a specification.                         *)
(***************************************************************************)
EXTENDS Naturals, Sequences

CONSTANTS
  Compositors,     \* [globals, touch, prompt]: what it announces, whether its seat has touch
                   \* at first, whether it sends configure before it answers what came later
  MaxEvents,       \* bound: events under way
  MaxSeatChanges   \* bound: changes of the seat's capabilities

VARIABLES
  opening,              \* where hwc_open is, or how the device ended
  compositor,           \* one of Compositors
  connected, events,    \* the connection and the events under way
  field,                \* of struct display: what each pointer is
  zeroed,               \* was the memory of the struct zero
  seatTouch, seatChanges,  \* the seat has touch; how often that changed
  touches, made,        \* the wl_touch objects of the client; how many were made
  wait_for_configure,
  configureDue,         \* the compositor has yet to send its configure
  attached              \* the first buffer: "no", or "early", "proper" by wait_for_configure

server  == <<compositor, seatTouch, seatChanges>>
memory  == <<field, zeroed, touches, made>>
windows == <<wait_for_configure, configureDue, attached>>
display == <<opening, server, connected, events, memory, windows>>

OldDmabuf == "zwp_linux_dmabuf_v1 below version 3"
Shells    == {"zxdg_shell_v6", "zwp_fullscreen_shell_v1"}
Bound     == {"wl_compositor", "zwp_linux_dmabuf_v1", "wl_seat", "wp_presentation"} \union Shells
Fields    == Bound \union {"touch"}

(* Globals that the registry does not look for are left out.               *)
ASSUME DisplayAssumption ==
  \A c \in Compositors : /\ c.globals \in Seq(Bound \union {OldDmabuf})
                         /\ c.touch \in BOOLEAN /\ c.prompt \in BOOLEAN

Roundtrips == {"roundtrip_globals", "roundtrip_capabilities", "roundtrip_window"}
Openings   == {"connect", "create_window", "running"} \union Roundtrips
                \union {"aborted", "crashed", "failed", "disconnected", "killed", "closed"}

done == [what |-> "done"]
configure == [what |-> "configure"]
global(interface) == [what |-> "global", interface |-> interface]
capabilities(touch) == [what |-> "capabilities", touch |-> touch]

InitDisplay ==
  /\ opening = "connect" /\ compositor \in Compositors /\ connected = FALSE /\ events = <<>>
  /\ \E value \in {"null", "garbage"} :
       field = [f \in Fields |-> value] /\ zeroed = (value = "null")
  /\ seatTouch = compositor.touch /\ seatChanges = 0 /\ touches = {} /\ made = 0
  /\ wait_for_configure = FALSE /\ configureDue = FALSE /\ attached = "no"

-----------------------------------------------------------------------------
(* create_display: connect, ask for the registry.  The compositor answers  *)
(* with its globals and then to the sync.                                  *)
connect ==
  /\ opening = "connect"
  /\ \/ opening' = "aborted" /\ UNCHANGED <<connected, events>>          \* assert(display->display)
     \/ /\ opening' = "roundtrip_globals" /\ connected' = TRUE
        /\ events' = [i \in 1 .. Len(compositor.globals) |-> global(compositor.globals[i])] \o <<done>>
  /\ UNCHANGED <<server, memory, windows>>

dispatching   == opening \in Roundtrips \union {"running"}
arrived(what) == dispatching /\ events # <<>> /\ Head(events).what = what
send(es, e)   == IF connected THEN es \o e ELSE es

registry_handle_global ==
  /\ arrived("global")
  /\ LET g == Head(events).interface IN
       /\ field' = IF g = OldDmabuf THEN field ELSE [field EXCEPT ![g] = "bound"]
       /\ events' = Tail(events) \o IF g = "wl_seat" THEN <<capabilities(seatTouch)>> ELSE <<>>
  /\ UNCHANGED <<opening, server, connected, zeroed, touches, made, windows>>

no_test(pointer)   == TRUE                    \* mutant: d->touch is not tested
untouched(pointer) == pointer = "null"

(* Destroying a wl_touch through a pointer that was never set crashes.     *)
seat_handle_capabilities ==
  /\ arrived("capabilities") /\ events' = Tail(events)
  /\ LET caps == Head(events).touch
         touch == field["touch"] IN
       \/ /\ caps /\ untouched(touch)
          /\ field' = [field EXCEPT !["touch"] = "bound"]
          /\ made' = made + 1 /\ touches' = touches \union {made'}
          /\ UNCHANGED opening
       \/ /\ ~caps /\ touch = "bound"
          /\ field' = [field EXCEPT !["touch"] = "null"] /\ touches' = touches \ {made}
          /\ UNCHANGED <<opening, made>>
       \/ /\ ~caps /\ touch = "garbage"
          /\ opening' = "crashed" /\ UNCHANGED <<field, touches, made>>
       \/ /\ IF caps THEN ~untouched(touch) ELSE touch = "null"
          /\ UNCHANGED <<opening, field, touches, made>>
  /\ UNCHANGED <<server, connected, zeroed, windows>>

xdg_surface_handle_configure ==
  /\ arrived("configure") /\ events' = Tail(events) /\ wait_for_configure' = FALSE
  /\ UNCHANGED <<opening, server, connected, memory, configureDue, attached>>

answered  == IF arrived("done") THEN Tail(events) ELSE events
roundtrip == arrived("done") \/ ~connected

globals_unknown == TRUE                       \* mutant: create_display without its first roundtrip
globals_known   == roundtrip

(* create_display returns NULL without the dmabuf global, and hwc_open     *)
(* writes to what it returned before it looks at it.                       *)
second_roundtrip ==
  /\ opening = "roundtrip_globals" /\ globals_known
  /\ \/ /\ field["zwp_linux_dmabuf_v1"] = "null"
        /\ opening' = "crashed" /\ events' = answered
     \/ /\ field["zwp_linux_dmabuf_v1"] # "null"
        /\ opening' = "roundtrip_capabilities" /\ events' = send(answered, <<done>>)
  /\ UNCHANGED <<server, connected, memory, windows>>

create_display ==
  /\ opening = "roundtrip_capabilities" /\ roundtrip
  /\ opening' = "create_window" /\ events' = answered
  /\ UNCHANGED <<server, connected, memory, windows>>

(* A surface with the role of the first shell there is.  An xdg surface is *)
(* committed at once, for which the compositor sends a configure.          *)
create_window ==
  LET surface == field["wl_compositor"]
      shell   == field["zxdg_shell_v6"]
      fshell  == field["zwp_fullscreen_shell_v1"]
  IN /\ opening = "create_window"
     /\ \/ /\ surface = "bound" /\ shell = "bound"
           /\ opening' = "roundtrip_window" /\ wait_for_configure' = TRUE
           /\ configureDue' = (connected /\ ~compositor.prompt)
           /\ events' = send(events, IF compositor.prompt THEN <<configure, done>> ELSE <<done>>)
        \/ /\ surface = "bound" /\ shell = "null" /\ fshell = "bound"
           /\ opening' = "roundtrip_window" /\ events' = send(events, <<done>>)
           /\ UNCHANGED <<wait_for_configure, configureDue>>
        \/ /\ surface = "bound" /\ shell = "null" /\ fshell = "null"
           /\ opening' = "aborted"                              \* assert(0)
           /\ UNCHANGED <<events, wait_for_configure, configureDue>>
        \/ /\ surface # "bound" \/ shell = "garbage" \/ (shell = "null" /\ fshell = "garbage")
           /\ opening' = "crashed"
           /\ UNCHANGED <<events, wait_for_configure, configureDue>>
  /\ UNCHANGED <<server, connected, memory, attached>>

no_wait     == TRUE                           \* mutant: hwc_open without its roundtrip
wait_window == roundtrip

(* The rest of hwc_open; the vsync thread it starts is in Vsync.           *)
start_thread ==
  /\ opening = "roundtrip_window" /\ wait_window /\ events' = answered
  /\ opening' \in {"running", "failed"}                         \* pthread_create
  /\ UNCHANGED <<server, connected, memory, windows>>

(* create_window made a toplevel if there was an xdg shell; otherwise the  *)
(* pointer is NULL, and stays so: nothing is bound later.                  *)
xdg_toplevel == field["zxdg_shell_v6"]

(* The first frame of hwc_set, which does not know how the thread is: it   *)
(* asks for a feedback of the presentation, sets or unsets the toplevel    *)
(* fullscreen and commits a buffer, without a look at wait_for_configure.  *)
first_commit ==
  /\ opening \in {"running", "disconnected"} /\ attached = "no"
  /\ \/ /\ field["wp_presentation"] = "bound" /\ xdg_toplevel = "bound"
        /\ attached' = IF wait_for_configure THEN "early" ELSE "proper"
        /\ UNCHANGED opening
     \/ /\ field["wp_presentation"] # "bound" \/ xdg_toplevel # "bound"
        /\ opening' = "crashed" /\ UNCHANGED attached
  /\ UNCHANGED <<server, connected, events, memory, wait_for_configure, configureDue>>

(* wl_display_dispatch returns -1 when the connection is lost.             *)
thread_ends ==
  /\ opening = "running" /\ ~connected /\ opening' = "disconnected"
  /\ UNCHANGED <<server, connected, events, memory, windows>>

(* No handler for SIGTERM: it ends the process, if the thread still runs.  *)
hwc_close ==
  /\ opening \in {"running", "disconnected"}
  /\ opening' = IF opening = "running" THEN "killed" ELSE "closed"
  /\ connected' = FALSE /\ events' = <<>>
  /\ UNCHANGED <<server, memory, windows>>

-----------------------------------------------------------------------------
(* The compositor.                                                         *)

(* Touch comes or goes, or another capability does.                        *)
seat_changes ==
  /\ connected /\ field["wl_seat"] = "bound"
  /\ seatChanges < MaxSeatChanges /\ Len(events) < MaxEvents
  /\ seatChanges' = seatChanges + 1 /\ seatTouch' \in BOOLEAN
  /\ events' = Append(events, capabilities(seatTouch'))
  /\ UNCHANGED <<opening, compositor, connected, memory, windows>>

send_configure ==
  /\ connected /\ configureDue /\ configureDue' = FALSE
  /\ events' = Append(events, configure)
  /\ UNCHANGED <<opening, server, connected, memory, wait_for_configure, attached>>

goes_away ==
  /\ connected /\ connected' = FALSE /\ events' = <<>> /\ configureDue' = FALSE
  /\ UNCHANGED <<opening, server, memory, wait_for_configure, attached>>

-----------------------------------------------------------------------------
Announced  == {compositor.globals[i] : i \in 1 .. Len(compositor.globals)}
Sufficient == {"wl_compositor", "zwp_linux_dmabuf_v1", "zxdg_shell_v6", "wp_presentation"} \subseteq Announced

(* hwc_open and the first frame use no global, and no window made from     *)
(* one, before the registry announced it: with a compositor that has the   *)
(* four they cannot do without and stays, the device crashes or aborts     *)
(* only where the seat tests a pointer to the touch that was never set.    *)
(* The fullscreen shell is not enough: create_window takes it, but the     *)
(* first frame follows the toplevel that only an xdg shell gives.          *)
UsedOnceAnnounced ==
  opening \in {"crashed", "aborted"} /\ connected /\ Sufficient => field["touch"] = "garbage"

(* However often the seat announces its capabilities, the client has one   *)
(* wl_touch while there is touch and none otherwise, once it has read all  *)
(* events and if create_display found its memory zero: with two it would   *)
(* get every touch twice.                                                  *)
OneTouch ==
  zeroed /\ connected /\ field["wl_seat"] = "bound" /\ dispatching /\ events = <<>> =>
    touches = IF seatTouch THEN {made} ELSE {}

(* No buffer is committed before the configure of the window was handled,  *)
(* as hwc_open waits once more after it made the window: this takes a      *)
(* compositor that answers the commit before it answers that roundtrip.    *)
BufferAfterConfigure == compositor.prompt /\ connected => attached # "early"
=============================================================================
