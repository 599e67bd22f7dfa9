--------------------------- MODULE ReleaseFences ---------------------------
(***************************************************************************)
(* What the hardware composer promises SurfaceFlinger about release fences *)
(* (comment at hwcomposer/hwcomposer.cpp:394): fences are issued one after *)
(* the other, and a fence signals only after the compositor has released   *)
(* the buffer committed with it.                                           *)
(***************************************************************************)
EXTENDS Integers

CONSTANT MaxFence              \* bound: fences a behaviour may issue

VARIABLES issued,              \* fences 1 .. issued exist
          released,            \* fences whose buffer the compositor released
          signalled            \* fences a waiter sees as signalled

vars == <<issued, released, signalled>>

Init == issued = 0 /\ released = {} /\ signalled = {}

Issue ==
  /\ issued < MaxFence
  /\ issued' = issued + 1
  /\ UNCHANGED <<released, signalled>>

Release(f) ==
  /\ f \in (1 .. issued) \ released
  /\ released' = released \cup {f}
  /\ UNCHANGED <<issued, signalled>>

Signal(f) ==
  /\ f \in released \ signalled
  /\ signalled' = signalled \cup {f}
  /\ UNCHANGED <<issued, released>>

Next == Issue \/ \E f \in 1 .. issued : Release(f) \/ Signal(f)

Spec == Init /\ [][Next]_vars

=============================================================================
