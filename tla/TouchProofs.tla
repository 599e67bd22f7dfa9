----------------------------- MODULE TouchProofs -----------------------------
(***************************************************************************)
(* The window and the seat of the composer, for every compositor and       *)
(* however many events are under way.                                      *)
(*                                                                         *)
(* What keeps hwc_open from using a global or a window too early is the    *)
(* order of the events: one that stands ahead of the answer to a roundtrip *)
(* is handled before that roundtrip is over.  What keeps the client and    *)
(* the seat together is that the last event about its capabilities says    *)
(* what they are.                                                          *)
(***************************************************************************)
EXTENDS Touch, FiniteSetTheorems, TLAPS

TouchKinds  == {"down", "motion", "up", "cancel"}
TouchEvents == [to : Nat, what : TouchKinds, id : Ids, at : Positions \union {Up}]
Events == {done, configure} \union {global(g) : g \in Bound \union {OldDmabuf}}
            \union {capabilities(b) : b \in BOOLEAN} \union TouchEvents

LEMMA Kinds ==
  /\ done.what = "done" /\ configure.what = "configure" /\ done \in Events /\ configure \in Events
  /\ \A g \in Bound \union {OldDmabuf} :
       global(g).what = "global" /\ global(g).interface = g /\ global(g) \in Events
  /\ \A b \in BOOLEAN : /\ capabilities(b).what = "capabilities" /\ capabilities(b).touch = b
                        /\ capabilities(b) \in Events
  /\ \A e \in TouchEvents : e.what \in TouchKinds /\ e \in Events
BY DEF done, configure, global, capabilities, Events, TouchEvents

LEMMA EventOfKind ==
  ASSUME NEW e \in Events
  PROVE  /\ e.what = "done" => e = done
         /\ e.what = "configure" => e = configure
         /\ e.what = "global" => e.interface \in Bound \union {OldDmabuf} /\ e = global(e.interface)
         /\ e.what = "capabilities" => e.touch \in BOOLEAN /\ e = capabilities(e.touch)
<1>1. CASE e \in TouchEvents
  BY <1>1, Kinds DEF TouchKinds
<1>2. CASE e \in {done, configure}
  BY <1>2, Kinds
<1>3. CASE \E g \in Bound \union {OldDmabuf} : e = global(g)
  BY <1>3, Kinds
<1>4. CASE \E b \in BOOLEAN : e = capabilities(b)
  BY <1>4, Kinds
<1> QED BY <1>1, <1>2, <1>3, <1>4 DEF Events

LEMMA Single == ASSUME NEW e PROVE SetToSeq({e}) = <<e>>
<1> DEFINE P(f) == f \in [1 .. Cardinality({e}) -> {e}] /\ IsInjective(f)
<1>1. Cardinality({e}) = 1
  BY FS_Singleton
<1>2. \A f : P(f) <=> f = <<e>>
  BY <1>1 DEF IsInjective
<1> QED BY <1>2 DEF SetToSeq

-----------------------------------------------------------------------------
(* The events under way.                                                   *)

(* e comes before the answer to a roundtrip.                               *)
Ahead(es, e) == \E i \in 1 .. Len(es) : es[i] = e /\ \A j \in 1 .. i - 1 : es[j].what # "done"

NoDone(es)  == \A i \in 1 .. Len(es) : es[i].what # "done"
OneDone(es) == \A i, j \in 1 .. Len(es) : es[i].what = "done" /\ es[j].what = "done" => i = j

(* What a client that has a touch or not will know when it has read es.    *)
Says(es, has, seat) ==
  /\ \A i \in 1 .. Len(es) :
       es[i].what = "capabilities" /\ (\A j \in i + 1 .. Len(es) : es[j].what # "capabilities")
         => es[i].touch = seat
  /\ (\A i \in 1 .. Len(es) : es[i].what # "capabilities") => has = seat

LEMMA Tails ==
  ASSUME NEW es \in Seq(Events), es # <<>>
  PROVE  /\ Head(es) = es[1] /\ Len(es) \in Nat \ {0} /\ Head(es) \in Events
         /\ Tail(es) \in Seq(Events) /\ Len(Tail(es)) = Len(es) - 1
         /\ \A i \in 1 .. Len(es) - 1 : Tail(es)[i] = es[i + 1]
OBVIOUS

LEMMA Joins ==
  ASSUME NEW es \in Seq(Events), NEW fs \in Seq(Events)
  PROVE  /\ es \o fs \in Seq(Events) /\ Len(es) \in Nat /\ Len(fs) \in Nat
         /\ Len(es \o fs) = Len(es) + Len(fs)
         /\ \A i \in 1 .. Len(es) : (es \o fs)[i] = es[i]
         /\ \A i \in Len(es) + 1 .. Len(es) + Len(fs) : (es \o fs)[i] = fs[i - Len(es)]
OBVIOUS

LEMMA AheadTail ==
  ASSUME NEW es \in Seq(Events), NEW e, Ahead(es, e), e.what # "done"
  PROVE  /\ es # <<>> /\ Head(es).what # "done"
         /\ Head(es) # e => Ahead(Tail(es), e)
<1>1. PICK i \in 1 .. Len(es) : es[i] = e /\ \A j \in 1 .. i - 1 : es[j].what # "done"
  BY DEF Ahead
<1>2. es # <<>>
  BY <1>1
<1>3. Head(es).what # "done"
  BY <1>1, <1>2, Tails
<1>4. ASSUME Head(es) # e PROVE Ahead(Tail(es), e)
  <2>1. i - 1 \in 1 .. Len(es) - 1
    BY <1>1, <1>2, <1>4, Tails
  <2>2. Tail(es)[i - 1] = e /\ \A j \in 1 .. (i - 1) - 1 : Tail(es)[j].what # "done"
    BY <1>1, <1>2, <2>1, Tails
  <2> QED BY <1>2, <2>1, <2>2, Tails DEF Ahead
<1> QED BY <1>2, <1>3, <1>4

LEMMA AheadJoin ==
  ASSUME NEW es \in Seq(Events), NEW fs \in Seq(Events), NEW e, Ahead(es, e)
  PROVE  Ahead(es \o fs, e)
<1>1. PICK i \in 1 .. Len(es) : es[i] = e /\ \A j \in 1 .. i - 1 : es[j].what # "done"
  BY DEF Ahead
<1>2. i \in 1 .. Len(es \o fs) /\ (es \o fs)[i] = e
  BY <1>1, Joins
<1>3. \A j \in 1 .. i - 1 : (es \o fs)[j].what # "done"
  BY <1>1, Joins
<1> QED BY <1>2, <1>3 DEF Ahead

(* An event appended to others ahead of which no answer is.                *)
LEMMA AheadNew ==
  ASSUME NEW es \in Seq(Events), NEW fs \in Seq(Events), fs # <<>>, NoDone(es)
  PROVE  Ahead(es \o fs, fs[1])
<1>1. Len(es) + 1 \in 1 .. Len(es \o fs) /\ (es \o fs)[Len(es) + 1] = fs[1]
  BY Joins, Tails
<1>2. \A j \in 1 .. (Len(es) + 1) - 1 : (es \o fs)[j].what # "done"
  BY Joins DEF NoDone
<1> QED BY <1>1, <1>2 DEF Ahead

LEMMA DoneTail ==
  ASSUME NEW es \in Seq(Events), es # <<>>
  PROVE  /\ NoDone(es) => NoDone(Tail(es))
         /\ OneDone(es) => OneDone(Tail(es)) /\ (Head(es).what = "done" => NoDone(Tail(es)))
<1>1. ASSUME NoDone(es) PROVE NoDone(Tail(es))
  BY <1>1, Tails DEF NoDone
<1>2. ASSUME OneDone(es) PROVE OneDone(Tail(es))
  BY <1>2, Tails DEF OneDone
<1>3. ASSUME OneDone(es), Head(es).what = "done" PROVE NoDone(Tail(es))
  BY <1>3, Tails DEF OneDone, NoDone
<1> QED BY <1>1, <1>2, <1>3

LEMMA DoneJoin ==
  ASSUME NEW es \in Seq(Events), NEW fs \in Seq(Events)
  PROVE  /\ NoDone(es) /\ NoDone(fs) => NoDone(es \o fs)
         /\ OneDone(es) /\ NoDone(fs) => OneDone(es \o fs)
         /\ NoDone(es) /\ OneDone(fs) => OneDone(es \o fs)
<1>1. \A i \in 1 .. Len(es \o fs) : \/ i \in 1 .. Len(es) /\ (es \o fs)[i] = es[i]
                                    \/ /\ i - Len(es) \in 1 .. Len(fs)
                                       /\ (es \o fs)[i] = fs[i - Len(es)]
  BY Joins
<1>2. ASSUME NoDone(es), NoDone(fs) PROVE NoDone(es \o fs)
  BY <1>1, <1>2 DEF NoDone
<1>3. ASSUME OneDone(es), NoDone(fs) PROVE OneDone(es \o fs)
  BY <1>1, <1>3 DEF NoDone, OneDone
<1>4. ASSUME NoDone(es), OneDone(fs) PROVE OneDone(es \o fs)
  <2>1. \A i, j \in 1 .. Len(es \o fs) :
          i - Len(es) = j - Len(es) => i = j
    BY Joins
  <2> QED BY <1>1, <1>4, <2>1 DEF NoDone, OneDone
<1> QED BY <1>2, <1>3, <1>4

LEMMA OneDoneAlone == OneDone(<<done>>) /\ OneDone(<<configure, done>>) /\ OneDone(<<>>) /\ NoDone(<<>>)
<1>1. Len(<<done>>) = 1 /\ Len(<<configure, done>>) = 2 /\ Len(<<>>) = 0
  OBVIOUS
<1>2. \A i \in 1 .. 2 : <<configure, done>>[i].what = "done" => i = 2
  BY Kinds
<1> QED BY <1>1, <1>2 DEF OneDone, NoDone

LEMMA SaysTail ==
  ASSUME NEW es \in Seq(Events), es # <<>>, NEW has, NEW seat, Says(es, has, seat)
  PROVE  /\ Head(es).what # "capabilities" => Says(Tail(es), has, seat)
         /\ Head(es).what = "capabilities" => Says(Tail(es), Head(es).touch, seat)
<1> DEFINE ts == Tail(es)
<1>1. /\ Len(es) \in Nat \ {0} /\ Len(ts) = Len(es) - 1 /\ Head(es) = es[1]
      /\ \A i \in 1 .. Len(ts) : ts[i] = es[i + 1] /\ i + 1 \in 1 .. Len(es)
  BY Tails
<1> HIDE DEF ts
<1>2. ASSUME NEW i \in 1 .. Len(ts), ts[i].what = "capabilities",
             \A j \in i + 1 .. Len(ts) : ts[j].what # "capabilities"
      PROVE  ts[i].touch = seat
  <2>1. \A j \in (i + 1) + 1 .. Len(es) : es[j].what # "capabilities"
    <3> TAKE j \in (i + 1) + 1 .. Len(es)
    <3>1. j - 1 \in i + 1 .. Len(ts) /\ j - 1 \in 1 .. Len(ts) /\ (j - 1) + 1 = j
      BY <1>1
    <3> QED BY <1>1, <1>2, <3>1
  <2> QED BY <1>1, <1>2, <2>1 DEF Says
<1>3. ASSUME \A i \in 1 .. Len(ts) : ts[i].what # "capabilities"
      PROVE  \A j \in 2 .. Len(es) : es[j].what # "capabilities"
  <2> TAKE j \in 2 .. Len(es)
  <2>1. j - 1 \in 1 .. Len(ts) /\ (j - 1) + 1 = j
    BY <1>1
  <2> QED BY <1>1, <1>3, <2>1
<1>4. ASSUME Head(es).what # "capabilities", \A i \in 1 .. Len(ts) : ts[i].what # "capabilities"
      PROVE  has = seat
  <2>1. \A i \in 1 .. Len(es) : es[i].what # "capabilities"
    BY <1>1, <1>3, <1>4
  <2> QED BY <2>1 DEF Says
<1>5. ASSUME Head(es).what = "capabilities", \A i \in 1 .. Len(ts) : ts[i].what # "capabilities"
      PROVE  Head(es).touch = seat
  BY <1>1, <1>3, <1>5 DEF Says
<1> QED BY <1>2, <1>4, <1>5 DEF Says, ts

LEMMA SaysJoin ==
  ASSUME NEW es \in Seq(Events), NEW fs \in Seq(Events), NEW has, NEW seat, Says(es, has, seat),
         \A i \in 1 .. Len(fs) : fs[i].what # "capabilities"
  PROVE  Says(es \o fs, has, seat)
<1> DEFINE js == es \o fs
<1>1. /\ Len(es) \in Nat /\ Len(fs) \in Nat /\ Len(js) = Len(es) + Len(fs)
      /\ \A i \in 1 .. Len(es) : js[i] = es[i] /\ i \in 1 .. Len(js)
      /\ \A i \in Len(es) + 1 .. Len(js) : js[i].what # "capabilities"
  <2>1. \A i \in Len(es) + 1 .. Len(es) + Len(fs) : i - Len(es) \in 1 .. Len(fs)
    BY Joins
  <2> QED BY <2>1, Joins
<1> HIDE DEF js
<1>2. ASSUME NEW i \in 1 .. Len(js), js[i].what = "capabilities",
             \A j \in i + 1 .. Len(js) : js[j].what # "capabilities"
      PROVE  js[i].touch = seat
  <2>1. i \in 1 .. Len(es) /\ js[i] = es[i]
    BY <1>1, <1>2
  <2>2. \A j \in i + 1 .. Len(es) : es[j].what # "capabilities"
    BY <1>1, <1>2, <2>1
  <2> QED BY <1>2, <2>1, <2>2 DEF Says
<1>3. ASSUME \A i \in 1 .. Len(js) : js[i].what # "capabilities" PROVE has = seat
  BY <1>1, <1>3 DEF Says
<1> QED BY <1>2, <1>3 DEF Says, js

LEMMA SaysNew ==
  ASSUME NEW es \in Seq(Events), NEW has, NEW seat \in BOOLEAN
  PROVE  Says(es \o <<capabilities(seat)>>, has, seat)
<1> DEFINE js == es \o <<capabilities(seat)>>
<1>1. /\ Len(es) \in Nat /\ Len(js) = Len(es) + 1 /\ js[Len(js)] = capabilities(seat)
  <2>1. <<capabilities(seat)>> \in Seq(Events) /\ Len(<<capabilities(seat)>>) = 1
    BY Kinds
  <2> QED BY <2>1, Joins
<1>2. js[Len(js)].what = "capabilities" /\ js[Len(js)].touch = seat
  BY <1>1, Kinds
<1> HIDE DEF js
<1> QED BY <1>1, <1>2 DEF Says, js

-----------------------------------------------------------------------------
(* The invariant.                                                          *)

Before  == {"connect", "roundtrip_globals", "roundtrip_capabilities", "create_window"}
Pointer == {"null", "garbage", "bound"}

(* What of TypeOK is about the display, that nothing is under way without  *)
(* a connection, and that there is none at first.                          *)
DisplayType ==
  /\ compositor \in Compositors /\ connected \in BOOLEAN /\ seatTouch \in BOOLEAN
  /\ field \in [Fields -> Pointer] /\ made \in Nat
  /\ events \in Seq(Events) /\ (~connected => events = <<>>)
  /\ opening = "connect" => ~connected /\ field["wl_seat"] # "bound"

(* Every roundtrip waits for one answer.                                   *)
AnswerInv ==
  /\ opening \in {"connect", "create_window", "running"} => NoDone(events)
  /\ opening \in Roundtrips => OneDone(events)

(* What was announced is known when the first roundtrip is over.           *)
GlobalsInv ==
  connected /\ opening \notin {"crashed", "aborted"} =>
    \A g \in Announced \ {OldDmabuf} :
      field[g] = "bound" \/ (opening = "roundtrip_globals" /\ Ahead(events, global(g)))

(* The window waits for a configure until its roundtrip is over.           *)
WindowInv ==
  /\ opening \in Before => ~wait_for_configure /\ attached = "no"
  /\ compositor.prompt /\ connected =>
       /\ attached # "early"
       /\ opening \in {"running", "disconnected"} => ~wait_for_configure
       /\ opening = "roundtrip_window" /\ wait_for_configure => Ahead(events, configure)

(* The client has the touch it made last or none, and will know of the     *)
(* seat's touch when it has read all events.                               *)
TouchesInv ==
  /\ touches = (IF field["touch"] = "bound" THEN {made} ELSE {})
  /\ zeroed => field["touch"] # "garbage"
  /\ zeroed /\ connected /\ field["wl_seat"] = "bound" =>
       Says(events, field["touch"] = "bound", seatTouch)

DisplayInv == DisplayType /\ AnswerInv /\ GlobalsInv /\ WindowInv /\ TouchesInv /\ UsedOnceAnnounced

LEMMA Interfaces ==
  ASSUME DisplayType
  PROVE  /\ compositor.globals \in Seq(Bound \union {OldDmabuf}) /\ compositor.touch \in BOOLEAN
         /\ Announced \subseteq Bound \union {OldDmabuf}
         /\ "touch" \notin Bound /\ OldDmabuf \notin Bound /\ Fields = Bound \union {"touch"}
<1>1. compositor.globals \in Seq(Bound \union {OldDmabuf}) /\ compositor.touch \in BOOLEAN
  BY DisplayAssumption DEF DisplayType
<1>2. Announced \subseteq Bound \union {OldDmabuf}
  BY <1>1 DEF Announced
<1> QED BY <1>1, <1>2 DEF Bound, Shells, OldDmabuf, Fields

LEMMA InitDisplayInv == InitDisplay => DisplayInv
<1> SUFFICES ASSUME InitDisplay PROVE DisplayInv
  OBVIOUS
<1> USE DEF InitDisplay
<1>1. DisplayType
  <2>1. compositor \in Compositors /\ compositor.touch \in BOOLEAN /\ seatTouch = compositor.touch
    BY DisplayAssumption
  <2>2. field \in [Fields -> Pointer]
    BY DEF Pointer
  <2>3. connected = FALSE /\ events = <<>> /\ made \in Nat
    OBVIOUS
  <2>4. <<>> \in Seq(Events)
    OBVIOUS
  <2>5. field["wl_seat"] # "bound"
    BY DEF Fields, Bound
  <2> HIDE DEF InitDisplay
  <2> QED BY <2>1, <2>2, <2>3, <2>4, <2>5 DEF DisplayType
<1>2. AnswerInv
  BY DEF AnswerInv, NoDone, Roundtrips
<1>3. GlobalsInv /\ WindowInv /\ UsedOnceAnnounced
  BY DEF GlobalsInv, WindowInv, UsedOnceAnnounced
<1>4. TouchesInv
  BY DEF TouchesInv, Fields
<1> QED BY <1>1, <1>2, <1>3, <1>4 DEF DisplayInv

(* A step that reads an event about something else, or sends one to its    *)
(* own end, and changes neither the pointers nor where hwc_open is.        *)
kept == <<opening, compositor, connected, field, zeroed, seatTouch, touches, made>>

Other_kinds == TouchKinds \union {"configure"}

LEMMA ReadOther ==
  ASSUME DisplayInv, UNCHANGED kept, events # <<>>, events' = Tail(events),
         Head(events).what \in Other_kinds,
         UNCHANGED <<wait_for_configure, attached>> \/ (Head(events).what = "configure" /\ ~wait_for_configure' /\ attached' = attached),
         Head(events).what = "configure" => ~wait_for_configure'
  PROVE  DisplayInv'
<1> USE DEF DisplayInv
<1>1. Head(events).what \notin {"done", "global", "capabilities"}
  BY DEF Other_kinds, TouchKinds
<1>2. DisplayType'
  <2>1. connected
    BY DEF DisplayType
  <2> QED BY <2>1, Tails DEF DisplayType, kept
<1>3. AnswerInv'
  BY DoneTail DEF AnswerInv, DisplayType, kept
<1>4. GlobalsInv'
  <2> SUFFICES ASSUME connected, opening \notin {"crashed", "aborted"}, NEW g \in Announced \ {OldDmabuf},
                      field[g] # "bound"
               PROVE  opening = "roundtrip_globals" /\ Ahead(Tail(events), global(g))
    BY DEF GlobalsInv, kept, Announced
  <2>1. global(g).what = "global" /\ Ahead(events, global(g)) /\ opening = "roundtrip_globals"
    BY Interfaces, Kinds DEF GlobalsInv
  <2> QED BY <1>1, <2>1, AheadTail DEF DisplayType
<1>5. WindowInv'
  <2>1. ASSUME compositor.prompt, connected, opening = "roundtrip_window", wait_for_configure'
        PROVE  Ahead(Tail(events), configure)
    <3>1. Ahead(events, configure) /\ Head(events) # configure
      BY <2>1, Kinds DEF WindowInv
    <3> QED BY <3>1, AheadTail, Kinds DEF DisplayType
  <2> QED BY <2>1 DEF WindowInv, kept
<1>6. TouchesInv'
  BY <1>1, SaysTail DEF TouchesInv, DisplayType, kept
<1>7. UsedOnceAnnounced'
  BY DEF UsedOnceAnnounced, kept, Sufficient, Announced
<1> QED BY <1>2, <1>3, <1>4, <1>5, <1>6, <1>7

LEMMA SendOther ==
  ASSUME DisplayInv, UNCHANGED kept, UNCHANGED <<wait_for_configure, attached>>, connected,
         NEW fs \in Seq(Events), \A i \in 1 .. Len(fs) : fs[i].what \in Other_kinds,
         events' = events \o fs
  PROVE  DisplayInv'
<1> USE DEF DisplayInv
<1>1. \A i \in 1 .. Len(fs) : fs[i].what \notin {"done", "global", "capabilities"}
  BY DEF Other_kinds, TouchKinds
<1>2. DisplayType'
  BY Joins DEF DisplayType, kept
<1>3. AnswerInv'
  <2>1. NoDone(fs)
    BY <1>1 DEF NoDone
  <2> QED BY <2>1, DoneJoin DEF AnswerInv, DisplayType, kept
<1>4. GlobalsInv'
  BY AheadJoin DEF GlobalsInv, DisplayType, kept, Announced
<1>5. WindowInv'
  BY AheadJoin DEF WindowInv, DisplayType, kept
<1>6. TouchesInv'
  BY <1>1, SaysJoin DEF TouchesInv, DisplayType, kept
<1>7. UsedOnceAnnounced'
  BY DEF UsedOnceAnnounced, kept, Sufficient, Announced
<1> QED BY <1>2, <1>3, <1>4, <1>5, <1>6, <1>7

-----------------------------------------------------------------------------
(* The steps.                                                              *)

LEMMA ConnectStep == ASSUME DisplayInv, connect PROVE DisplayInv'
<1> USE DEF DisplayInv
<1>1. opening = "connect" /\ ~connected /\ events = <<>> /\ UNCHANGED <<server, memory, windows>>
  BY DEF connect, DisplayType
<1>2. CASE opening' = "aborted" /\ UNCHANGED <<connected, events>>
  <2>1. DisplayType' /\ TouchesInv' /\ WindowInv'
    BY <1>1, <1>2 DEF server, memory, windows, DisplayType, TouchesInv, WindowInv, Before
  <2> QED BY <1>1, <1>2, <2>1 DEF AnswerInv, Roundtrips, GlobalsInv, UsedOnceAnnounced
<1>3. ASSUME opening' = "roundtrip_globals", connected' = TRUE,
             events' = [i \in 1 .. Len(compositor.globals) |-> global(compositor.globals[i])] \o <<done>>
      PROVE  DisplayInv'
  <2> DEFINE gs == [i \in 1 .. Len(compositor.globals) |-> global(compositor.globals[i])]
  <2>1. /\ gs \in Seq(Events) /\ <<done>> \in Seq(Events) /\ Len(gs) = Len(compositor.globals)
        /\ \A i \in 1 .. Len(gs) : gs[i] = global(compositor.globals[i]) /\ gs[i].what = "global"
    BY Interfaces, Kinds
  <2>2. NoDone(gs) /\ OneDone(<<done>>)
    BY <2>1, OneDoneAlone DEF NoDone
  <2>3. events' = gs \o <<done>>
    BY <1>3
  <2> HIDE DEF gs
  <2>4. DisplayType' /\ AnswerInv'
    <3>1. events' \in Seq(Events) /\ OneDone(events')
      BY <2>1, <2>2, <2>3, Joins, DoneJoin
    <3> QED BY <1>1, <1>3, <3>1 DEF DisplayType, AnswerInv, server, memory, Roundtrips
  <2>5. ASSUME NEW g \in Announced PROVE Ahead(events', global(g))
    <3>1. PICK i \in 1 .. Len(gs) : gs[i] = global(g)
      BY <2>1 DEF Announced
    <3>2. Ahead(gs, global(g))
      BY <2>1, <2>2, <3>1 DEF Ahead, NoDone
    <3> QED BY <2>1, <2>3, <3>2, AheadJoin
  <2>6. GlobalsInv' /\ UsedOnceAnnounced'
    BY <1>1, <1>3, <2>5 DEF GlobalsInv, UsedOnceAnnounced, Announced, server
  <2>7. WindowInv' /\ TouchesInv'
    BY <1>1, <1>3 DEF WindowInv, TouchesInv, DisplayType, server, memory, windows, Before
  <2> QED BY <2>4, <2>6, <2>7
<1> QED BY <1>2, <1>3 DEF connect

LEMMA Arrived ==
  ASSUME DisplayInv, NEW what, arrived(what)
  PROVE  /\ events # <<>> /\ Head(events).what = what /\ Head(events) \in Events /\ connected
         /\ opening \in Roundtrips \union {"running"} /\ opening \notin {"crashed", "aborted", "connect"}
BY Tails DEF arrived, dispatching, DisplayInv, DisplayType, Roundtrips

LEMMA RegistryStep == ASSUME DisplayInv, registry_handle_global PROVE DisplayInv'
<1> USE DEF DisplayInv
<1> DEFINE g == Head(events).interface
           fs == IF g = "wl_seat" THEN <<capabilities(seatTouch)>> ELSE <<>>
<1>1. /\ events # <<>> /\ Head(events) = global(g) /\ g \in Bound \union {OldDmabuf}
      /\ Head(events).what = "global" /\ connected
      /\ opening \in Roundtrips \union {"running"} /\ opening \notin {"crashed", "aborted", "connect"}
  BY Arrived, EventOfKind DEF registry_handle_global
<1>2. /\ field' = (IF g = OldDmabuf THEN field ELSE [field EXCEPT ![g] = "bound"])
      /\ events' = Tail(events) \o fs
      /\ UNCHANGED <<opening, server, connected, zeroed, touches, made, windows>>
  BY DEF registry_handle_global
<1>3. fs \in Seq(Events) /\ \A i \in 1 .. Len(fs) : fs[i].what = "capabilities"
  BY Kinds DEF DisplayType
<1>4. NoDone(fs)
  BY <1>3 DEF NoDone
<1>5. /\ field' \in [Fields -> Pointer] /\ field'["touch"] = field["touch"]
      /\ g # OldDmabuf => field'[g] = "bound"
      /\ \A f \in Fields : f # g => field'[f] = field[f]
  BY <1>1, <1>2, Interfaces DEF DisplayType, Pointer
<1> HIDE DEF g
<1>6. DisplayType'
  <2> HIDE DEF fs
  <2> QED BY <1>1, <1>2, <1>3, <1>5, Tails, Joins DEF DisplayType, server
<1>7. AnswerInv'
  <2> HIDE DEF fs
  <2> QED BY <1>1, <1>2, <1>3, <1>4, Tails, DoneTail, DoneJoin DEF AnswerInv, DisplayType
<1>8. GlobalsInv'
  <2> HIDE DEF fs
  <2> SUFFICES ASSUME NEW h \in Announced \ {OldDmabuf}, field'[h] # "bound"
               PROVE  opening = "roundtrip_globals" /\ Ahead(events', global(h))
    BY <1>2 DEF GlobalsInv, Announced, server
  <2>1. h # g /\ h \in Bound \union {OldDmabuf} /\ field[h] # "bound"
    BY <1>1, <1>5, Interfaces
  <2>2. opening = "roundtrip_globals" /\ Ahead(events, global(h))
    BY <1>1, <2>1 DEF GlobalsInv
  <2>3. global(h) # global(g) /\ global(h).what # "done"
    BY <1>1, <2>1, Kinds
  <2>4. Ahead(Tail(events), global(h))
    BY <1>1, <2>2, <2>3, AheadTail DEF DisplayType
  <2> QED BY <1>1, <1>2, <1>3, <2>2, <2>4, Tails, AheadJoin DEF DisplayType
<1>9. WindowInv'
  <2> HIDE DEF fs
  <2>1. ASSUME Ahead(events, configure) PROVE Ahead(events', configure)
    <3>1. Ahead(Tail(events), configure)
      BY <1>1, <2>1, Kinds, AheadTail DEF DisplayType
    <3> QED BY <1>1, <1>2, <1>3, <3>1, Tails, AheadJoin DEF DisplayType
  <2> QED BY <1>2, <2>1 DEF WindowInv, server, windows
<1>10. TouchesInv'
  <2>1. touches' = (IF field'["touch"] = "bound" THEN {made'} ELSE {}) /\ (zeroed' => field'["touch"] # "garbage")
    BY <1>2, <1>5 DEF TouchesInv
  <2>2. ASSUME zeroed, field'["wl_seat"] = "bound"
        PROVE  Says(events', field["touch"] = "bound", seatTouch)
    <3>1. CASE g = "wl_seat"
      BY <1>2, <3>1, SaysNew, Tails, <1>1 DEF DisplayType
    <3>2. CASE g # "wl_seat"
      <4>1. field["wl_seat"] = "bound"
        BY <1>5, <2>2, <3>2 DEF Fields, Bound
      <4>2. Says(events, field["touch"] = "bound", seatTouch)
        BY <1>1, <2>2, <4>1 DEF TouchesInv
      <4>3. Says(Tail(events), field["touch"] = "bound", seatTouch)
        BY <1>1, <4>2, SaysTail DEF DisplayType
      <4>4. events' = Tail(events) \o <<>> /\ <<>> \in Seq(Events) /\ Tail(events) \in Seq(Events)
        BY <1>1, <1>2, <3>2, Tails DEF DisplayType
      <4> QED BY <4>3, <4>4, SaysJoin
    <3> QED BY <3>1, <3>2
  <2> QED BY <1>2, <1>5, <2>1, <2>2 DEF TouchesInv, server
<1>11. UsedOnceAnnounced'
  BY <1>1, <1>2 DEF UsedOnceAnnounced
<1> QED BY <1>6, <1>7, <1>8, <1>9, <1>10, <1>11

(* The seat's touch comes or goes, and the client makes or destroys its.   *)
LEMMA CapabilitiesStep == ASSUME DisplayInv, seat_handle_capabilities PROVE DisplayInv'
<1> USE DEF DisplayInv
<1> DEFINE caps == Head(events).touch
<1>1. /\ events # <<>> /\ Head(events) \in Events /\ Head(events).what = "capabilities" /\ connected
      /\ caps \in BOOLEAN
      /\ opening \in Roundtrips \union {"running"} /\ opening \notin {"crashed", "aborted", "connect"}
  BY Arrived, EventOfKind DEF seat_handle_capabilities
<1>2. events' = Tail(events) /\ UNCHANGED <<server, connected, zeroed, windows>>
  BY DEF seat_handle_capabilities
<1>3. \/ /\ caps /\ field["touch"] = "null" /\ field' = [field EXCEPT !["touch"] = "bound"]
         /\ made' = made + 1 /\ touches' = touches \union {made'} /\ opening' = opening
      \/ /\ ~caps /\ field["touch"] = "bound" /\ field' = [field EXCEPT !["touch"] = "null"]
         /\ touches' = touches \ {made} /\ made' = made /\ opening' = opening
      \/ /\ ~caps /\ field["touch"] = "garbage" /\ opening' = "crashed"
         /\ UNCHANGED <<field, touches, made>>
      \/ /\ caps /\ field["touch"] # "null" /\ UNCHANGED <<opening, field, touches, made>>
      \/ /\ ~caps /\ field["touch"] = "null" /\ UNCHANGED <<opening, field, touches, made>>
  BY <1>1 DEF seat_handle_capabilities, untouched
<1>4. /\ field' \in [Fields -> Pointer] /\ made' \in Nat
      /\ \A f \in Bound : field'[f] = field[f]
      /\ touches' = (IF field'["touch"] = "bound" THEN {made'} ELSE {})
      /\ zeroed => field'["touch"] # "garbage" /\ (field'["touch"] = "bound") = caps
  <2> HIDE DEF caps
  <2>1. field \in [Fields -> Pointer] /\ Fields = Bound \union {"touch"} /\ "touch" \notin Bound /\ made \in Nat
    BY Interfaces DEF DisplayType
  <2>2. touches = (IF field["touch"] = "bound" THEN {made} ELSE {}) /\ (zeroed => field["touch"] # "garbage")
    BY DEF TouchesInv
  <2>3. caps \in BOOLEAN /\ field["touch"] \in {"null", "garbage", "bound"}
    BY <1>1, <2>1 DEF Pointer
  <2> QED BY <1>3, <2>1, <2>2, <2>3 DEF Pointer
<1>5. opening' = opening \/ (opening' = "crashed" /\ field'["touch"] = "garbage")
  BY <1>3
<1> HIDE DEF caps
<1>6. DisplayType'
  BY <1>1, <1>2, <1>4, <1>5, Tails DEF DisplayType, server
<1>7. AnswerInv'
  BY <1>1, <1>2, <1>5, DoneTail DEF AnswerInv, DisplayType, Roundtrips
<1>8. GlobalsInv'
  <2> SUFFICES ASSUME opening' = opening, NEW h \in Announced \ {OldDmabuf}, field'[h] # "bound"
               PROVE  opening = "roundtrip_globals" /\ Ahead(events', global(h))
    BY <1>2, <1>5 DEF GlobalsInv, Announced, server
  <2>1. h \in Bound /\ field[h] # "bound"
    BY <1>4, Interfaces
  <2>2. opening = "roundtrip_globals" /\ Ahead(events, global(h))
    BY <1>1, <2>1 DEF GlobalsInv
  <2>3. global(h).what = "global"
    BY <2>1, Kinds
  <2> QED BY <1>1, <1>2, <2>2, <2>3, AheadTail DEF DisplayType
<1>9. WindowInv'
  <2>1. ASSUME Ahead(events, configure) PROVE Ahead(events', configure)
    BY <1>1, <1>2, <2>1, Kinds, AheadTail DEF DisplayType
  <2>2. UNCHANGED <<compositor, wait_for_configure, attached, connected>>
    BY <1>2 DEF server, windows
  <2> QED BY <1>1, <1>5, <2>1, <2>2 DEF WindowInv, Before
<1>10. TouchesInv'
  <2>1. ASSUME zeroed, field'["wl_seat"] = "bound"
        PROVE  Says(events', field'["touch"] = "bound", seatTouch)
    <3>1. field["wl_seat"] = "bound"
      BY <1>4, <2>1 DEF Bound
    <3>2. Says(events, field["touch"] = "bound", seatTouch)
      BY <1>1, <2>1, <3>1 DEF TouchesInv
    <3>3. Says(Tail(events), caps, seatTouch)
      BY <1>1, <3>2, SaysTail DEF DisplayType, caps
    <3> QED BY <1>2, <1>4, <2>1, <3>3
  <2> QED BY <1>2, <1>4, <2>1 DEF TouchesInv, server
<1>11. UsedOnceAnnounced'
  BY <1>1, <1>5 DEF UsedOnceAnnounced
<1> QED BY <1>6, <1>7, <1>8, <1>9, <1>10, <1>11

(* What a roundtrip has seen when it is over.                              *)
LEMMA Answered ==
  ASSUME DisplayInv, roundtrip, opening \in Roundtrips
  PROVE  /\ answered \in Seq(Events) /\ NoDone(answered)
         /\ ~connected => answered = <<>>
         /\ connected => \A e : e.what # "done" => ~Ahead(events, e)
         /\ \A has, seat : connected /\ Says(events, has, seat) => Says(answered, has, seat)
<1> USE DEF DisplayInv
<1>1. CASE arrived("done")
  <2>1. events # <<>> /\ Head(events).what = "done" /\ connected
    BY <1>1, Arrived
  <2>2. answered = Tail(events) /\ NoDone(Tail(events)) /\ Tail(events) \in Seq(Events)
    BY <1>1, <2>1, DoneTail, Tails DEF answered, AnswerInv, DisplayType
  <2>3. \A e : e.what # "done" => ~Ahead(events, e)
    BY <2>1, AheadTail DEF DisplayType
  <2>4. \A has, seat : Says(events, has, seat) => Says(answered, has, seat)
    BY <2>1, <2>2, SaysTail DEF DisplayType
  <2> QED BY <2>1, <2>2, <2>3, <2>4
<1>2. CASE ~arrived("done")
  BY <1>2, OneDoneAlone DEF roundtrip, answered, DisplayType
<1> QED BY <1>1, <1>2

LEMMA Sends ==
  ASSUME DisplayInv, NEW es \in Seq(Events), NoDone(es), ~connected => es = <<>>,
         NEW fs \in {<<done>>, <<configure, done>>}
  PROVE  /\ send(es, fs) \in Seq(Events) /\ OneDone(send(es, fs))
         /\ ~connected => send(es, fs) = <<>>
         /\ connected => /\ Ahead(send(es, fs), fs[1])
                         /\ \A has, seat : Says(es, has, seat) => Says(send(es, fs), has, seat)
<1>1. /\ fs \in Seq(Events) /\ fs # <<>> /\ OneDone(fs)
      /\ \A i \in 1 .. Len(fs) : fs[i].what # "capabilities"
  <2>1. CASE fs = <<done>>
    BY <2>1, Kinds, OneDoneAlone
  <2>2. CASE fs = <<configure, done>>
    BY <2>2, Kinds, OneDoneAlone
  <2> QED BY <2>1, <2>2
<1>2. CASE connected
  <2>1. send(es, fs) = es \o fs
    BY <1>2 DEF send
  <2>2. es \o fs \in Seq(Events) /\ OneDone(es \o fs) /\ Ahead(es \o fs, fs[1])
    BY <1>1, Joins, DoneJoin, AheadNew
  <2>3. \A has, seat : Says(es, has, seat) => Says(es \o fs, has, seat)
    BY <1>1, SaysJoin
  <2> QED BY <1>2, <2>1, <2>2, <2>3
<1>3. CASE ~connected
  BY <1>3, OneDoneAlone DEF send
<1> QED BY <1>2, <1>3

(* hwc_open goes on after a roundtrip; what the client knows stays true.   *)
LEMMA SecondRoundtripStep == ASSUME DisplayInv, second_roundtrip PROVE DisplayInv'
<1> USE DEF DisplayInv
<1>1. /\ opening = "roundtrip_globals" /\ opening \in Roundtrips /\ roundtrip
      /\ UNCHANGED <<server, connected, memory, windows>>
  BY DEF second_roundtrip, globals_known, Roundtrips
<1>2. /\ answered \in Seq(Events) /\ NoDone(answered) /\ (~connected => answered = <<>>)
      /\ \A has, seat : connected /\ Says(events, has, seat) => Says(answered, has, seat)
  BY <1>1, Answered
<1>3. connected => \A g \in Announced \ {OldDmabuf} : field[g] = "bound"
  <2> SUFFICES ASSUME connected, NEW g \in Announced \ {OldDmabuf}, field[g] # "bound" PROVE FALSE
    OBVIOUS
  <2>1. Ahead(events, global(g)) /\ global(g).what # "done"
    BY <1>1, Interfaces, Kinds DEF GlobalsInv
  <2> QED BY <1>1, <2>1, Answered
<1>4. CASE field["zwp_linux_dmabuf_v1"] = "null"
  <2>1. opening' = "crashed" /\ events' = answered
    BY <1>4 DEF second_roundtrip
  <2>2. ~(connected /\ Sufficient)
    BY <1>3, <1>4 DEF Sufficient, OldDmabuf
  <2>3. DisplayType' /\ AnswerInv' /\ GlobalsInv'
    BY <1>1, <1>2, <2>1 DEF DisplayType, AnswerInv, GlobalsInv, Roundtrips, server, memory
  <2>4. WindowInv' /\ TouchesInv'
    BY <1>1, <1>2, <2>1 DEF WindowInv, TouchesInv, server, memory, windows, Before
  <2>5. UsedOnceAnnounced'
    BY <1>1, <2>2 DEF UsedOnceAnnounced, Sufficient, Announced, server
  <2> QED BY <2>3, <2>4, <2>5
<1>5. CASE field["zwp_linux_dmabuf_v1"] # "null"
  <2>1. opening' = "roundtrip_capabilities" /\ events' = send(answered, <<done>>)
    BY <1>5 DEF second_roundtrip
  <2>2. /\ events' \in Seq(Events) /\ OneDone(events') /\ (~connected => events' = <<>>)
        /\ connected => \A has, seat : Says(answered, has, seat) => Says(events', has, seat)
    BY <1>2, <2>1, Sends
  <2>3. DisplayType' /\ AnswerInv'
    BY <1>1, <2>1, <2>2 DEF DisplayType, AnswerInv, Roundtrips, server, memory
  <2>4. GlobalsInv' /\ UsedOnceAnnounced'
    BY <1>1, <1>3, <2>1 DEF GlobalsInv, UsedOnceAnnounced, Announced, server, memory
  <2>5. WindowInv' /\ TouchesInv'
    BY <1>1, <1>2, <2>1, <2>2 DEF WindowInv, TouchesInv, server, memory, windows, Before
  <2> QED BY <2>3, <2>4, <2>5
<1> QED BY <1>4, <1>5

LEMMA CreateDisplayStep == ASSUME DisplayInv, create_display PROVE DisplayInv'
<1> USE DEF DisplayInv
<1>1. /\ opening = "roundtrip_capabilities" /\ opening \in Roundtrips /\ roundtrip
      /\ opening' = "create_window" /\ events' = answered
      /\ UNCHANGED <<server, connected, memory, windows>>
  BY DEF create_display, Roundtrips
<1>2. /\ answered \in Seq(Events) /\ NoDone(answered) /\ (~connected => answered = <<>>)
      /\ \A has, seat : connected /\ Says(events, has, seat) => Says(answered, has, seat)
  BY <1>1, Answered
<1>3. DisplayType' /\ AnswerInv'
  BY <1>1, <1>2 DEF DisplayType, AnswerInv, Roundtrips, server, memory
<1>4. GlobalsInv' /\ UsedOnceAnnounced'
  BY <1>1 DEF GlobalsInv, UsedOnceAnnounced, Announced, server, memory
<1>5. WindowInv' /\ TouchesInv'
  BY <1>1, <1>2 DEF WindowInv, TouchesInv, server, memory, windows, Before
<1> QED BY <1>3, <1>4, <1>5

LEMMA CreateWindowStep == ASSUME DisplayInv, create_window PROVE DisplayInv'
<1> USE DEF DisplayInv
<1> DEFINE surface == field["wl_compositor"]
           shell   == field["zxdg_shell_v6"]
           fshell  == field["zwp_fullscreen_shell_v1"]
<1>1. opening = "create_window" /\ UNCHANGED <<server, connected, memory, attached>>
  BY DEF create_window
<1>2. NoDone(events) /\ events \in Seq(Events) /\ (~connected => events = <<>>)
      /\ ~wait_for_configure /\ attached = "no"
  BY <1>1 DEF AnswerInv, DisplayType, WindowInv, Before
<1>3. connected => \A g \in Announced \ {OldDmabuf} : field[g] = "bound"
  BY <1>1 DEF GlobalsInv
<1>4. ASSUME NEW fs \in {<<done>>, <<configure, done>>}, events' = send(events, fs),
             opening' = "roundtrip_window",
             compositor.prompt /\ wait_for_configure' => fs = <<configure, done>>
      PROVE  DisplayInv'
  <2>1. /\ events' \in Seq(Events) /\ OneDone(events') /\ (~connected => events' = <<>>)
        /\ connected => /\ Ahead(events', fs[1])
                        /\ \A has, seat : Says(events, has, seat) => Says(events', has, seat)
    BY <1>2, <1>4, Sends
  <2>2. DisplayType' /\ AnswerInv'
    BY <1>1, <1>4, <2>1 DEF DisplayType, AnswerInv, Roundtrips, server, memory
  <2>3. GlobalsInv' /\ UsedOnceAnnounced'
    BY <1>1, <1>3, <1>4 DEF GlobalsInv, UsedOnceAnnounced, Announced, server, memory
  <2>4. TouchesInv'
    BY <1>1, <2>1 DEF TouchesInv, server, memory
  <2>5. compositor.prompt /\ wait_for_configure' => fs[1] = configure
    BY <1>4
  <2>6. WindowInv'
    BY <1>1, <1>2, <1>4, <2>1, <2>5 DEF WindowInv, server, Before
  <2> QED BY <2>2, <2>3, <2>4, <2>6
<1>5. ASSUME opening' \in {"aborted", "crashed"}, UNCHANGED <<events, wait_for_configure, configureDue>>,
             ~(connected /\ Sufficient)
      PROVE  DisplayInv'
  <2>1. DisplayType' /\ AnswerInv' /\ GlobalsInv'
    BY <1>1, <1>5 DEF DisplayType, AnswerInv, GlobalsInv, Roundtrips, server, memory
  <2>2. WindowInv' /\ TouchesInv'
    BY <1>1, <1>2, <1>5 DEF WindowInv, TouchesInv, server, memory, Before
  <2>3. UsedOnceAnnounced'
    BY <1>1, <1>5 DEF UsedOnceAnnounced, Sufficient, Announced, server, memory
  <2> QED BY <2>1, <2>2, <2>3
<1>6. connected /\ Sufficient => surface = "bound" /\ shell = "bound"
  BY <1>3 DEF Sufficient, OldDmabuf
<1>7. CASE surface = "bound" /\ shell = "bound"
  <2> DEFINE fs == IF compositor.prompt THEN <<configure, done>> ELSE <<done>>
  <2>1. events' = send(events, fs) /\ opening' = "roundtrip_window"
    BY <1>7 DEF create_window
  <2> QED BY <1>4, <2>1
<1>8. CASE surface = "bound" /\ shell = "null" /\ fshell = "bound"
  <2>1. events' = send(events, <<done>>) /\ opening' = "roundtrip_window" /\ ~wait_for_configure'
    BY <1>2, <1>8 DEF create_window
  <2> QED BY <1>4, <2>1
<1>9. CASE surface = "bound" /\ shell = "null" /\ fshell = "null"
  BY <1>5, <1>6, <1>9 DEF create_window
<1>10. CASE surface # "bound" \/ shell = "garbage" \/ (shell = "null" /\ fshell = "garbage")
  <2>1. opening' = "crashed" /\ UNCHANGED <<events, wait_for_configure, configureDue>>
    BY <1>10 DEF create_window
  <2> QED BY <1>5, <1>6, <1>10, <2>1
<1> QED BY <1>7, <1>8, <1>9, <1>10 DEF create_window

LEMMA StartStep == ASSUME DisplayInv, start_thread PROVE DisplayInv'
<1> USE DEF DisplayInv
<1>1. /\ opening = "roundtrip_window" /\ opening \in Roundtrips /\ roundtrip
      /\ opening' \in {"running", "failed"} /\ events' = answered
      /\ UNCHANGED <<server, connected, memory, windows>>
  BY DEF start_thread, wait_window, Roundtrips
<1>2. /\ answered \in Seq(Events) /\ NoDone(answered) /\ (~connected => answered = <<>>)
      /\ \A has, seat : connected /\ Says(events, has, seat) => Says(answered, has, seat)
  BY <1>1, Answered
<1>3. connected => ~Ahead(events, configure)
  BY <1>1, Answered, Kinds
<1>4. DisplayType' /\ AnswerInv'
  BY <1>1, <1>2 DEF DisplayType, AnswerInv, Roundtrips, server, memory
<1>5. GlobalsInv' /\ UsedOnceAnnounced'
  BY <1>1 DEF GlobalsInv, UsedOnceAnnounced, Announced, server, memory
<1>6. WindowInv' /\ TouchesInv'
  BY <1>1, <1>2, <1>3 DEF WindowInv, TouchesInv, server, memory, windows, Before
<1> QED BY <1>4, <1>5, <1>6

(* The connection is lost, perhaps with the process.                       *)
LEMMA LossStep ==
  ASSUME DisplayInv, connected' = FALSE, events' = <<>>, opening' = opening \/ opening' \in {"killed", "closed"},
         UNCHANGED <<server, memory, wait_for_configure, attached>>
  PROVE  DisplayInv'
<1> USE DEF DisplayInv
<1>1. connected' \in BOOLEAN /\ ~connected'
  OBVIOUS
<1>2. <<>> \in Seq(Events)
  OBVIOUS
<1>3. DisplayType' /\ AnswerInv'
  BY <1>1, <1>2, OneDoneAlone DEF DisplayType, AnswerInv, Roundtrips, server, memory
<1> QED BY <1>1, <1>3 DEF GlobalsInv, WindowInv, TouchesInv, UsedOnceAnnounced, Before, memory

(* What the first frame uses was announced, or the compositor lacks it.    *)
LEMMA FirstCommitStep == ASSUME DisplayInv, first_commit PROVE DisplayInv'
<1> USE DEF DisplayInv
<1>1. /\ opening \in {"running", "disconnected"}
      /\ UNCHANGED <<server, connected, events, memory, wait_for_configure, configureDue>>
      /\ opening' \in {opening, "crashed"} /\ (opening' = "crashed" => attached' = attached)
      /\ attached' \in {attached, "proper"} \/ (attached' = "early" /\ wait_for_configure)
  BY DEF first_commit
<1>2. opening' = "crashed" => ~(connected /\ Sufficient)
  <2> SUFFICES ASSUME connected, Sufficient
               PROVE  field["wp_presentation"] = "bound" /\ xdg_toplevel = "bound"
    BY <1>1 DEF first_commit
  <2>1. \A g \in Announced \ {OldDmabuf} : field[g] = "bound"
    BY <1>1 DEF GlobalsInv
  <2> QED BY <2>1 DEF Sufficient, OldDmabuf, xdg_toplevel
<1>3. DisplayType' /\ AnswerInv'
  BY <1>1 DEF DisplayType, AnswerInv, Roundtrips, server, memory
<1>4. GlobalsInv' /\ TouchesInv'
  BY <1>1 DEF GlobalsInv, TouchesInv, Announced, server, memory
<1>5. UsedOnceAnnounced'
  BY <1>1, <1>2 DEF UsedOnceAnnounced, Sufficient, Announced, server
<1>6. WindowInv'
  BY <1>1 DEF WindowInv, Before, server
<1> QED BY <1>3, <1>4, <1>5, <1>6

(* The thread ends, the device is closed, the compositor goes away.        *)
LEMMA EndStep ==
  ASSUME DisplayInv, thread_ends \/ hwc_close \/ goes_away
  PROVE  DisplayInv'
<1> USE DEF DisplayInv
<1>1. CASE thread_ends
  BY <1>1 DEF thread_ends, DisplayType, AnswerInv, GlobalsInv, WindowInv, TouchesInv, UsedOnceAnnounced,
              Before, Roundtrips, server, memory, windows
<1>2. CASE hwc_close
  BY <1>2, LossStep DEF hwc_close, windows
<1>3. CASE goes_away
  BY <1>3, LossStep DEF goes_away
<1> QED BY <1>1, <1>2, <1>3

LEMMA SeatStep == ASSUME DisplayInv, seat_changes PROVE DisplayInv'
<1> USE DEF DisplayInv
<1> DEFINE fs == <<capabilities(seatTouch')>>
<1>1. /\ connected /\ field["wl_seat"] = "bound" /\ seatTouch' \in BOOLEAN
      /\ UNCHANGED <<opening, compositor, connected, memory, windows>>
      /\ events' = Append(events, capabilities(seatTouch'))
  BY DEF seat_changes
<1>2. events' = events \o fs /\ fs \in Seq(Events) /\ NoDone(fs) /\ events \in Seq(Events)
  <2>1. fs \in Seq(Events) /\ Len(fs) = 1 /\ fs[1].what = "capabilities"
    BY <1>1, Kinds
  <2>2. events' = events \o fs
    BY <1>1 DEF DisplayType
  <2> HIDE DEF fs
  <2> QED BY <2>1, <2>2 DEF NoDone, DisplayType
<1>3. \A has : Says(events', has, seatTouch')
  BY <1>1, <1>2, SaysNew
<1> HIDE DEF fs
<1>4. DisplayType' /\ AnswerInv'
  BY <1>1, <1>2, Joins, DoneJoin DEF DisplayType, AnswerInv, memory
<1>5. GlobalsInv' /\ WindowInv'
  BY <1>1, <1>2, AheadJoin DEF GlobalsInv, WindowInv, Announced, memory, windows
<1>6. TouchesInv' /\ UsedOnceAnnounced'
  BY <1>1, <1>3 DEF TouchesInv, UsedOnceAnnounced, Announced, Sufficient, memory
<1> QED BY <1>4, <1>5, <1>6

-----------------------------------------------------------------------------
(* The handlers of touch events keep what they do not look at, unless the  *)
(* pipe is broken, which ends the process.                                 *)
LEMMA HandlerStep ==
  ASSUME DisplayInv,
         touch_handle_down \/ touch_handle_motion \/ touch_handle_up \/ touch_handle_cancel
           \/ touch_destroyed
  PROVE  DisplayInv'
<1>1. PICK what \in TouchKinds : arrived(what)
  BY DEF touch_handle_down, touch_handle_motion, touch_handle_up, touch_handle_cancel,
         touch_destroyed, arrived_at, TouchKinds
<1>2. CASE broken_pipe /\ UNCHANGED <<server, memory, windows>>
  BY <1>2, LossStep DEF broken_pipe, windows
<1>3. \/ broken_pipe /\ UNCHANGED <<server, memory, windows>>
      \/ events' = Tail(events) /\ UNCHANGED <<opening, server, connected, memory, windows>>
  <2>1. ASSUME NEW id, NEW packet, write(id, packet)
        PROVE  \/ broken_pipe /\ UNCHANGED <<server, memory, windows>>
               \/ events' = Tail(events) /\ UNCHANGED <<opening, server, connected, memory, windows>>
    BY <2>1 DEF write, delivered, lost
  <2>2. ASSUME NEW ids, ignored(ids)
        PROVE  events' = Tail(events) /\ UNCHANGED <<opening, server, connected, memory, windows>>
    BY <2>2 DEF ignored
  <2>3. CASE touch_handle_down \/ touch_handle_motion \/ touch_handle_up
    BY <2>1, <2>3 DEF touch_handle_down, touch_handle_motion, touch_handle_up
  <2>4. CASE touch_handle_cancel \/ touch_destroyed
    BY <2>2, <2>4 DEF touch_handle_cancel, touch_destroyed
  <2> QED BY <2>3, <2>4
<1>4. CASE events' = Tail(events) /\ UNCHANGED <<opening, server, connected, memory, windows>>
  <2>1. events # <<>> /\ Head(events).what \in Other_kinds /\ Head(events).what # "configure"
    BY <1>1, Arrived DEF Other_kinds, TouchKinds
  <2>2. UNCHANGED kept /\ UNCHANGED <<wait_for_configure, attached>>
    BY <1>4 DEF kept, server, memory, windows
  <2> QED BY <1>4, <2>1, <2>2, ReadOther
<1> QED BY <1>2, <1>3, <1>4

LEMMA ConfigureStep == ASSUME DisplayInv, xdg_surface_handle_configure \/ send_configure PROVE DisplayInv'
<1>1. CASE xdg_surface_handle_configure
  <2>1. /\ events # <<>> /\ Head(events).what = "configure" /\ events' = Tail(events)
        /\ ~wait_for_configure' /\ attached' = attached /\ UNCHANGED kept
    BY <1>1, Arrived DEF xdg_surface_handle_configure, kept, server, memory
  <2> QED BY <2>1, ReadOther DEF Other_kinds
<1>2. CASE send_configure
  <2>1. <<configure>> \in Seq(Events) /\ \A i \in 1 .. Len(<<configure>>) : <<configure>>[i].what \in Other_kinds
    BY Kinds DEF Other_kinds
  <2>2. events' = events \o <<configure>>
    BY <1>2 DEF send_configure, DisplayInv, DisplayType
  <2>3. connected /\ UNCHANGED kept /\ UNCHANGED <<wait_for_configure, attached>>
    BY <1>2 DEF send_configure, kept, server, memory
  <2> QED BY <2>1, <2>2, <2>3, SendOther
<1> QED BY <1>1, <1>2

Makes(e, what, id, at) ==
  events' = events \o <<e>> /\ e.to = made /\ e.what = what /\ e.id = id /\ e.at = at

(* A touch is told to the one wl_touch that the client has.                *)
LEMMA Teller ==
  ASSUME DisplayInv, NEW what \in TouchKinds, NEW id \in Ids, NEW at \in Positions \union {Up},
         tell(what, id, at)
  PROVE  /\ connected /\ seatTouch /\ touches = {made}
         /\ \E e \in TouchEvents : Makes(e, what, id, at)
         /\ UNCHANGED <<opening, server, connected, memory, windows>>
<1> DEFINE e(t) == [to |-> t, what |-> what, id |-> id, at |-> at]
<1>1. connected /\ seatTouch /\ touches = {made} /\ made \in Nat
  BY DEF tell, Sees, DisplayInv, TouchesInv, DisplayType
<1>2. SetToSeq({e(t) : t \in touches}) = <<e(made)>>
  <2>1. {e(t) : t \in touches} = {e(made)}
    BY <1>1
  <2> HIDE DEF e
  <2> QED BY <2>1, Single
<1>3. /\ e(made) \in TouchEvents
      /\ e(made).to = made /\ e(made).what = what /\ e(made).id = id /\ e(made).at = at
  BY <1>1 DEF TouchEvents
<1>4. events' = events \o <<e(made)>> /\ UNCHANGED <<opening, server, connected, memory, windows>>
  BY <1>2 DEF tell
<1>5. Makes(e(made), what, id, at)
  BY <1>3, <1>4 DEF Makes
<1> HIDE DEF e
<1> QED BY <1>1, <1>3, <1>4, <1>5

LEMMA TellStep ==
  ASSUME DisplayInv, NEW what \in TouchKinds, NEW id \in Ids, NEW at \in Positions \union {Up},
         tell(what, id, at)
  PROVE  DisplayInv'
<1>1. PICK e \in TouchEvents : Makes(e, what, id, at)
  BY Teller
<1> DEFINE fs == <<e>>
<1>2. e \in Events /\ e.what \in Other_kinds
  BY <1>1, Kinds DEF Other_kinds, Makes
<1>3. fs \in Seq(Events) /\ \A i \in 1 .. Len(fs) : fs[i].what \in Other_kinds
  BY <1>2
<1>4. connected /\ UNCHANGED kept /\ UNCHANGED <<wait_for_configure, attached>>
  BY Teller DEF kept, server, memory, windows
<1>5. events' = events \o fs
  BY <1>1 DEF Makes
<1> HIDE DEF fs
<1> QED BY <1>3, <1>4, <1>5, SendOther

LEMMA TouchscreenStep == ASSUME DisplayInv, touchscreen PROVE DisplayInv'
<1>1. CASE cancel
  BY <1>1, TellStep, TouchAssumption DEF cancel, TouchKinds
<1>2. ASSUME NEW id \in Ids, up(id) PROVE DisplayInv'
  BY <1>2, TellStep DEF up, TouchKinds
<1>3. ASSUME NEW id \in Ids, NEW at \in Positions, down(id, at) PROVE DisplayInv'
  BY <1>3, TellStep DEF down, TouchKinds
<1>4. ASSUME NEW id \in Ids, NEW at \in Positions, motion(id, at) PROVE DisplayInv'
  BY <1>4, TellStep DEF motion, TouchKinds
<1> QED BY <1>1, <1>2, <1>3, <1>4 DEF touchscreen

LEMMA DisplayStep == DisplayInv /\ [Next]_vars => DisplayInv'
<1> SUFFICES ASSUME DisplayInv, [Next]_vars PROVE DisplayInv'
  OBVIOUS
<1>1. ASSUME UNCHANGED display PROVE DisplayInv'
  BY <1>1 DEF display, server, memory, windows, DisplayInv, DisplayType, AnswerInv, GlobalsInv,
              WindowInv, TouchesInv, UsedOnceAnnounced, Sufficient, Announced
<1>2. CASE Touching
  BY <1>2, HandlerStep, CapabilitiesStep DEF Touching, seat_capabilities
<1>3. CASE Other
  BY <1>3, ConnectStep, RegistryStep, ConfigureStep, SecondRoundtripStep, CreateDisplayStep,
     CreateWindowStep, StartStep, FirstCommitStep, EndStep DEF Other
<1>4. CASE touchscreen
  BY <1>4, TouchscreenStep
<1>5. CASE seat_change
  BY <1>5, SeatStep DEF seat_change
<1>6. CASE reader_opens \/ reader_dies \/ reader_reads
  BY <1>1, <1>6 DEF reader_opens, reader_dies, reader_reads
<1>7. CASE UNCHANGED vars
  BY <1>1, <1>7 DEF vars
<1> QED BY <1>2, <1>3, <1>4, <1>5, <1>6, <1>7 DEF Next

(* The display always is as its invariant says, with every compositor.     *)
LEMMA AlwaysDisplay == Spec => []DisplayInv
<1>1. Init => DisplayInv
  BY InitDisplayInv DEF Init
<1> QED BY <1>1, DisplayStep, PTL DEF Spec

-----------------------------------------------------------------------------
(* hwc_open and the first frame use no global before the registry          *)
(* announced it: the global is ahead of the answer to the first roundtrip  *)
(* and handled before that roundtrip is over, so with a compositor that    *)
(* has all four only an unset pointer to the touch ends the device.        *)
THEOREM GlobalsKnown == Spec => []UsedOnceAnnounced
<1>1. DisplayInv => UsedOnceAnnounced
  BY DEF DisplayInv
<1> QED BY <1>1, AlwaysDisplay, PTL

(* seat_handle_capabilities keeps one wl_touch while the seat has touch    *)
(* and none otherwise, however often the seat says so.                     *)
THEOREM TouchMadeOnce == Spec => []OneTouch
<1>1. DisplayInv => OneTouch
  <2> SUFFICES ASSUME DisplayInv, zeroed, connected, field["wl_seat"] = "bound", events = <<>>
               PROVE  touches = IF seatTouch THEN {made} ELSE {}
    BY DEF OneTouch
  <2>1. (field["touch"] = "bound") = seatTouch
    BY DEF DisplayInv, TouchesInv, Says
  <2> QED BY <2>1 DEF DisplayInv, TouchesInv
<1> QED BY <1>1, AlwaysDisplay, PTL

(* hwc_open returns once the configure of its window was handled, if the   *)
(* compositor sends it ahead of its answer, so no buffer comes before it.  *)
THEOREM ConfiguredFirst == Spec => []BufferAfterConfigure
<1>1. DisplayInv => BufferAfterConfigure
  BY DEF DisplayInv, WindowInv, BufferAfterConfigure
<1> QED BY <1>1, AlwaysDisplay, PTL
=============================================================================
