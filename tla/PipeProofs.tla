----------------------------- MODULE PipeProofs -----------------------------
(***************************************************************************)
(* What the reader of the pipe knows of the fingers, for any number of     *)
(* fingers, any length of the pipe and however often it is restarted.      *)
(***************************************************************************)
EXTENDS TouchProofs, WellFoundedInduction

(* Folds over a sequence, of which the definition is a recursive function: *)
(* that it exists is shown by induction.                                   *)
LEMMA LeastExists == ASSUME NEW S \in SUBSET Nat, S # {} PROVE \E n \in S : \A m \in S : n <= m
<1> DEFINE R == OpToRel(<, Nat)
<1>1. IsWellFoundedOn(R, Nat)
  BY NatLessThanWellFounded
<1>2. \A x, y \in Nat : <<x, y>> \in R <=> x < y
  BY DEF OpToRel
<1> HIDE DEF R
<1>3. PICK n \in S : \A m \in S : ~(<<m, n>> \in R)
  BY <1>1, WFMin, Zenon
<1>4. ASSUME NEW m \in S PROVE n <= m
  <2>1. m \in Nat /\ n \in Nat /\ ~(m < n)
    BY <1>2, <1>3
  <2> QED BY <2>1
<1> QED BY <1>3, <1>4

LEMMA Induction ==
  ASSUME NEW T, 0 \in T, \A n \in Nat : n \in T => n + 1 \in T
  PROVE  \A n \in Nat : n \in T
<1> DEFINE U == Nat \ T
<1> SUFFICES ASSUME U # {} PROVE FALSE
  OBVIOUS
<1>1. PICK n \in U : \A m \in U : n <= m
  BY LeastExists
<1>2. n # 0 /\ n - 1 \in Nat /\ ~(n <= n - 1)
  OBVIOUS
<1>3. n - 1 \in T
  BY <1>1, <1>2
<1> QED BY <1>2, <1>3

LEMMA UpTo ==
  ASSUME NEW N \in Nat, NEW T, 0 \in T, \A k \in 1 .. N : k - 1 \in T => k \in T
  PROVE  \A k \in 0 .. N : k \in T
<1> DEFINE U == {k \in Nat : k <= N => k \in T}
<1>1. 0 \in U
  OBVIOUS
<1>2. ASSUME NEW k \in Nat, k \in U PROVE k + 1 \in U
  <2> SUFFICES ASSUME k + 1 <= N PROVE k + 1 \in T
    OBVIOUS
  <2>1. k \in T /\ k + 1 \in 1 .. N /\ (k + 1) - 1 = k
    BY <1>2
  <2> QED BY <2>1
<1>3. \A k \in Nat : k \in U
  <2> HIDE DEF U
  <2> QED BY <1>1, <1>2, Induction
<1> QED BY <1>3

LEMMA MaxOf ==
  ASSUME NEW n \in Nat, NEW S \in SUBSET (1 .. n), S # {}
  PROVE  Max(S) \in S /\ \A m \in S : m <= Max(S)
<1> DEFINE U == {n - m : m \in S}
<1>1. PICK u \in U : \A v \in U : u <= v
  <2>1. \A m \in S : m \in 1 .. n /\ n - m \in Nat
    OBVIOUS
  <2>2. U \in SUBSET Nat /\ U # {}
    BY <2>1
  <2> HIDE DEF U
  <2> QED BY <2>2, LeastExists
<1>2. PICK k \in S : u = n - k
  OBVIOUS
<1>3. \A m \in S : n - k <= n - m
  BY <1>1, <1>2
<1>4. \A m \in S : k >= m
  BY <1>3
<1>5. Max(S) \in S /\ \A m \in S : Max(S) >= m
  BY <1>4 DEF Max
<1>6. \A m \in S : m \in Int
  OBVIOUS
<1> QED BY <1>5, <1>6

LEMMA MaxOfPrefix == ASSUME NEW n \in Nat PROVE Max(1 .. n + 1) = n + 1 /\ (1 .. n + 1) \ {n + 1} = 1 .. n
<1>1. 1 .. n + 1 \in SUBSET (1 .. n + 1) /\ n + 1 \in 1 .. n + 1 /\ n + 1 \in Nat
  OBVIOUS
<1>2. Max(1 .. n + 1) \in 1 .. n + 1 /\ n + 1 <= Max(1 .. n + 1)
  BY <1>1, MaxOf
<1> QED BY <1>2

(* The recursion of a fold over n steps has a solution.                    *)
solves(g, step, base, n) ==
  g = [s \in SUBSET (1 .. n) |-> IF s = {} THEN base ELSE step[<<g[s \ {Max(s)}], Max(s)>>]]

LEMMA FoldExists ==
  ASSUME NEW R, NEW base \in R, NEW N \in Nat, NEW step \in [R \X (1 .. N) -> R]
  PROVE  \E g \in [SUBSET (1 .. N) -> R] : solves(g, step, base, N)
<1> DEFINE Solved(n) == \E g \in [SUBSET (1 .. n) -> R] : solves(g, step, base, n)
           T == {n \in Nat : n <= N => Solved(n)}
<1>1. 0 \in T
  <2> DEFINE g == [s \in SUBSET (1 .. 0) |-> base]
  <2>1. \A s \in SUBSET (1 .. 0) : s = {}
    OBVIOUS
  <2>2. g \in [SUBSET (1 .. 0) -> R]
    OBVIOUS
  <2>3. solves(g, step, base, 0)
    BY <2>1 DEF solves
  <2> HIDE DEF g
  <2> QED BY <2>2, <2>3
<1>2. ASSUME NEW n \in Nat, n \in T PROVE n + 1 \in T
  <2> SUFFICES ASSUME n + 1 <= N PROVE Solved(n + 1)
    <3> HIDE DEF Solved
    <3> QED OBVIOUS
  <2>1. PICK f \in [SUBSET (1 .. n) -> R] : solves(f, step, base, n)
    <3>1. n <= N
      OBVIOUS
    <3> QED BY <1>2, <3>1
  <2> DEFINE g == [s \in SUBSET (1 .. n + 1) |->
                     IF s = {} THEN base ELSE step[<<f[s \ {Max(s)}], Max(s)>>]]
  <2>2. ASSUME NEW s \in SUBSET (1 .. n + 1), s # {}
        PROVE  Max(s) \in 1 .. N /\ s \ {Max(s)} \in SUBSET (1 .. n)
    <3>1. n + 1 \in Nat
      OBVIOUS
    <3>2. Max(s) \in s /\ \A m \in s : m <= Max(s)
      BY <2>2, <3>1, MaxOf
    <3>3. s \ {Max(s)} \in SUBSET (1 .. n)
      <4> SUFFICES ASSUME NEW m \in s, m # Max(s) PROVE m \in 1 .. n
        OBVIOUS
      <4>1. m \in 1 .. n + 1 /\ Max(s) \in 1 .. n + 1 /\ m <= Max(s)
        BY <3>2
      <4> QED BY <4>1
    <3>4. Max(s) \in 1 .. n + 1
      BY <3>2
    <3> QED BY <3>3, <3>4
  <2>3. \A s \in SUBSET (1 .. n) : g[s] = f[s]
    <3> SUFFICES ASSUME NEW s \in SUBSET (1 .. n) PROVE g[s] = f[s]
      OBVIOUS
    <3>1. f[s] = IF s = {} THEN base ELSE step[<<f[s \ {Max(s)}], Max(s)>>]
      BY <2>1 DEF solves
    <3>2. s \in SUBSET (1 .. n + 1)
      OBVIOUS
    <3> QED BY <3>1, <3>2
  <2>4. g \in [SUBSET (1 .. n + 1) -> R]
    <3> SUFFICES ASSUME NEW s \in SUBSET (1 .. n + 1), s # {} PROVE step[<<f[s \ {Max(s)}], Max(s)>>] \in R
      OBVIOUS
    <3>1. f[s \ {Max(s)}] \in R /\ Max(s) \in 1 .. N
      BY <2>2
    <3> QED BY <3>1
  <2>5. solves(g, step, base, n + 1)
    <3>1. \A s \in SUBSET (1 .. n + 1) : s # {} => f[s \ {Max(s)}] = g[s \ {Max(s)}]
      BY <2>2, <2>3
    <3> QED BY <3>1 DEF solves
  <2> HIDE DEF g
  <2> QED BY <2>4, <2>5
<1>3. N \in T
  <2> HIDE DEF T
  <2> QED BY <1>1, <1>2, Induction
<1> QED
  <2>1. N <= N
    OBVIOUS
  <2> QED BY <1>3, <2>1

(* The equation of a recursive function at a prefix.                       *)
LEMMA AtPrefix ==
  ASSUME NEW N \in Nat, NEW k \in 1 .. N
  PROVE  /\ 1 .. k \in SUBSET (1 .. N) /\ 1 .. k # {} /\ Max(1 .. k) = k
         /\ (1 .. k) \ {k} = 1 .. k - 1
<1>1. k - 1 \in Nat /\ (k - 1) + 1 = k
  OBVIOUS
<1>2. Max(1 .. k) = k /\ (1 .. k) \ {k} = 1 .. k - 1
  BY <1>1, MaxOfPrefix
<1> QED BY <1>2

-----------------------------------------------------------------------------
(* The reader.                                                             *)

Places      == Positions \union {Up}
Readers     == [slot : Ids, contact : [Ids -> Places], shown : [Ids -> Places]]
InputEvents == {noise, syn, lift} \union {slot(i) : i \in Ids} \union {contact(p) : p \in Positions}

LEMMA EventTypes ==
  /\ noise.type = "none that a touch screen has" /\ syn.type = "SYN_REPORT"
  /\ lift.type = "ABS_MT_TRACKING_ID -1"
  /\ \A i : slot(i).type = "ABS_MT_SLOT" /\ slot(i).id = i
  /\ \A p : contact(p).type = "ABS_MT_TRACKING_ID and position" /\ contact(p).at = p
BY DEF noise, syn, lift, slot, contact

LEMMA ReadEvent ==
  ASSUME NEW r \in Readers
  PROVE  /\ read_event(r, noise) = r
         /\ read_event(r, syn) = [r EXCEPT !.shown = r.contact]
         /\ read_event(r, lift) = [r EXCEPT !.contact[r.slot] = Up]
         /\ \A i : read_event(r, slot(i)) = [r EXCEPT !.slot = i]
         /\ \A p : read_event(r, contact(p)) = [r EXCEPT !.contact[r.slot] = p]
<1>1. read_event(r, noise) = r
  BY EventTypes DEF read_event
<1>2. read_event(r, syn) = [r EXCEPT !.shown = r.contact]
  BY EventTypes DEF read_event
<1>3. read_event(r, lift) = [r EXCEPT !.contact[r.slot] = Up]
  BY EventTypes DEF read_event
<1>4. ASSUME NEW i PROVE read_event(r, slot(i)) = [r EXCEPT !.slot = i]
  BY EventTypes DEF read_event
<1>5. ASSUME NEW p PROVE read_event(r, contact(p)) = [r EXCEPT !.contact[r.slot] = p]
  BY EventTypes DEF read_event
<1> QED BY <1>1, <1>2, <1>3, <1>4, <1>5

LEMMA ReadEventType == ASSUME NEW r \in Readers, NEW e \in InputEvents PROVE read_event(r, e) \in Readers
<1>1. CASE e \in {noise, syn, lift}
  BY <1>1, ReadEvent DEF Readers, Places
<1>2. CASE \E i \in Ids : e = slot(i)
  BY <1>2, ReadEvent DEF Readers
<1>3. CASE \E p \in Positions : e = contact(p)
  BY <1>3, ReadEvent DEF Readers, Places
<1> QED BY <1>1, <1>2, <1>3 DEF InputEvents

(* The reader after each event of a packet.                                *)
LEMMA EventFold ==
  ASSUME NEW r \in Readers, NEW es \in Seq(InputEvents)
  PROVE  \E h \in [0 .. Len(es) -> Readers] :
           /\ h[0] = r /\ \A k \in 1 .. Len(es) : h[k] = read_event(h[k - 1], es[k])
           /\ FoldLeft(read_event, r, es) = h[Len(es)]
<1> DEFINE N == Len(es)
           step == [x \in Readers \X (1 .. N) |-> read_event(x[1], es[x[2]])]
           P(f) == f = [s \in SUBSET DOMAIN es |->
                          IF s = {} THEN r ELSE read_event(f[s \ {Max(s)}], es[Max(s)])]
           it == CHOOSE f : P(f)
<1>1. N \in Nat /\ DOMAIN es = 1 .. N /\ \A k \in 1 .. N : es[k] \in InputEvents
  OBVIOUS
<1>2. step \in [Readers \X (1 .. N) -> Readers]
  <2> SUFFICES ASSUME NEW x \in Readers \X (1 .. N) PROVE read_event(x[1], es[x[2]]) \in Readers
    OBVIOUS
  <2>1. x[1] \in Readers /\ x[2] \in 1 .. N
    OBVIOUS
  <2> QED BY <1>1, <2>1, ReadEventType
<1>3. PICK g \in [SUBSET (1 .. N) -> Readers] : solves(g, step, r, N)
  <2> HIDE DEF N, step
  <2> QED BY <1>1, <1>2, FoldExists
<1>4. P(g)
  <2>1. ASSUME NEW s \in SUBSET (1 .. N), s # {}
        PROVE  step[<<g[s \ {Max(s)}], Max(s)>>] = read_event(g[s \ {Max(s)}], es[Max(s)])
    <3>1. Max(s) \in 1 .. N
      BY <1>1, <2>1, MaxOf
    <3>2. g[s \ {Max(s)}] \in Readers
      BY <3>1
    <3> QED BY <3>1, <3>2
  <2> HIDE DEF step, N
  <2> QED BY <1>1, <1>3, <2>1 DEF solves
<1>5. P(it)
  BY <1>4
<1>6. FoldLeft(read_event, r, es) = it[DOMAIN es]
  BY DEF FoldLeft, MapThenFoldSet
<1> HIDE DEF it
<1>7. it[1 .. 0] = r
  BY <1>5
<1>8. \A k \in 1 .. N : it[1 .. k] = read_event(it[1 .. k - 1], es[k])
  <2> TAKE k \in 1 .. N
  <2> DEFINE S == 1 .. k
  <2>1. S \in SUBSET DOMAIN es /\ S # {} /\ Max(S) = k /\ S \ {k} = 1 .. k - 1
    <3> HIDE DEF N
    <3> QED BY <1>1, AtPrefix
  <2>2. it[S] = IF S = {} THEN r ELSE read_event(it[S \ {Max(S)}], es[Max(S)])
    <3> HIDE DEF S
    <3> QED BY <1>5, <2>1
  <2> HIDE DEF S
  <2> QED BY <2>1, <2>2 DEF S
<1> HIDE DEF P
<1> DEFINE h == [k \in 0 .. N |-> it[1 .. k]]
           T == {k \in 0 .. N : it[1 .. k] \in Readers}
<1>9. \A k \in 0 .. N : k \in T
  <2>1. 0 \in T
    BY <1>1, <1>7
  <2>2. ASSUME NEW k \in 1 .. N, k - 1 \in T PROVE k \in T
    BY <1>1, <1>8, <2>2, ReadEventType
  <2> HIDE DEF T, N
  <2> QED BY <1>1, <2>1, <2>2, UpTo
<1> HIDE DEF N
<1>10. h \in [0 .. N -> Readers] /\ h[0] = r /\ h[N] = it[1 .. N]
  BY <1>1, <1>7, <1>9
<1>11. \A k \in 1 .. N : h[k] = read_event(h[k - 1], es[k])
  BY <1>1, <1>8
<1> HIDE DEF h
<1> QED BY <1>1, <1>6, <1>10, <1>11 DEF N

-----------------------------------------------------------------------------
(* The packets.                                                            *)

Packets == {contact_packet(i, p) : i \in Ids, p \in Positions}
             \union {lift_packet(i, last) : i \in Ids, last \in Garbage}

(* Which finger a packet is about, whether nothing follows its SYN_REPORT  *)
(* that counts, and where it leaves the finger.                            *)
Owner(packet) == packet[1].id
Clean(packet) == Last(packet).type # contact(1).type
Left(packet)  == IF ~Clean(packet) THEN Last(packet).at
                 ELSE IF packet[2].type = contact(1).type THEN packet[2].at ELSE Up

Reads(r, q, packet) ==
  /\ q \in Readers
  /\ q.contact[Owner(packet)] = Left(packet)
  /\ Clean(packet) => q.shown[Owner(packet)] = Left(packet)
  /\ \A j \in Ids \ {Owner(packet)} : q.contact[j] = r.contact[j] /\ q.shown[j] = r.contact[j]

LEMMA ContactPacket ==
  ASSUME NEW i \in Ids, NEW p \in Positions
  PROVE  LET k == contact_packet(i, p) IN
         k \in Packets /\ k \in Seq(InputEvents) /\ Owner(k) = i /\ Clean(k) /\ Left(k) = p
<1> DEFINE k == contact_packet(i, p)
<1>1. k = <<slot(i), contact(p), syn>>
  BY DEF contact_packet
<1>2. slot(i) \in InputEvents /\ contact(p) \in InputEvents /\ syn \in InputEvents
  BY DEF InputEvents
<1>3. k \in Seq(InputEvents) /\ Len(k) = 3 /\ k[1] = slot(i) /\ k[2] = contact(p) /\ k[3] = syn
  BY <1>1, <1>2
<1>4. k \in Packets
  BY DEF Packets
<1> HIDE DEF k
<1>5. Owner(k) = i /\ Clean(k)
  BY <1>3, EventTypes DEF Owner, Clean, Last
<1>6. Left(k) = p
  BY <1>3, <1>5, EventTypes DEF Left
<1> QED BY <1>3, <1>4, <1>5, <1>6 DEF k

LEMMA LiftPacket ==
  ASSUME NEW i \in Ids, NEW last \in Garbage
  PROVE  LET k == lift_packet(i, last) IN
         /\ k \in Packets /\ k \in Seq(InputEvents) /\ Owner(k) = i
         /\ Clean(k) = (last.type # contact(1).type)
         /\ Clean(k) => Left(k) = Up
         /\ ~Clean(k) => \E p \in Positions : last = contact(p) /\ Left(k) = p
<1> DEFINE k == lift_packet(i, last)
<1>1. k = <<slot(i), lift, syn, last>>
  BY DEF lift_packet
<1>2. slot(i) \in InputEvents /\ lift \in InputEvents /\ syn \in InputEvents /\ last \in InputEvents
  BY DEF InputEvents, Garbage
<1>3. /\ k \in Seq(InputEvents) /\ Len(k) = 4
      /\ k[1] = slot(i) /\ k[2] = lift /\ k[3] = syn /\ k[4] = last
  BY <1>1, <1>2
<1>4. k \in Packets
  BY DEF Packets
<1> HIDE DEF k
<1>5. Owner(k) = i /\ Clean(k) = (last.type # contact(1).type)
  BY <1>3, EventTypes DEF Owner, Clean, Last
<1>6. Clean(k) => Left(k) = Up
  BY <1>3, EventTypes DEF Left
<1>7. ASSUME ~Clean(k) PROVE \E p \in Positions : last = contact(p) /\ Left(k) = p
  <2>1. PICK p \in Positions : last = contact(p)
    BY <1>5, <1>7, EventTypes DEF Garbage
  <2>2. Left(k) = last.at
    BY <1>3, <1>7 DEF Left, Last
  <2> QED BY <2>1, <2>2, EventTypes
<1> QED BY <1>3, <1>4, <1>5, <1>6, <1>7 DEF k

(* A packet puts its finger where it says and shows all the others as they *)
(* are, whatever slot was current.                                         *)
LEMMA ReadPacket == ASSUME NEW r \in Readers, NEW k \in Packets PROVE Reads(r, read_packet(r, k), k)
<1>1. ASSUME NEW i \in Ids, NEW p \in Positions, k = contact_packet(i, p)
      PROVE  Reads(r, read_packet(r, k), k)
  <2>1. k \in Seq(InputEvents) /\ Owner(k) = i /\ Clean(k) /\ Left(k) = p
    BY <1>1, ContactPacket
  <2>2. Len(k) = 3 /\ k[1] = slot(i) /\ k[2] = contact(p) /\ k[3] = syn
    BY <1>1 DEF contact_packet
  <2>3. PICK h \in [0 .. 3 -> Readers] :
          /\ h[0] = r /\ \A n \in 1 .. 3 : h[n] = read_event(h[n - 1], k[n])
          /\ read_packet(r, k) = h[3]
    <3>1. PICK h \in [0 .. Len(k) -> Readers] :
            /\ h[0] = r /\ \A n \in 1 .. Len(k) : h[n] = read_event(h[n - 1], k[n])
            /\ FoldLeft(read_event, r, k) = h[Len(k)]
      BY <2>1, EventFold
    <3>2. read_packet(r, k) = h[Len(k)]
      BY <3>1 DEF read_packet
    <3> QED BY <2>2, <3>1, <3>2
  <2>4. h[1] \in Readers /\ h[2] \in Readers /\ h[3] \in Readers
    OBVIOUS
  <2>5. /\ h[1] = [r EXCEPT !.slot = i] /\ h[2] = [h[1] EXCEPT !.contact[h[1].slot] = p]
        /\ h[3] = [h[2] EXCEPT !.shown = h[2].contact]
    BY <2>2, <2>3, <2>4, ReadEvent
  <2>6. h[1].slot = i /\ h[1].contact = r.contact
    BY <2>5 DEF Readers
  <2>7. h[2].contact = [r.contact EXCEPT ![i] = p]
    BY <2>4, <2>5, <2>6 DEF Readers
  <2>8. h[3].contact = h[2].contact /\ h[3].shown = h[2].contact
    BY <2>4, <2>5 DEF Readers
  <2>9. r.contact \in [Ids -> Places]
    BY DEF Readers
  <2> QED BY <2>1, <2>3, <2>4, <2>7, <2>8, <2>9 DEF Reads
<1>2. ASSUME NEW i \in Ids, NEW last \in Garbage, k = lift_packet(i, last)
      PROVE  Reads(r, read_packet(r, k), k)
  <2>1. k \in Seq(InputEvents) /\ Owner(k) = i
    BY <1>2, LiftPacket
  <2>2. Len(k) = 4 /\ k[1] = slot(i) /\ k[2] = lift /\ k[3] = syn /\ k[4] = last
    BY <1>2 DEF lift_packet
  <2>3. PICK h \in [0 .. 4 -> Readers] :
          /\ h[0] = r /\ \A n \in 1 .. 4 : h[n] = read_event(h[n - 1], k[n])
          /\ read_packet(r, k) = h[4]
    <3>1. PICK h \in [0 .. Len(k) -> Readers] :
            /\ h[0] = r /\ \A n \in 1 .. Len(k) : h[n] = read_event(h[n - 1], k[n])
            /\ FoldLeft(read_event, r, k) = h[Len(k)]
      BY <2>1, EventFold
    <3>2. read_packet(r, k) = h[Len(k)]
      BY <3>1 DEF read_packet
    <3> QED BY <2>2, <3>1, <3>2
  <2>4. h[1] \in Readers /\ h[2] \in Readers /\ h[3] \in Readers /\ h[4] \in Readers
    OBVIOUS
  <2>5. /\ h[1] = [r EXCEPT !.slot = i] /\ h[2] = [h[1] EXCEPT !.contact[h[1].slot] = Up]
        /\ h[3] = [h[2] EXCEPT !.shown = h[2].contact] /\ h[4] = read_event(h[3], last)
    BY <2>2, <2>3, <2>4, ReadEvent
  <2>6. h[1].slot = i /\ h[1].contact = r.contact
    BY <2>5 DEF Readers
  <2>7. h[2].contact = [r.contact EXCEPT ![i] = Up] /\ h[2].slot = i
    BY <2>4, <2>5, <2>6 DEF Readers
  <2>8. h[3].contact = h[2].contact /\ h[3].shown = h[2].contact /\ h[3].slot = i
    BY <2>4, <2>5, <2>7 DEF Readers
  <2>9. r.contact \in [Ids -> Places]
    BY DEF Readers
  <2>10. CASE Clean(k)
    <3>1. last = noise \/ \E j \in Ids : last = slot(j)
      BY <1>2, <2>10, LiftPacket, EventTypes DEF Garbage
    <3>2. read_event(h[3], noise) = h[3] /\ \A j : read_event(h[3], slot(j)) = [h[3] EXCEPT !.slot = j]
      BY <2>4, ReadEvent
    <3>3. h[4].contact = h[3].contact /\ h[4].shown = h[3].shown
      <4>1. CASE last = noise
        BY <2>5, <3>2, <4>1
      <4>2. ASSUME NEW j \in Ids, last = slot(j) PROVE h[4].contact = h[3].contact /\ h[4].shown = h[3].shown
        <5>1. h[4] = [h[3] EXCEPT !.slot = j]
          BY <2>5, <3>2, <4>2
        <5> QED BY <2>4, <5>1 DEF Readers
      <4> QED BY <3>1, <4>1, <4>2
    <3>4. Left(k) = Up
      BY <1>2, <2>10, LiftPacket
    <3> QED BY <2>1, <2>3, <2>4, <2>7, <2>8, <2>9, <3>3, <3>4 DEF Reads
  <2>11. CASE ~Clean(k)
    <3>1. PICK p \in Positions : last = contact(p) /\ Left(k) = p
      BY <1>2, <2>11, LiftPacket
    <3>2. h[4] = [h[3] EXCEPT !.contact[h[3].slot] = p]
      <4>1. read_event(h[3], contact(p)) = [h[3] EXCEPT !.contact[h[3].slot] = p]
        BY <2>4, ReadEvent
      <4> QED BY <2>5, <3>1, <4>1
    <3>3. h[4].contact = [h[3].contact EXCEPT ![i] = p] /\ h[4].shown = h[3].shown
      BY <2>4, <2>8, <3>2 DEF Readers
    <3> QED BY <2>1, <2>3, <2>4, <2>7, <2>8, <2>9, <2>11, <3>1, <3>3 DEF Reads
  <2> QED BY <2>10, <2>11
<1> QED BY <1>1, <1>2 DEF Packets

LEMMA ReadPacketType == ASSUME NEW r \in Readers, NEW k \in Packets PROVE read_packet(r, k) \in Readers
BY ReadPacket DEF Reads

(* The reader after each packet: EventFold once more.                      *)
LEMMA PacketFold ==
  ASSUME NEW r \in Readers, NEW ps \in Seq(Packets)
  PROVE  \E h \in [0 .. Len(ps) -> Readers] :
           /\ h[0] = r /\ \A k \in 1 .. Len(ps) : h[k] = read_packet(h[k - 1], ps[k])
           /\ FoldLeft(read_packet, r, ps) = h[Len(ps)]
<1> DEFINE N == Len(ps)
           step == [x \in Readers \X (1 .. N) |-> read_packet(x[1], ps[x[2]])]
           P(f) == f = [s \in SUBSET DOMAIN ps |->
                          IF s = {} THEN r ELSE read_packet(f[s \ {Max(s)}], ps[Max(s)])]
           it == CHOOSE f : P(f)
<1>1. N \in Nat /\ DOMAIN ps = 1 .. N /\ \A k \in 1 .. N : ps[k] \in Packets
  OBVIOUS
<1>2. step \in [Readers \X (1 .. N) -> Readers]
  <2> SUFFICES ASSUME NEW x \in Readers \X (1 .. N) PROVE read_packet(x[1], ps[x[2]]) \in Readers
    OBVIOUS
  <2>1. x[1] \in Readers /\ x[2] \in 1 .. N
    OBVIOUS
  <2> QED BY <1>1, <2>1, ReadPacketType
<1>3. PICK g \in [SUBSET (1 .. N) -> Readers] : solves(g, step, r, N)
  <2> HIDE DEF N, step
  <2> QED BY <1>1, <1>2, FoldExists
<1>4. P(g)
  <2>1. ASSUME NEW s \in SUBSET (1 .. N), s # {}
        PROVE  step[<<g[s \ {Max(s)}], Max(s)>>] = read_packet(g[s \ {Max(s)}], ps[Max(s)])
    <3>1. Max(s) \in 1 .. N
      BY <1>1, <2>1, MaxOf
    <3>2. g[s \ {Max(s)}] \in Readers
      BY <3>1
    <3> QED BY <3>1, <3>2
  <2> HIDE DEF step, N
  <2> QED BY <1>1, <1>3, <2>1 DEF solves
<1>5. P(it)
  BY <1>4
<1>6. FoldLeft(read_packet, r, ps) = it[DOMAIN ps]
  BY DEF FoldLeft, MapThenFoldSet
<1> HIDE DEF it
<1>7. it[1 .. 0] = r
  BY <1>5
<1>8. \A k \in 1 .. N : it[1 .. k] = read_packet(it[1 .. k - 1], ps[k])
  <2> TAKE k \in 1 .. N
  <2> DEFINE S == 1 .. k
  <2>1. S \in SUBSET DOMAIN ps /\ S # {} /\ Max(S) = k /\ S \ {k} = 1 .. k - 1
    <3> HIDE DEF N
    <3> QED BY <1>1, AtPrefix
  <2>2. it[S] = IF S = {} THEN r ELSE read_packet(it[S \ {Max(S)}], ps[Max(S)])
    <3> HIDE DEF S
    <3> QED BY <1>5, <2>1
  <2> HIDE DEF S
  <2> QED BY <2>1, <2>2 DEF S
<1> HIDE DEF P
<1> DEFINE h == [k \in 0 .. N |-> it[1 .. k]]
           T == {k \in 0 .. N : it[1 .. k] \in Readers}
<1>9. \A k \in 0 .. N : k \in T
  <2>1. 0 \in T
    BY <1>1, <1>7
  <2>2. ASSUME NEW k \in 1 .. N, k - 1 \in T PROVE k \in T
    BY <1>1, <1>8, <2>2, ReadPacketType
  <2> HIDE DEF T, N
  <2> QED BY <1>1, <2>1, <2>2, UpTo
<1> HIDE DEF N
<1>10. h \in [0 .. N -> Readers] /\ h[0] = r /\ h[N] = it[1 .. N]
  BY <1>1, <1>7, <1>9
<1>11. \A k \in 1 .. N : h[k] = read_packet(h[k - 1], ps[k])
  BY <1>1, <1>8
<1> HIDE DEF h
<1> QED BY <1>1, <1>6, <1>10, <1>11 DEF N

FoldOf(r, ps) == FoldLeft(read_packet, r, ps)

LEMMA FoldNone == ASSUME NEW r \in Readers PROVE FoldOf(r, <<>>) = r
<1>1. <<>> \in Seq(Packets) /\ Len(<<>>) = 0
  OBVIOUS
<1>2. PICK h \in [0 .. Len(<<>>) -> Readers] : h[0] = r /\ FoldLeft(read_packet, r, <<>>) = h[Len(<<>>)]
  BY <1>1, PacketFold
<1> QED BY <1>1, <1>2 DEF FoldOf

(* A packet that is written changes what is told as if it were read last.  *)
LEMMA FoldAppend ==
  ASSUME NEW r \in Readers, NEW ps \in Seq(Packets), NEW k \in Packets
  PROVE  FoldOf(r, ps) \in Readers /\ FoldOf(r, Append(ps, k)) = read_packet(FoldOf(r, ps), k)
<1> DEFINE N == Len(ps)  qs == Append(ps, k)
<1>1. /\ N \in Nat /\ qs \in Seq(Packets) /\ Len(qs) = N + 1 /\ qs[N + 1] = k
      /\ \A n \in 1 .. N : qs[n] = ps[n]
  OBVIOUS
<1>2. PICK g \in [0 .. N -> Readers] :
        /\ g[0] = r /\ \A n \in 1 .. N : g[n] = read_packet(g[n - 1], ps[n])
        /\ FoldLeft(read_packet, r, ps) = g[N]
  BY PacketFold
<1> HIDE DEF N, qs
<1>3. PICK h \in [0 .. Len(qs) -> Readers] :
        /\ h[0] = r /\ \A n \in 1 .. Len(qs) : h[n] = read_packet(h[n - 1], qs[n])
        /\ FoldLeft(read_packet, r, qs) = h[Len(qs)]
  BY <1>1, PacketFold
<1> DEFINE T == {n \in 0 .. N : h[n] = g[n]}
<1>4. \A n \in 0 .. N : n \in T
  <2>1. 0 \in T
    BY <1>1, <1>2, <1>3
  <2>2. ASSUME NEW n \in 1 .. N, n - 1 \in T PROVE n \in T
    <3>1. n \in 1 .. Len(qs) /\ qs[n] = ps[n] /\ h[n - 1] = g[n - 1]
      BY <1>1, <2>2
    <3>2. h[n] = read_packet(h[n - 1], qs[n]) /\ g[n] = read_packet(g[n - 1], ps[n])
      BY <1>2, <1>3, <3>1
    <3> QED BY <1>1, <3>1, <3>2
  <2> HIDE DEF T
  <2> QED BY <1>1, <2>1, <2>2, UpTo
<1>5. h[N] = g[N] /\ h[N + 1] = read_packet(h[N], k)
  BY <1>1, <1>3, <1>4
<1>6. FoldOf(r, ps) = g[N] /\ g[N] \in Readers
  BY <1>1, <1>2 DEF FoldOf
<1>7. FoldOf(r, qs) = h[N + 1]
  BY <1>1, <1>3 DEF FoldOf
<1> QED BY <1>5, <1>6, <1>7 DEF qs

(* Reading a packet changes nothing of what is told.                       *)
LEMMA FoldTail ==
  ASSUME NEW r \in Readers, NEW ps \in Seq(Packets), ps # <<>>
  PROVE  FoldOf(read_packet(r, Head(ps)), Tail(ps)) = FoldOf(r, ps)
<1> DEFINE N == Len(ps)  ts == Tail(ps)  q == read_packet(r, Head(ps))
<1>1. /\ N \in Nat \ {0} /\ ts \in Seq(Packets) /\ Len(ts) = N - 1 /\ Head(ps) = ps[1]
      /\ Head(ps) \in Packets /\ \A n \in 1 .. N - 1 : ts[n] = ps[n + 1]
  OBVIOUS
<1>2. q \in Readers
  BY <1>1, ReadPacketType
<1>3. PICK g \in [0 .. N -> Readers] :
        /\ g[0] = r /\ \A n \in 1 .. N : g[n] = read_packet(g[n - 1], ps[n])
        /\ FoldLeft(read_packet, r, ps) = g[N]
  BY PacketFold
<1>4. g[1] = q
  BY <1>1, <1>3
<1> HIDE DEF N, ts, q
<1>5. PICK h \in [0 .. Len(ts) -> Readers] :
        /\ h[0] = q /\ \A n \in 1 .. Len(ts) : h[n] = read_packet(h[n - 1], ts[n])
        /\ FoldLeft(read_packet, q, ts) = h[Len(ts)]
  BY <1>1, <1>2, PacketFold
<1> DEFINE T == {n \in 0 .. N - 1 : h[n] = g[n + 1]}
<1>6. \A n \in 0 .. N - 1 : n \in T
  <2>1. 0 \in T
    BY <1>1, <1>4, <1>5
  <2>2. ASSUME NEW n \in 1 .. N - 1, n - 1 \in T PROVE n \in T
    <3>1. h[n - 1] = g[n] /\ (n + 1) - 1 = n /\ n + 1 \in 1 .. N /\ n \in 1 .. Len(ts)
      BY <1>1, <2>2
    <3>2. h[n] = read_packet(g[n], ts[n]) /\ g[n + 1] = read_packet(g[n], ps[n + 1])
      BY <1>3, <1>5, <3>1
    <3> QED BY <1>1, <3>2
  <2>3. N - 1 \in Nat
    BY <1>1
  <2> HIDE DEF T
  <2> QED BY <2>1, <2>2, <2>3, UpTo
<1>7. h[N - 1] = g[N]
  BY <1>1, <1>6
<1> QED BY <1>1, <1>3, <1>5, <1>7 DEF FoldOf, N, ts, q

(* What is told of a finger does not depend on what the reader knew of     *)
(* others, nor on its slot.                                                *)
LEMMA FoldAgrees ==
  ASSUME NEW r \in Readers, NEW q \in Readers, NEW ps \in Seq(Packets), NEW i \in Ids,
         r.contact[i] = q.contact[i]
  PROVE  FoldOf(r, ps).contact[i] = FoldOf(q, ps).contact[i]
<1> DEFINE N == Len(ps)
<1>1. N \in Nat /\ \A n \in 1 .. N : ps[n] \in Packets
  OBVIOUS
<1>2. PICK g \in [0 .. N -> Readers] :
        /\ g[0] = r /\ \A n \in 1 .. N : g[n] = read_packet(g[n - 1], ps[n])
        /\ FoldLeft(read_packet, r, ps) = g[N]
  BY PacketFold
<1>3. PICK h \in [0 .. N -> Readers] :
        /\ h[0] = q /\ \A n \in 1 .. N : h[n] = read_packet(h[n - 1], ps[n])
        /\ FoldLeft(read_packet, q, ps) = h[N]
  BY PacketFold
<1> HIDE DEF N
<1> DEFINE T == {n \in 0 .. N : g[n].contact[i] = h[n].contact[i]}
<1>4. \A n \in 0 .. N : n \in T
  <2>1. 0 \in T
    BY <1>1, <1>2, <1>3
  <2>2. ASSUME NEW n \in 1 .. N, n - 1 \in T PROVE n \in T
    <3>1. g[n - 1] \in Readers /\ h[n - 1] \in Readers /\ g[n - 1].contact[i] = h[n - 1].contact[i]
      BY <1>1, <2>2
    <3>2. Reads(g[n - 1], g[n], ps[n]) /\ Reads(h[n - 1], h[n], ps[n])
      BY <1>1, <1>2, <1>3, <3>1, ReadPacket
    <3>3. g[n].contact[i] = h[n].contact[i]
      BY <3>1, <3>2 DEF Reads
    <3> QED BY <1>1, <3>3
  <2> HIDE DEF T
  <2> QED BY <1>1, <2>1, <2>2, UpTo
<1>5. g[N].contact[i] = h[N].contact[i]
  BY <1>1, <1>4
<1> QED BY <1>2, <1>3, <1>5 DEF FoldOf

-----------------------------------------------------------------------------
(* The invariant.                                                          *)

(* Touch events name an object that was made; a finger that goes up or     *)
(* away is nowhere.                                                        *)
ProperEvents(n) == {e \in Events : e.what \in TouchKinds =>
                      /\ e \in TouchEvents /\ e.to \in 1 .. n
                      /\ IF e.what \in {"up", "cancel"} THEN e.at = Up ELSE e.at \in Positions}

(* Events that say where finger i is: touches of it, a cancel, and that    *)
(* the seat has no touch any more.                                         *)
About(e, i) == \/ e.what \in TouchKinds /\ (e.what = "cancel" \/ e.id = i)
               \/ e.what = "capabilities" /\ ~e.touch
Puts(e)     == IF e.what = "capabilities" THEN Up ELSE e.at

LastPuts(es, i, v) == \A k \in 1 .. Len(es) :
  About(es[k], i) /\ (\A m \in k + 1 .. Len(es) : ~About(es[m], i)) => Puts(es[k]) = v
Silent(es, i) == \A k \in 1 .. Len(es) : ~About(es[k], i)

(* What of TypeOK is about the input.                                      *)
InputType ==
  /\ fingers \in [Ids -> Places] /\ excused \in SUBSET Ids /\ reader \in Readers
  /\ pipe \in Seq(Packets) /\ Len(pipe) <= PipeSize /\ (pipe # <<>> => input_fd)
  /\ events \in Seq(ProperEvents(made)) /\ (field["touch"] = "bound" => made > 0)

(* The last event about a finger says where it is; when there is none, the *)
(* last packet about it does, unless it is excused.                        *)
FingersInv ==
  connected \/ opening = "connect" =>
    \A i \in Ids : /\ LastPuts(events, i, fingers[i])
                   /\ Silent(events, i) /\ i \notin excused => Told.contact[i] = fingers[i]

(* A client without a wl_touch and a seat without touch know of no finger. *)
SeatInv ==
  /\ ~seatTouch => fingers = NoContact
  /\ touches = {} => \A i \in Ids \ excused : Told.contact[i] = Up

(* What is not yet shown as it is has a packet to come, and so has what a  *)
(* stray event puts down.                                                  *)
ShownInv ==
  /\ \A i \in Ids \ excused : \/ reader.shown[i] = reader.contact[i]
                              \/ \E k \in 1 .. Len(pipe) : Owner(pipe[k]) = i
  /\ \A k \in 1 .. Len(pipe) :
       ~Clean(pipe[k]) => \/ Owner(pipe[k]) \in excused
                          \/ \E m \in k + 1 .. Len(pipe) : Owner(pipe[m]) = Owner(pipe[k])

InputInv == InputType /\ FingersInv /\ SeatInv /\ ShownInv

LEMMA ProperSeq ==
  ASSUME NEW n \in Nat, NEW m \in Nat, n <= m, NEW es \in Seq(ProperEvents(n))
  PROVE  es \in Seq(Events) /\ es \in Seq(ProperEvents(m))
<1>1. ProperEvents(n) \subseteq Events /\ ProperEvents(n) \subseteq ProperEvents(m)
  BY DEF ProperEvents
<1>2. Len(es) \in Nat /\ DOMAIN es = 1 .. Len(es) /\ \A k \in 1 .. Len(es) : es[k] \in ProperEvents(n)
  OBVIOUS
<1>3. es \in [1 .. Len(es) -> Events] /\ es \in [1 .. Len(es) -> ProperEvents(m)]
  BY <1>1, <1>2
<1> QED BY <1>2, <1>3

(* What is not about i.                                                    *)
LEMMA OtherEvents ==
  ASSUME NEW i
  PROVE  /\ ~About(done, i) /\ ~About(configure, i) /\ ~About(capabilities(TRUE), i)
         /\ \A g \in Bound \union {OldDmabuf} : ~About(global(g), i)
         /\ About(capabilities(FALSE), i) /\ Puts(capabilities(FALSE)) = Up
BY Kinds DEF About, Puts, TouchKinds

(* ds says of i what es says.                                              *)
Keeps(es, ds, i) == /\ \A v : LastPuts(es, i, v) => LastPuts(ds, i, v)
                    /\ Silent(ds, i) => Silent(es, i)

LEMMA LastTail ==
  ASSUME NEW es \in Seq(Events), es # <<>>, NEW i
  PROVE  /\ \A v : LastPuts(es, i, v) => /\ LastPuts(Tail(es), i, v)
                                         /\ Silent(Tail(es), i) /\ About(Head(es), i) => Puts(Head(es)) = v
         /\ ~About(Head(es), i) => Keeps(es, Tail(es), i)
<1> DEFINE ts == Tail(es)
<1>1. /\ Len(es) \in Nat \ {0} /\ Len(ts) = Len(es) - 1 /\ Head(es) = es[1]
      /\ \A k \in 1 .. Len(ts) : ts[k] = es[k + 1] /\ k + 1 \in 1 .. Len(es)
      /\ \A k \in 2 .. Len(es) : k - 1 \in 1 .. Len(ts) /\ ts[k - 1] = es[k]
  BY Tails
<1> HIDE DEF ts
<1>2. ASSUME NEW v, LastPuts(es, i, v) PROVE LastPuts(ts, i, v)
  <2> SUFFICES ASSUME NEW k \in 1 .. Len(ts), About(ts[k], i),
                      \A m \in k + 1 .. Len(ts) : ~About(ts[m], i)
               PROVE  Puts(ts[k]) = v
    BY DEF LastPuts
  <2>1. \A m \in (k + 1) + 1 .. Len(es) : m - 1 \in k + 1 .. Len(ts) /\ es[m] = ts[m - 1]
    BY <1>1
  <2> QED BY <1>1, <1>2, <2>1 DEF LastPuts
<1>3. ASSUME NEW v, LastPuts(es, i, v), Silent(ts, i), About(Head(es), i) PROVE Puts(Head(es)) = v
  <2>1. \A m \in 1 + 1 .. Len(es) : ~About(es[m], i)
    BY <1>1, <1>3 DEF Silent
  <2> QED BY <1>1, <1>3, <2>1 DEF LastPuts
<1>4. ASSUME ~About(Head(es), i), Silent(ts, i) PROVE Silent(es, i)
  <2> SUFFICES ASSUME NEW k \in 1 .. Len(es) PROVE ~About(es[k], i)
    BY DEF Silent
  <2>1. k = 1 \/ k \in 2 .. Len(es)
    BY <1>1
  <2> QED BY <1>1, <1>4, <2>1 DEF Silent
<1> QED BY <1>2, <1>3, <1>4 DEF Keeps, ts

LEMMA LastJoin ==
  ASSUME NEW es \in Seq(Events), NEW fs \in Seq(Events), NEW i,
         \A k \in 1 .. Len(fs) : ~About(fs[k], i)
  PROVE  Keeps(es, es \o fs, i)
<1> DEFINE js == es \o fs
<1>1. /\ Len(es) \in Nat /\ Len(fs) \in Nat /\ Len(js) = Len(es) + Len(fs)
      /\ \A k \in 1 .. Len(es) : js[k] = es[k] /\ k \in 1 .. Len(js)
      /\ \A k \in Len(es) + 1 .. Len(js) : ~About(js[k], i)
  <2>1. \A k \in Len(es) + 1 .. Len(es) + Len(fs) : k - Len(es) \in 1 .. Len(fs)
    BY Joins
  <2> QED BY <2>1, Joins
<1> HIDE DEF js
<1>2. ASSUME NEW v, LastPuts(es, i, v) PROVE LastPuts(js, i, v)
  <2> SUFFICES ASSUME NEW k \in 1 .. Len(js), About(js[k], i),
                      \A m \in k + 1 .. Len(js) : ~About(js[m], i)
               PROVE  Puts(js[k]) = v
    BY DEF LastPuts
  <2>1. k \in 1 .. Len(es) /\ js[k] = es[k]
    BY <1>1
  <2>2. \A m \in k + 1 .. Len(es) : ~About(es[m], i)
    BY <1>1, <2>1
  <2> QED BY <1>2, <2>1, <2>2 DEF LastPuts
<1>3. ASSUME Silent(js, i) PROVE Silent(es, i)
  BY <1>1, <1>3 DEF Silent
<1> QED BY <1>2, <1>3 DEF Keeps, js

LEMMA LastNew ==
  ASSUME NEW es \in Seq(Events), NEW e \in Events, NEW i
  PROVE  /\ es \o <<e>> \in Seq(Events)
         /\ About(e, i) => LastPuts(es \o <<e>>, i, Puts(e)) /\ ~Silent(es \o <<e>>, i)
         /\ ~About(e, i) => Keeps(es, es \o <<e>>, i)
<1> DEFINE js == es \o <<e>>
<1>1. <<e>> \in Seq(Events) /\ Len(<<e>>) = 1 /\ <<e>>[1] = e
  OBVIOUS
<1>2. Len(es) \in Nat /\ Len(js) = Len(es) + 1 /\ js[Len(es) + 1] = e /\ js \in Seq(Events)
  BY <1>1, Joins
<1>3. ASSUME ~About(e, i) PROVE Keeps(es, js, i)
  <2> DEFINE fs == <<e>>
  <2>1. fs \in Seq(Events) /\ \A k \in 1 .. Len(fs) : ~About(fs[k], i)
    BY <1>1, <1>3
  <2> HIDE DEF fs
  <2>2. Keeps(es, es \o fs, i)
    BY <2>1, LastJoin
  <2> QED BY <2>2 DEF fs
<1> HIDE DEF js
<1>4. ASSUME About(e, i) PROVE LastPuts(js, i, Puts(e)) /\ ~Silent(js, i)
  <2>1. ~Silent(js, i)
    BY <1>2, <1>4 DEF Silent
  <2>2. ASSUME NEW k \in 1 .. Len(js), \A m \in k + 1 .. Len(js) : ~About(js[m], i)
        PROVE  js[k] = e
    BY <1>2, <1>4, <2>2
  <2> QED BY <2>1, <2>2 DEF LastPuts
<1> QED BY <1>2, <1>3, <1>4 DEF js

-----------------------------------------------------------------------------
(* The steps.                                                              *)

LEMMA ToldIs == Told = FoldOf(reader, pipe) /\ Told' = FoldOf(reader', pipe')
BY DEF Told, FoldOf

LEMMA ToldType == ASSUME InputInv PROVE Told \in Readers
<1>1. PICK h \in [0 .. Len(pipe) -> Readers] : FoldLeft(read_packet, reader, pipe) = h[Len(pipe)]
  BY PacketFold DEF InputInv, InputType
<1>2. Len(pipe) \in 0 .. Len(pipe)
  BY DEF InputInv, InputType
<1> QED BY <1>1, <1>2 DEF Told

LEMMA Under == ASSUME DisplayInv, InputInv PROVE made \in Nat /\ events \in Seq(Events) /\ events \in Seq(ProperEvents(made))
BY DEF DisplayInv, DisplayType, InputInv, InputType

(* A finger of which an event is read, and one of which none is.           *)
LEMMA FingersTail ==
  ASSUME DisplayInv, InputInv, events # <<>>, events' = Tail(events), fingers' = fingers,
         \A i \in Ids \ excused' :
           /\ About(Head(events), i) => Told'.contact[i] = Puts(Head(events))
           /\ ~About(Head(events), i) => i \notin excused /\ Told'.contact[i] = Told.contact[i]
  PROVE  FingersInv'
<1> SUFFICES ASSUME NEW i \in Ids
             PROVE  /\ LastPuts(events', i, fingers[i])
                    /\ Silent(events', i) /\ i \notin excused' => Told'.contact[i] = fingers[i]
  BY DEF FingersInv
<1>1. events \in Seq(Events) /\ connected
  BY Under DEF DisplayInv, DisplayType
<1>2. /\ LastPuts(events, i, fingers[i])
      /\ Silent(events, i) /\ i \notin excused => Told.contact[i] = fingers[i]
  BY <1>1 DEF InputInv, FingersInv
<1>3. /\ LastPuts(events', i, fingers[i])
      /\ Silent(events', i) /\ About(Head(events), i) => Puts(Head(events)) = fingers[i]
      /\ ~About(Head(events), i) => Keeps(events, events', i)
  BY <1>1, <1>2, LastTail
<1> QED BY <1>2, <1>3 DEF Keeps

(* An event is sent about fingers that moved.                              *)
LEMMA FingersNew ==
  ASSUME DisplayInv, InputInv, connected, NEW e \in Events, events' = events \o <<e>>,
         UNCHANGED <<pipe, reader, excused>>,
         \A i \in Ids : fingers'[i] = IF About(e, i) THEN Puts(e) ELSE fingers[i]
  PROVE  FingersInv'
<1> SUFFICES ASSUME NEW i \in Ids
             PROVE  /\ LastPuts(events', i, fingers'[i])
                    /\ Silent(events', i) /\ i \notin excused => Told'.contact[i] = fingers'[i]
  BY DEF FingersInv
<1>1. events \in Seq(Events)
  BY Under
<1>2. /\ LastPuts(events, i, fingers[i])
      /\ Silent(events, i) /\ i \notin excused => Told.contact[i] = fingers[i]
  BY DEF InputInv, FingersInv
<1>3. Told' = Told
  BY ToldIs
<1>4. /\ About(e, i) => LastPuts(events', i, Puts(e)) /\ ~Silent(events', i)
      /\ ~About(e, i) => Keeps(events, events', i)
  BY <1>1, LastNew
<1> QED BY <1>2, <1>3, <1>4 DEF Keeps

-----------------------------------------------------------------------------
(* What happens to the display says nothing of the fingers, except that    *)
(* the seat has no touch, when it has none.                                *)
LEMMA DisplayOnly ==
  ASSUME DisplayInv, InputInv, UNCHANGED input, UNCHANGED <<seatTouch, touches, made>>,
         field'["touch"] = field["touch"], events' \in Seq(ProperEvents(made)),
         connected' \/ opening' = "connect" =>
           /\ connected \/ opening = "connect"
           /\ \A i \in Ids :
                \/ Keeps(events, events', i)
                \/ ~seatTouch /\ LastPuts(events', i, Up) /\ ~Silent(events', i)
  PROVE  InputInv'
<1> USE DEF InputInv
<1>1. Told' = Told
  BY ToldIs DEF input
<1>2. InputType' /\ SeatInv' /\ ShownInv'
  BY <1>1 DEF InputType, SeatInv, ShownInv, input
<1>3. FingersInv'
  <2> SUFFICES ASSUME connected' \/ opening' = "connect", NEW i \in Ids
               PROVE  /\ LastPuts(events', i, fingers[i])
                      /\ Silent(events', i) /\ i \notin excused => Told.contact[i] = fingers[i]
    BY <1>1 DEF FingersInv, input
  <2>1. /\ LastPuts(events, i, fingers[i])
        /\ Silent(events, i) /\ i \notin excused => Told.contact[i] = fingers[i]
    BY DEF FingersInv
  <2>2. ~seatTouch => fingers[i] = Up
    BY DEF SeatInv, NoContact
  <2> QED BY <2>1, <2>2 DEF Keeps
<1> QED BY <1>2, <1>3

(* Without a connection nobody knows of fingers any more.                  *)
LEMMA LossInput ==
  ASSUME DisplayInv, InputInv, UNCHANGED <<input, server, memory>>,
         connected' = FALSE, events' = <<>>, opening' # "connect"
  PROVE  InputInv'
<1>1. <<>> \in Seq(ProperEvents(made))
  OBVIOUS
<1> QED BY <1>1, DisplayOnly DEF server, memory

(* What a handler writes, unless the pipe is broken.                       *)
LEMMA WriteStep ==
  ASSUME DisplayInv, InputInv, events # <<>>, NEW id \in Ids, NEW k \in Packets, Owner(k) = id,
         \A i : About(Head(events), i) <=> i = id,
         Clean(k) => Left(k) = Puts(Head(events)), touches # {}, write(id, k), ~broken_pipe
  PROVE  InputInv'
<1> USE DEF InputInv
<1>1. events' = Tail(events) /\ UNCHANGED <<server, memory, fingers, reader>> /\ input_fd' = ensure_pipe
  BY DEF write, delivered, lost
<1>2. \/ /\ ensure_pipe /\ Len(pipe) < PipeSize /\ pipe' = Append(pipe, k)
         /\ excused' = IF Clean(k) THEN excused \ {id} ELSE excused \union {id}
      \/ pipe' = pipe /\ excused' = excused \union {id}
  BY DEF write, delivered, lost, Clean
<1>3. events' \in Seq(ProperEvents(made))
  BY <1>1, Under
<1>4. Told \in Readers /\ pipe \in Seq(Packets) /\ reader \in Readers /\ excused \in SUBSET Ids
  BY ToldType DEF InputType
<1>5. SeatInv'
  BY <1>1 DEF SeatInv, server, memory
<1>6. CASE ensure_pipe /\ Len(pipe) < PipeSize /\ pipe' = Append(pipe, k)
             /\ excused' = IF Clean(k) THEN excused \ {id} ELSE excused \union {id}
  <2> DEFINE N == Len(pipe)
  <2>1. /\ N \in Nat /\ pipe' \in Seq(Packets) /\ Len(pipe') = N + 1 /\ pipe'[N + 1] = k
        /\ \A n \in 1 .. N : pipe'[n] = pipe[n]
    BY <1>4, <1>6
  <2> HIDE DEF N
  <2>2. InputType'
    <3>1. N + 1 <= PipeSize
      BY <1>6, <2>1, TouchAssumption DEF N
    <3>2. excused' \in SUBSET Ids
      BY <1>4, <1>6
    <3> QED BY <1>1, <1>3, <1>6, <2>1, <3>1, <3>2 DEF InputType, memory
  <2>3. FingersInv'
    <3>1. Reads(Told, Told', k)
      <4>1. Told' = read_packet(Told, k)
        BY <1>1, <1>4, <1>6, ToldIs, FoldAppend
      <4> QED BY <1>4, <4>1, ReadPacket
    <3>2. \A i \in Ids \ excused' :
            /\ i = id => Told'.contact[i] = Puts(Head(events))
            /\ i # id => i \notin excused /\ Told'.contact[i] = Told.contact[i]
      BY <1>6, <3>1 DEF Reads
    <3> QED BY <1>1, <3>2, FingersTail
  <2>4. ShownInv'
    <3>1. ASSUME NEW i \in Ids \ excused'
          PROVE  \/ reader'.shown[i] = reader'.contact[i]
                 \/ \E n \in 1 .. Len(pipe') : Owner(pipe'[n]) = i
      <4>1. CASE i = id
        BY <2>1, <4>1
      <4>2. CASE i # id
        BY <1>1, <1>6, <2>1, <4>2 DEF ShownInv, N
      <4> QED BY <4>1, <4>2
    <3>2. ASSUME NEW n \in 1 .. Len(pipe'), ~Clean(pipe'[n])
          PROVE  \/ Owner(pipe'[n]) \in excused'
                 \/ \E m \in n + 1 .. Len(pipe') : Owner(pipe'[m]) = Owner(pipe'[n])
      <4>1. CASE n = N + 1
        BY <1>6, <2>1, <3>2, <4>1
      <4>2. CASE n # N + 1
        <5>1. n \in 1 .. N /\ pipe'[n] = pipe[n]
          BY <2>1, <4>2
        <5>2. CASE Owner(pipe[n]) = id
          BY <2>1, <5>1, <5>2
        <5>3. CASE Owner(pipe[n]) # id
          <6>1. Owner(pipe[n]) \in excused \/ \E m \in n + 1 .. N : Owner(pipe[m]) = Owner(pipe[n])
            BY <3>2, <5>1 DEF ShownInv, N
          <6>2. Owner(pipe[n]) \in excused => Owner(pipe[n]) \in excused'
            BY <1>6, <5>3
          <6> QED BY <2>1, <5>1, <6>1, <6>2
        <5> QED BY <5>2, <5>3
      <4> QED BY <4>1, <4>2
    <3> QED BY <3>1, <3>2 DEF ShownInv
  <2> QED BY <1>5, <2>2, <2>3, <2>4
<1>7. CASE pipe' = pipe /\ excused' = excused \union {id}
  <2>1. InputType'
    BY <1>1, <1>3, <1>4, <1>7 DEF InputType, memory, ensure_pipe
  <2>2. Told' = Told
    BY <1>1, <1>7, ToldIs
  <2>3. FingersInv'
    BY <1>1, <1>7, <2>2, FingersTail
  <2>4. ShownInv'
    BY <1>1, <1>7 DEF ShownInv
  <2> QED BY <1>5, <2>1, <2>3, <2>4
<1> QED BY <1>2, <1>6, <1>7

(* The kind of a touch event says what is in it.                           *)
LEMMA TouchEvent ==
  ASSUME DisplayInv, InputInv, events # <<>>, Head(events).what \in TouchKinds
  PROVE  LET e == Head(events) IN
         /\ e \in TouchEvents /\ e.id \in Ids /\ Puts(e) = e.at
         /\ e.what \in {"up", "cancel"} => e.at = Up
         /\ e.what \in {"down", "motion"} => e.at \in Positions
         /\ e.what # "cancel" => \A i : About(e, i) <=> i = e.id
         /\ e.what = "cancel" => \A i : About(e, i)
<1> DEFINE e == Head(events)
<1>1. e \in ProperEvents(made)
  BY Under
<1>2. e \in TouchEvents /\ (IF e.what \in {"up", "cancel"} THEN e.at = Up ELSE e.at \in Positions)
  BY <1>1 DEF ProperEvents
<1>3. e.id \in Ids
  BY <1>2 DEF TouchEvents
<1> HIDE DEF e
<1>4. e.what \in TouchKinds
  BY DEF e
<1> QED BY <1>2, <1>3, <1>4 DEF About, Puts, TouchKinds, e

LEMMA WriteSteps ==
  ASSUME DisplayInv, InputInv, touch_handle_down \/ touch_handle_motion \/ touch_handle_up
  PROVE  InputInv'
<1> DEFINE e == Head(events)
<1>1. CASE (touch_handle_down \/ touch_handle_motion) /\ ~broken_pipe
  <2>1. /\ events # <<>> /\ e.what \in {"down", "motion"} /\ touches # {}
        /\ write(e.id, contact_packet(e.id, e.at))
    BY <1>1, Arrived DEF touch_handle_down, touch_handle_motion, arrived_at
  <2>2. e.id \in Ids /\ e.at \in Positions /\ Puts(e) = e.at /\ \A i : About(e, i) <=> i = e.id
    BY <2>1, TouchEvent DEF TouchKinds
  <2> DEFINE k == contact_packet(e.id, e.at)
  <2>3. k \in Packets /\ Owner(k) = e.id /\ Left(k) = e.at
    BY <2>2, ContactPacket
  <2> HIDE DEF k, e
  <2>4. write(e.id, k)
    BY <2>1 DEF k
  <2> QED BY <2>1, <2>2, <2>3, <2>4, <1>1, WriteStep DEF e
<1>2. CASE touch_handle_up /\ ~broken_pipe
  <2>1. PICK last \in Garbage : events # <<>> /\ e.what = "up" /\ touches # {} /\ write(e.id, lift_packet(e.id, last))
    BY <1>2, Arrived DEF touch_handle_up, arrived_at
  <2>2. e.id \in Ids /\ Puts(e) = Up /\ \A i : About(e, i) <=> i = e.id
    BY <2>1, TouchEvent DEF TouchKinds
  <2> DEFINE k == lift_packet(e.id, last)
  <2>3. k \in Packets /\ Owner(k) = e.id /\ (Clean(k) => Left(k) = Up)
    BY <2>2, LiftPacket
  <2> HIDE DEF k, e
  <2>4. write(e.id, k)
    BY <2>1 DEF k
  <2> QED BY <2>1, <2>2, <2>3, <2>4, <1>2, WriteStep DEF e
<1>3. CASE broken_pipe
  <2>1. PICK id, k : write(id, k)
    BY DEF touch_handle_down, touch_handle_motion, touch_handle_up
  <2>2. UNCHANGED <<server, memory, input>> /\ connected' = FALSE /\ events' = <<>> /\ opening' = "killed"
    BY <1>3, <2>1 DEF write, broken_pipe, delivered, lost, input
  <2> QED BY <2>2, LossInput
<1> QED BY <1>1, <1>2, <1>3

(* An event that is not written excuses the fingers it is about.           *)
LEMMA IgnoredStep ==
  ASSUME DisplayInv, InputInv, touch_handle_cancel \/ touch_destroyed
  PROVE  InputInv'
<1> USE DEF InputInv
<1> DEFINE e == Head(events)
<1>1. PICK ids : /\ ignored(ids) /\ events # <<>> /\ e.what \in TouchKinds
                 /\ ids = IF e.what = "cancel" THEN ToldDown ELSE {e.id}
  BY Arrived DEF touch_handle_cancel, touch_destroyed, arrived_at, TouchKinds
<1>2. /\ events' = Tail(events) /\ excused' = excused \union ids
      /\ UNCHANGED <<server, memory, fingers, input_fd, pipe, reader>>
  BY <1>1 DEF ignored
<1>3. /\ ids \in SUBSET Ids /\ (e.what = "cancel" => Puts(e) = Up)
      /\ e.what = "cancel" => \A i : About(e, i)
      /\ e.what # "cancel" => \A i : About(e, i) <=> i = e.id
  BY <1>1, TouchEvent DEF ToldDown
<1>4. Told' = Told
  BY <1>2, ToldIs
<1> HIDE DEF e
<1>5. FingersInv'
  <2>1. ASSUME NEW i \in Ids \ excused'
        PROVE  /\ About(e, i) => Told'.contact[i] = Puts(e)
               /\ ~About(e, i) => i \notin excused /\ Told'.contact[i] = Told.contact[i]
    <3>1. i \notin excused /\ i \notin ids
      BY <1>2
    <3>2. CASE e.what = "cancel"
      BY <1>1, <1>3, <1>4, <3>1, <3>2 DEF ToldDown
    <3>3. CASE e.what # "cancel"
      BY <1>1, <1>3, <1>4, <3>1, <3>3
    <3> QED BY <3>2, <3>3
  <2> QED BY <1>1, <1>2, <2>1, FingersTail DEF e
<1>6. InputType'
  <2>1. events' \in Seq(ProperEvents(made))
    BY <1>1, <1>2, Under
  <2> QED BY <1>2, <1>3, <2>1 DEF InputType, memory
<1>7. SeatInv' /\ ShownInv'
  BY <1>2, <1>4 DEF SeatInv, ShownInv, server, memory
<1> QED BY <1>5, <1>6, <1>7

(* Touches that end with their wl_touch excuse the fingers that are told   *)
(* to be down.                                                             *)
LEMMA CapabilitiesInput == ASSUME DisplayInv, InputInv, seat_capabilities PROVE InputInv'
<1> USE DEF InputInv
<1> DEFINE e == Head(events)
<1>1. /\ seat_handle_capabilities
      /\ excused' = IF touches \subseteq touches' THEN excused ELSE excused \union ToldDown
      /\ UNCHANGED <<fingers, input_fd, pipe, reader>>
  BY DEF seat_capabilities
<1>2. events # <<>> /\ e.what = "capabilities" /\ e.touch \in BOOLEAN /\ e = capabilities(e.touch) /\ connected
  BY <1>1, Arrived, EventOfKind DEF seat_handle_capabilities
<1>3. events' = Tail(events) /\ UNCHANGED server
  BY <1>1 DEF seat_handle_capabilities
<1>4. made \in Nat /\ field \in [Fields -> Pointer] /\ "touch" \in Fields
      /\ touches = (IF field["touch"] = "bound" THEN {made} ELSE {})
  BY DEF DisplayInv, DisplayType, TouchesInv, Fields
<1>5. \/ /\ e.touch /\ field["touch"] # "bound" /\ field'["touch"] = "bound"
         /\ made' = made + 1 /\ touches' = {made'}
      \/ /\ ~e.touch /\ field["touch"] = "bound" /\ field'["touch"] = "null"
         /\ made' = made /\ touches' = {}
      \/ /\ ~e.touch /\ field["touch"] # "bound" /\ UNCHANGED <<field, touches, made>>
      \/ /\ e.touch /\ UNCHANGED <<field, touches, made>>
  BY <1>1, <1>4 DEF seat_handle_capabilities, untouched
<1>6. \A i : About(e, i) <=> ~e.touch
  BY <1>2, OtherEvents
<1>7. ~e.touch => Puts(e) = Up
  BY <1>2 DEF Puts
<1> HIDE DEF e
<1>8. Told' = Told
  BY <1>1, ToldIs
<1>9. excused \subseteq excused' /\ excused' \in SUBSET Ids /\ (e.touch => excused' = excused)
  BY <1>1, <1>4, <1>5 DEF InputType, ToldDown
<1>10. ASSUME ~e.touch \/ touches' = {}, NEW i \in Ids \ excused' PROVE Told.contact[i] = Up
  <2>1. CASE touches = {}
    BY <1>9, <1>10, <2>1 DEF SeatInv
  <2>2. CASE touches # {}
    <3>1. touches' = {}
      BY <1>4, <1>5, <1>10, <2>2
    <3> QED BY <1>1, <1>10, <2>2, <3>1 DEF ToldDown
  <2> QED BY <2>1, <2>2
<1>11. FingersInv'
  <2>1. \A i \in Ids \ excused' :
          /\ About(e, i) => Told'.contact[i] = Puts(e)
          /\ ~About(e, i) => i \notin excused /\ Told'.contact[i] = Told.contact[i]
    BY <1>6, <1>7, <1>8, <1>9, <1>10
  <2> QED BY <1>1, <1>2, <1>3, <2>1, FingersTail DEF e
<1>12. InputType'
  <2>1. events' \in Seq(ProperEvents(made)) /\ made' \in Nat /\ made <= made'
    BY <1>2, <1>3, <1>4, <1>5, Under
  <2>2. events' \in Seq(ProperEvents(made'))
    BY <1>4, <2>1, ProperSeq
  <2>3. field'["touch"] = "bound" => made' > 0
    BY <1>4, <1>5 DEF InputType
  <2> QED BY <1>1, <1>9, <2>2, <2>3 DEF InputType
<1>13. SeatInv'
  BY <1>1, <1>3, <1>8, <1>10 DEF SeatInv, server
<1>14. ShownInv'
  BY <1>1, <1>9 DEF ShownInv
<1> QED BY <1>11, <1>12, <1>13, <1>14

(* The touch screen.                                                       *)
LEMMA FingerMoves ==
  ASSUME DisplayInv, InputInv, NEW what \in TouchKinds, NEW id \in Ids, NEW at \in Places,
         tell(what, id, at), what \in {"up", "cancel"} => at = Up, what \in {"down", "motion"} => at \in Positions,
         fingers' = IF what = "cancel" THEN NoContact ELSE [fingers EXCEPT ![id] = at]
  PROVE  InputInv'
<1> USE DEF InputInv
<1>0. PICK e \in TouchEvents : Makes(e, what, id, at)
  BY Teller DEF Places
<1>1. events' = events \o <<e>> /\ e.to = made /\ e.what = what /\ e.id = id /\ e.at = at
  BY <1>0 DEF Makes
<1>2. /\ connected /\ seatTouch /\ touches = {made} /\ UNCHANGED <<server, memory>>
      /\ UNCHANGED <<input_fd, pipe, reader, excused>>
  BY Teller DEF Places, tell
<1>3. made \in Nat /\ made > 0
  BY <1>2, Under DEF DisplayInv, TouchesInv, InputType
<1>4. e \in Events /\ e \in ProperEvents(made)
  BY <1>1, <1>3, Kinds DEF ProperEvents, TouchKinds
<1>5. InputType'
  <2>1. events' \in Seq(ProperEvents(made))
    BY <1>1, <1>4, Under
  <2>2. fingers' \in [Ids -> Places]
    BY DEF InputType, NoContact, Places
  <2> QED BY <1>2, <2>1, <2>2 DEF InputType, memory
<1>6. FingersInv'
  <2>1. Puts(e) = at /\ \A i : About(e, i) <=> (what = "cancel" \/ i = id)
    BY <1>1 DEF Puts, About, TouchKinds
  <2>2. what = "cancel" => at = Up
    OBVIOUS
  <2>3. ASSUME NEW i \in Ids PROVE fingers'[i] = IF About(e, i) THEN Puts(e) ELSE fingers[i]
    BY <2>1, <2>2 DEF NoContact, InputType
  <2> QED BY <1>1, <1>2, <1>4, <2>3, FingersNew
<1>7. SeatInv' /\ ShownInv'
  BY <1>2, ToldIs DEF SeatInv, ShownInv, server, memory
<1> QED BY <1>5, <1>6, <1>7

LEMMA TouchscreenInput == ASSUME DisplayInv, InputInv, touchscreen PROVE InputInv'
<1>1. CASE cancel
  BY <1>1, FingerMoves, TouchAssumption DEF cancel, TouchKinds, Places
<1>2. ASSUME NEW id \in Ids, up(id) PROVE InputInv'
  BY <1>2, FingerMoves DEF up, TouchKinds, Places
<1>3. ASSUME NEW id \in Ids, NEW at \in Positions, down(id, at) PROVE InputInv'
  BY <1>3, FingerMoves DEF down, TouchKinds, Places
<1>4. ASSUME NEW id \in Ids, NEW at \in Positions, motion(id, at) PROVE InputInv'
  BY <1>4, FingerMoves DEF motion, TouchKinds, Places
<1> QED BY <1>1, <1>2, <1>3, <1>4 DEF touchscreen

LEMMA SeatInput == ASSUME DisplayInv, InputInv, seat_change PROVE InputInv'
<1> USE DEF InputInv
<1> DEFINE e == capabilities(seatTouch')
<1>1. /\ connected /\ seatTouch' \in BOOLEAN /\ events' = Append(events, e) /\ UNCHANGED memory
      /\ fingers' = (IF seatTouch' THEN fingers ELSE NoContact)
      /\ UNCHANGED <<input_fd, pipe, reader, excused>>
  BY DEF seat_change, seat_changes
<1>2. e \in Events /\ e \in ProperEvents(made) /\ e.what = "capabilities" /\ e.touch = seatTouch'
  BY <1>1, Kinds DEF ProperEvents, TouchKinds
<1> HIDE DEF e
<1>3. events' = events \o <<e>>
  BY <1>1, Under
<1>4. InputType'
  <2>1. events' \in Seq(ProperEvents(made))
    BY <1>2, <1>3, Under
  <2>2. fingers' \in [Ids -> Places]
    BY <1>1 DEF InputType, NoContact, Places
  <2> QED BY <1>1, <2>1, <2>2 DEF InputType, memory
<1>5. FingersInv'
  <2>1. \A i : About(e, i) <=> ~seatTouch'
    BY <1>2 DEF About, TouchKinds
  <2>2. Puts(e) = Up
    BY <1>2 DEF Puts
  <2>3. ASSUME NEW i \in Ids PROVE fingers'[i] = IF About(e, i) THEN Puts(e) ELSE fingers[i]
    BY <1>1, <2>1, <2>2 DEF NoContact
  <2> QED BY <1>1, <1>2, <1>3, <2>3, FingersNew
<1>6. SeatInv' /\ ShownInv'
  BY <1>1, ToldIs DEF SeatInv, ShownInv, memory
<1> QED BY <1>4, <1>5, <1>6

(* The reader.                                                             *)
LEMMA ReadsInput == ASSUME DisplayInv, InputInv, reader_reads PROVE InputInv'
<1> USE DEF InputInv
<1> DEFINE k == Head(pipe)  N == Len(pipe)
<1>1. /\ pipe # <<>> /\ pipe' = Tail(pipe) /\ reader' = read_packet(reader, k)
      /\ UNCHANGED <<display, fingers, input_fd, excused>>
  BY DEF reader_reads
<1>2. reader \in Readers /\ pipe \in Seq(Packets)
  BY DEF InputType
<1>3. /\ N \in Nat \ {0} /\ k \in Packets /\ k = pipe[1] /\ pipe' \in Seq(Packets) /\ Len(pipe') = N - 1
      /\ \A n \in 1 .. N - 1 : pipe'[n] = pipe[n + 1]
  BY <1>1, <1>2
<1> HIDE DEF k, N
<1>4. Reads(reader, reader', k)
  BY <1>1, <1>2, <1>3, ReadPacket
<1>5. Told' = Told
  BY <1>1, <1>2, ToldIs, FoldTail DEF k
<1>6. InputType'
  <2>1. Len(pipe') <= PipeSize
    BY <1>3, TouchAssumption DEF InputType, N
  <2>2. reader' \in Readers
    BY <1>4 DEF Reads
  <2> QED BY <1>1, <1>3, <2>1, <2>2 DEF InputType, display, memory
<1>7. FingersInv' /\ SeatInv'
  BY <1>1, <1>5 DEF FingersInv, SeatInv, display, server, memory
<1>8. ShownInv'
  <2>1. ASSUME NEW n \in 1 .. N, n # 1 PROVE n - 1 \in 1 .. Len(pipe') /\ pipe'[n - 1] = pipe[n]
    <3>1. n - 1 \in 1 .. N - 1 /\ (n - 1) + 1 = n
      BY <1>3, <2>1
    <3> QED BY <1>3, <3>1
  <2>2. ASSUME NEW i \in Ids \ excused'
        PROVE  \/ reader'.shown[i] = reader'.contact[i]
               \/ \E n \in 1 .. Len(pipe') : Owner(pipe'[n]) = i
    <3>1. CASE i # Owner(k)
      BY <1>4, <3>1 DEF Reads
    <3>2. CASE i = Owner(k) /\ Clean(k)
      BY <1>4, <3>2 DEF Reads
    <3>3. CASE i = Owner(k) /\ ~Clean(k)
      <4>1. PICK n \in 1 + 1 .. N : Owner(pipe[n]) = i
        BY <1>1, <1>3, <3>3 DEF ShownInv, N
      <4>2. n \in 1 .. N /\ n # 1
        BY <1>3
      <4> QED BY <2>1, <4>1, <4>2
    <3> QED BY <3>1, <3>2, <3>3
  <2>3. ASSUME NEW n \in 1 .. Len(pipe'), ~Clean(pipe'[n])
        PROVE  \/ Owner(pipe'[n]) \in excused'
               \/ \E m \in n + 1 .. Len(pipe') : Owner(pipe'[m]) = Owner(pipe'[n])
    <3>1. n \in 1 .. N - 1 /\ n + 1 \in 1 .. N /\ pipe'[n] = pipe[n + 1]
      BY <1>3
    <3>2. \/ Owner(pipe[n + 1]) \in excused
          \/ \E m \in (n + 1) + 1 .. N : Owner(pipe[m]) = Owner(pipe[n + 1])
      BY <2>3, <3>1 DEF ShownInv, N
    <3>3. ASSUME NEW m \in (n + 1) + 1 .. N, Owner(pipe[m]) = Owner(pipe[n + 1])
          PROVE  \E l \in n + 1 .. Len(pipe') : Owner(pipe'[l]) = Owner(pipe'[n])
      <4>1. m \in 1 .. N /\ m # 1 /\ m - 1 \in n + 1 .. Len(pipe')
        BY <1>3, <3>1
      <4> QED BY <2>1, <3>1, <3>3, <4>1
    <3> QED BY <1>1, <3>1, <3>2, <3>3
  <2> QED BY <2>2, <2>3 DEF ShownInv
<1> QED BY <1>6, <1>7, <1>8

(* A restarted reader knows of no finger; what it is told of the others    *)
(* is as before.                                                           *)
LEMMA OpensInput == ASSUME DisplayInv, InputInv, reader_opens PROVE InputInv'
<1> USE DEF InputInv
<1>1. /\ reader' = [slot |-> 0, contact |-> NoContact, shown |-> NoContact]
      /\ excused' = excused \union {i \in Ids : reader.contact[i] # Up}
      /\ UNCHANGED <<display, fingers, pipe, input_fd>>
  BY DEF reader_opens
<1>2. reader' \in Readers /\ \A i \in Ids : reader'.contact[i] = Up /\ reader'.shown[i] = Up
  BY <1>1, TouchAssumption DEF Readers, NoContact, Places
<1>3. ASSUME NEW i \in Ids \ excused' PROVE i \notin excused /\ Told'.contact[i] = Told.contact[i]
  <2>1. i \notin excused /\ reader.contact[i] = reader'.contact[i]
    BY <1>1, <1>2
  <2>2. pipe \in Seq(Packets) /\ reader \in Readers
    BY DEF InputType
  <2>3. FoldOf(reader, pipe).contact[i] = FoldOf(reader', pipe).contact[i]
    BY <1>2, <2>1, <2>2, FoldAgrees
  <2> QED BY <1>1, <2>1, <2>3, ToldIs
<1>4. InputType'
  BY <1>1, <1>2 DEF InputType, display, memory
<1>5. FingersInv' /\ SeatInv'
  BY <1>1, <1>3 DEF FingersInv, SeatInv, display, server, memory
<1>6. ShownInv'
  BY <1>1, <1>2 DEF ShownInv
<1> QED BY <1>4, <1>5, <1>6

LEMMA SameInput ==
  ASSUME DisplayInv, InputInv, UNCHANGED display, UNCHANGED <<fingers, pipe, input_fd, reader, excused>>
  PROVE  InputInv'
<1>1. Told' = Told
  BY ToldIs
<1> QED BY <1>1 DEF InputInv, InputType, FingersInv, SeatInv, ShownInv, display, server, memory

(* While the composer has the pipe open, a reader that dies leaves in it   *)
(* what is there.                                                          *)
LEMMA DiesInput == ASSUME DisplayInv, InputInv, reader_dies PROVE InputInv'
<1>1. pipe' = pipe
  BY DEF reader_dies, InputInv, InputType
<1> QED BY <1>1, SameInput DEF reader_dies

LEMMA KeepsSelf == ASSUME NEW es, NEW i PROVE Keeps(es, es, i)
BY DEF Keeps

LEMMA KeepsTrans ==
  ASSUME NEW es, NEW ds, NEW cs, NEW i, Keeps(es, ds, i), Keeps(ds, cs, i)
  PROVE  Keeps(es, cs, i)
BY DEF Keeps

LEMMA OthersProper ==
  ASSUME NEW n
  PROVE  /\ done \in ProperEvents(n) /\ configure \in ProperEvents(n)
         /\ \A g \in Bound \union {OldDmabuf} : global(g) \in ProperEvents(n)
         /\ \A b \in BOOLEAN : capabilities(b) \in ProperEvents(n)
BY Kinds DEF ProperEvents, TouchKinds

LEMMA HeadOther ==
  ASSUME DisplayInv, InputInv, events # <<>>,
         Head(events) \in {done, configure} \union {global(g) : g \in Bound \union {OldDmabuf}}
  PROVE  /\ Tail(events) \in Seq(Events) /\ Tail(events) \in Seq(ProperEvents(made))
         /\ \A i : Keeps(events, Tail(events), i)
<1>1. events \in Seq(Events) /\ events \in Seq(ProperEvents(made))
  BY Under
<1>2. ASSUME NEW i PROVE Keeps(events, Tail(events), i)
  <2>1. ~About(Head(events), i)
    BY OtherEvents
  <2> QED BY <1>1, <2>1, LastTail
<1> QED BY <1>1, <1>2

LEMMA AnsweredKeeps ==
  ASSUME DisplayInv, InputInv
  PROVE  /\ answered \in Seq(ProperEvents(made)) /\ answered \in Seq(Events)
         /\ \A i : Keeps(events, answered, i)
<1>1. CASE arrived("done")
  <2>1. events # <<>> /\ Head(events) = done /\ answered = Tail(events)
    BY <1>1, Arrived, EventOfKind DEF answered
  <2>2. answered \in Seq(ProperEvents(made)) /\ answered \in Seq(Events)
    BY <2>1, Under
  <2> QED BY <2>1, <2>2, Under, OtherEvents, LastTail
<1>2. CASE ~arrived("done")
  BY <1>2, Under, KeepsSelf DEF answered
<1> QED BY <1>1, <1>2

LEMMA SendKeeps ==
  ASSUME DisplayInv, InputInv, NEW es \in Seq(ProperEvents(made)), NEW fs \in {<<done>>, <<configure, done>>}
  PROVE  send(es, fs) \in Seq(ProperEvents(made)) /\ \A i : Keeps(es, send(es, fs), i)
<1>1. fs \in Seq(ProperEvents(made)) /\ fs \in Seq(Events) /\ \A k \in 1 .. Len(fs) : fs[k] \in {done, configure}
  <2>1. CASE fs = <<done>>
    BY <2>1, Kinds, OthersProper
  <2>2. CASE fs = <<configure, done>>
    BY <2>2, Kinds, OthersProper
  <2> QED BY <2>1, <2>2
<1>2. es \in Seq(Events) /\ es \o fs \in Seq(ProperEvents(made))
  BY <1>1, Under, ProperSeq
<1>3. \A i : Keeps(es, es \o fs, i)
  <2> TAKE i
  <2>1. \A k \in 1 .. Len(fs) : ~About(fs[k], i)
    BY <1>1, OtherEvents
  <2> QED BY <1>1, <1>2, <2>1, LastJoin
<1> QED BY <1>2, <1>3, KeepsSelf DEF send

LEMMA ConnectInput == ASSUME DisplayInv, InputInv, connect, UNCHANGED input PROVE InputInv'
<1>1. opening = "connect" /\ events = <<>> /\ UNCHANGED <<server, memory>>
  BY DEF connect, DisplayInv, DisplayType
<1>2. CASE opening' = "aborted" /\ UNCHANGED <<connected, events>>
  BY <1>1, <1>2, Under, KeepsSelf, DisplayOnly DEF server, memory
<1>3. CASE events' = [i \in 1 .. Len(compositor.globals) |-> global(compositor.globals[i])] \o <<done>>
  <2> DEFINE gs == [i \in 1 .. Len(compositor.globals) |-> global(compositor.globals[i])]
  <2>1. compositor.globals \in Seq(Bound \union {OldDmabuf})
    BY Interfaces DEF DisplayInv
  <2>2. gs \in Seq(ProperEvents(made)) /\ <<done>> \in Seq(ProperEvents(made)) /\ gs \in Seq(Events)
        /\ Len(gs) = Len(compositor.globals)
        /\ \A k \in 1 .. Len(gs) : \E g \in Bound \union {OldDmabuf} : gs[k] = global(g)
    BY <2>1, Kinds, OthersProper
  <2> HIDE DEF gs
  <2>3. events' \in Seq(ProperEvents(made))
    BY <1>3, <2>2 DEF gs
  <2>4. \A i : Keeps(events, events', i)
    <3> TAKE i
    <3>1. <<>> \in Seq(Events) /\ <<>> \o gs = gs
      BY <2>2
    <3>2. Keeps(events, gs, i)
      BY <1>1, <2>2, <3>1, OtherEvents, LastJoin
    <3>3. Keeps(gs, gs \o <<done>>, i)
      BY <2>2, Kinds, OtherEvents, LastNew
    <3> QED BY <1>3, <3>2, <3>3, KeepsTrans DEF gs
  <2> QED BY <1>1, <2>3, <2>4, DisplayOnly DEF server, memory
<1> QED BY <1>2, <1>3 DEF connect

LEMMA RegistryInput == ASSUME DisplayInv, InputInv, registry_handle_global, UNCHANGED input PROVE InputInv'
<1> DEFINE g == Head(events).interface
           e == capabilities(seatTouch)
           ts == Tail(events)
<1>1. events # <<>> /\ Head(events) = global(g) /\ g \in Bound \union {OldDmabuf} /\ connected
  BY Arrived, EventOfKind DEF registry_handle_global
<1>2. /\ field' = (IF g = OldDmabuf THEN field ELSE [field EXCEPT ![g] = "bound"])
      /\ UNCHANGED <<opening, server, connected, touches, made>>
  BY DEF registry_handle_global
<1>3. IF g = "wl_seat" THEN events' = ts \o <<e>> ELSE events' = ts
  <2>1. ts \in Seq(Events)
    BY <1>1, Under
  <2> QED BY <2>1 DEF registry_handle_global
<1>4. field'["touch"] = field["touch"]
  BY <1>1, <1>2, Interfaces DEF DisplayInv, DisplayType
<1>5. seatTouch \in BOOLEAN /\ e \in Events /\ e \in ProperEvents(made)
  BY Kinds, OthersProper DEF DisplayInv, DisplayType
<1>6. ts \in Seq(Events) /\ ts \in Seq(ProperEvents(made)) /\ \A i : Keeps(events, ts, i)
  BY <1>1, HeadOther
<1> HIDE DEF g, ts
<1>7. events' \in Seq(ProperEvents(made))
  BY <1>3, <1>5, <1>6
<1>8. ASSUME NEW i
      PROVE  \/ Keeps(events, events', i)
             \/ ~seatTouch /\ LastPuts(events', i, Up) /\ ~Silent(events', i)
  <2>1. CASE g # "wl_seat"
    BY <1>3, <1>6, <2>1
  <2>2. CASE g = "wl_seat" /\ seatTouch
    <3>1. ~About(e, i)
      BY <1>5, <2>2, OtherEvents
    <3>2. Keeps(ts, ts \o <<e>>, i)
      BY <1>5, <1>6, <3>1, LastNew
    <3> QED BY <1>3, <1>6, <2>2, <3>2, KeepsTrans
  <2>3. CASE g = "wl_seat" /\ ~seatTouch
    <3>1. About(e, i) /\ Puts(e) = Up
      BY <1>5, <2>3, OtherEvents
    <3> QED BY <1>3, <1>5, <1>6, <2>3, <3>1, LastNew
  <2> QED BY <2>1, <2>2, <2>3
<1> QED BY <1>1, <1>2, <1>4, <1>7, <1>8, DisplayOnly DEF server

LEMMA OpenInput ==
  ASSUME DisplayInv, InputInv, UNCHANGED input,
         second_roundtrip \/ create_display \/ create_window \/ start_thread \/ first_commit \/ thread_ends
  PROVE  InputInv'
<1>1. UNCHANGED <<server, connected, memory>> /\ opening # "connect" /\ opening' # "connect"
  BY DEF second_roundtrip, create_display, create_window, start_thread, first_commit, thread_ends
<1>2. \/ events' \in {events, answered} \/ events' = send(answered, <<done>>)
      \/ events' = send(events, <<done>>) \/ events' = send(events, <<configure, done>>)
  BY DEF second_roundtrip, create_display, create_window, start_thread, first_commit, thread_ends
<1>3. /\ events \in Seq(ProperEvents(made)) /\ answered \in Seq(ProperEvents(made))
      /\ \A i : Keeps(events, answered, i) /\ Keeps(events, events, i)
  BY Under, AnsweredKeeps, KeepsSelf
<1>4. ASSUME NEW es \in {events, answered}, NEW fs \in {<<done>>, <<configure, done>>}
      PROVE  send(es, fs) \in Seq(ProperEvents(made)) /\ \A i : Keeps(events, send(es, fs), i)
  BY <1>3, SendKeeps, KeepsTrans
<1>5. events' \in Seq(ProperEvents(made)) /\ \A i : Keeps(events, events', i)
  BY <1>2, <1>3, <1>4
<1> QED BY <1>1, <1>5, DisplayOnly DEF server, memory

LEMMA ConfigureInput ==
  ASSUME DisplayInv, InputInv, UNCHANGED input, xdg_surface_handle_configure \/ send_configure
  PROVE  InputInv'
<1>1. UNCHANGED <<opening, server, connected, memory>>
  BY DEF xdg_surface_handle_configure, send_configure
<1>2. CASE xdg_surface_handle_configure
  <2>1. events # <<>> /\ Head(events) = configure /\ events' = Tail(events)
    BY <1>2, Arrived, EventOfKind DEF xdg_surface_handle_configure
  <2>2. events' \in Seq(ProperEvents(made)) /\ \A i : Keeps(events, events', i)
    BY <2>1, HeadOther
  <2> QED BY <1>1, <2>2, DisplayOnly, Arrived DEF server, memory
<1>3. CASE send_configure
  <2>1. events' = events \o <<configure>> /\ connected
    BY <1>3, Under DEF send_configure
  <2>2. events' \in Seq(ProperEvents(made)) /\ \A i : Keeps(events, events', i)
    <3>1. configure \in Events /\ configure \in ProperEvents(made)
      BY Kinds, OthersProper
    <3>2. events \in Seq(Events) /\ events \in Seq(ProperEvents(made))
      BY Under
    <3>3. ASSUME NEW i PROVE Keeps(events, events', i)
      <4>1. ~About(configure, i)
        BY OtherEvents
      <4> QED BY <2>1, <3>1, <3>2, <4>1, LastNew
    <3> QED BY <2>1, <3>1, <3>2, <3>3
  <2> QED BY <1>1, <2>1, <2>2, DisplayOnly DEF server, memory
<1> QED BY <1>2, <1>3

LEMMA EndInput ==
  ASSUME DisplayInv, InputInv, UNCHANGED input, hwc_close \/ goes_away
  PROVE  InputInv'
<1>1. CASE hwc_close
  BY <1>1, LossInput DEF hwc_close
<1>2. CASE goes_away
  BY <1>2, LossInput DEF goes_away, DisplayInv, DisplayType
<1> QED BY <1>1, <1>2

LEMMA InputStep == DisplayInv /\ InputInv /\ [Next]_vars => InputInv'
<1> SUFFICES ASSUME DisplayInv, InputInv, [Next]_vars PROVE InputInv'
  OBVIOUS
<1>1. CASE Touching
  BY <1>1, WriteSteps, IgnoredStep, CapabilitiesInput DEF Touching
<1>2. CASE Other
  BY <1>2, ConnectInput, RegistryInput, ConfigureInput, OpenInput, EndInput DEF Other
<1>3. CASE touchscreen
  BY <1>3, TouchscreenInput
<1>4. CASE seat_change
  BY <1>4, SeatInput
<1>5. CASE reader_opens \/ reader_dies \/ reader_reads
  BY <1>5, OpensInput, DiesInput, ReadsInput
<1>6. CASE UNCHANGED vars
  BY <1>6, SameInput DEF vars, input
<1> QED BY <1>1, <1>2, <1>3, <1>4, <1>5, <1>6 DEF Next

LEMMA InitInput == Init => InputInv
<1> SUFFICES ASSUME Init PROVE InputInv
  OBVIOUS
<1>1. /\ fingers = NoContact /\ pipe = <<>> /\ excused = {} /\ events = <<>>
      /\ reader = [slot |-> 0, contact |-> NoContact, shown |-> NoContact]
      /\ field["touch"] # "bound"
  BY DEF Init, InitDisplay, Fields
<1>2. NoContact \in [Ids -> Places] /\ \A i \in Ids : NoContact[i] = Up
  BY DEF NoContact, Places
<1>3. reader \in Readers /\ Told = reader
  BY <1>1, <1>2, TouchAssumption, ToldIs, FoldNone DEF Readers
<1>4. InputType
  BY <1>1, <1>2, <1>3, TouchAssumption DEF InputType
<1>5. FingersInv /\ SeatInv /\ ShownInv
  BY <1>1, <1>2, <1>3 DEF FingersInv, SeatInv, ShownInv, LastPuts
<1> QED BY <1>4, <1>5 DEF InputInv

LEMMA AlwaysInput == Spec => [](DisplayInv /\ InputInv)
<1>1. Init => DisplayInv
  BY InitDisplayInv DEF Init
<1> QED BY <1>1, InitInput, DisplayStep, InputStep, PTL DEF Spec

-----------------------------------------------------------------------------
WindowType ==
  opening \in Openings /\ attached \in {"no", "early", "proper"} /\ wait_for_configure \in BOOLEAN

LEMMA WindowStep == WindowType /\ [Next]_vars => WindowType'
<1> SUFFICES ASSUME WindowType, [Next]_vars PROVE WindowType'
  OBVIOUS
<1> USE DEF WindowType, Openings, Roundtrips, windows
<1>1. CASE Touching \/ touchscreen \/ seat_change
  BY <1>1 DEF Touching, touch_handle_down, touch_handle_motion, touch_handle_up, touch_handle_cancel,
              touch_destroyed, seat_capabilities, seat_handle_capabilities, write, delivered, lost, broken_pipe, ignored,
              touchscreen, cancel, up, down, motion, tell, seat_change, seat_changes
<1>2. CASE Other
  BY <1>2 DEF Other, connect, registry_handle_global, xdg_surface_handle_configure, second_roundtrip,
              create_display, create_window, start_thread, first_commit, thread_ends, hwc_close,
              send_configure, goes_away
<1>3. CASE reader_opens \/ reader_dies \/ reader_reads \/ UNCHANGED vars
  BY <1>3 DEF reader_opens, reader_dies, reader_reads, vars, display
<1> QED BY <1>1, <1>2, <1>3 DEF Next

(* Events, packets and what the reader knows keep their types, and the     *)
(* pipe keeps its size, for every number of fingers.                       *)
THEOREM TypeCorrect == Spec => []TypeOK
<1>1. DisplayInv /\ InputInv /\ WindowType => TypeOK
  <2> SUFFICES ASSUME DisplayInv, InputInv, WindowType PROVE TypeOK
    OBVIOUS
  <2>1. ASSUME NEW e \in Range(events), "to" \in DOMAIN e PROVE e.to \in 1 .. made
    <3>1. e \in ProperEvents(made)
      BY Under DEF Range
    <3>2. e \in TouchEvents
      BY <2>1, <3>1 DEF ProperEvents, Events, done, configure, global, capabilities
    <3> QED BY <3>1, <3>2 DEF ProperEvents, TouchEvents
  <2>2. touches \subseteq 1 .. made
    BY DEF DisplayInv, DisplayType, TouchesInv, InputInv, InputType
  <2>3. reader.slot \in Ids /\ reader.contact \in [Ids -> Positions \union {Up}]
        /\ reader.shown \in [Ids -> Positions \union {Up}]
    BY DEF InputInv, InputType, Readers, Places
  <2>4. compositor \in Compositors /\ connected \in BOOLEAN /\ field \in [Fields -> {"null", "garbage", "bound"}]
    BY DEF DisplayInv, DisplayType, Pointer
  <2>5. /\ fingers \in [Ids -> Positions \union {Up}] /\ excused \subseteq Ids
        /\ Len(pipe) <= PipeSize /\ (pipe # <<>> => input_fd)
    BY DEF InputInv, InputType, Places
  <2> QED BY <2>1, <2>2, <2>3, <2>4, <2>5 DEF TypeOK, WindowType
<1>2. Init => WindowType
  BY DEF Init, InitDisplay, WindowType, Openings
<1> QED BY <1>1, <1>2, WindowStep, AlwaysInput, PTL DEF Spec

(* When all is read InputFlinger shows each finger where it is: every      *)
(* event that the handlers write puts its finger right, whatever was lost  *)
(* before, and a finger of which the last event was lost is excused.       *)
THEOREM ShownRight == Spec => []ShownIsTouched
<1>1. DisplayInv /\ InputInv => ShownIsTouched
  <2> SUFFICES ASSUME DisplayInv, InputInv, connected, events = <<>>, pipe = <<>>, NEW i \in Ids \ excused
               PROVE  reader.shown[i] = fingers[i]
    BY DEF ShownIsTouched
  <2>1. Told = reader
    BY ToldIs, FoldNone DEF InputInv, InputType
  <2>2. Told.contact[i] = fingers[i]
    BY DEF InputInv, FingersInv, Silent
  <2>3. reader.shown[i] = reader.contact[i]
    BY DEF InputInv, ShownInv
  <2> QED BY <2>1, <2>2, <2>3
<1> QED BY <1>1, AlwaysInput, PTL
=============================================================================
