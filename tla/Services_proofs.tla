--------------------------- MODULE Services_proofs ---------------------------
(***************************************************************************)
(* Proofs about the services that are received, in packets (DataService)   *)
(* and with the access units of a programme (AudioService): what is given  *)
(* to the GUI is whole, for every carousel and programme, whatever is      *)
(* lost, damaged and mixed with others.  They share no variable, only the  *)
(* objects of MotObject.                                                   *)
(***************************************************************************)
EXTENDS DataService, AudioService, SequenceTheorems, WellFoundedInduction, TLAPS

-----------------------------------------------------------------------------
(* The invariant.                                                          *)

Segment == [service : Services \cup {"none"}, whole : BOOLEAN]
Object  == [motMap : [SegmentNumbers -> Segment], numofSegments : Int]

\* An entry of motTable; of its order number nothing is said.
HasFields(r) ==
  r = [orderNumber |-> r.orderNumber, transportId |-> r.transportId, motSlide |-> r.motSlide]
IsEntry(r) == HasFields(r) /\ r.motSlide \in Object

PacketTypes ==
  /\ tx \in [Services -> [group : Int, nr : Int, CI : Int]]
  /\ packetState \in [Services -> Int]
  /\ series \in [Services -> [group : Groups \cup {NoGroup}, upto : Int]]

TableTypes ==
  /\ motTable = [i \in Slots |-> motTable[i]]
  /\ \A i \in Slots : IsEntry(motTable[i])

Directory == [transportId : TIds \cup {0}, marked : SUBSET Int, num_dirSegments : Int,
              motComponents : [TIds -> Object]]

Handed == [transportId : TIds, motMap : [SegmentNumbers -> Segment]]

MotTypes ==
  /\ TableTypes
  /\ theDirectory \in [Services -> Directory]
  /\ shown \in [Services -> SUBSET Handed]

\* What is collected, or was begun, is of a group of the service.
Packets ==
  \A s \in Services :
    /\ tx[s].group \in 1 .. Len(Carousel[s])
    /\ series[s].group \in GroupsOf(s) \cup {NoGroup}
    /\ packetState[s] = 1 => series[s].group # NoGroup

\* The segments in h are undamaged, and of object t of service s; the number of
\* segments is known from the last one.
ObjectOf(s, t, h) ==
  \/ h = NoObject
  \/ /\ \A i \in SegmentNumbers :
          \/ h.motMap[i] = Lacking
          \/ /\ h.motMap[i] = [service |-> s, whole |-> TRUE]
             /\ \E g \in Bodies(s, t) : g.segmentNumber = i
     /\ \/ h.numofSegments = -1
        \/ \E g \in Bodies(s, t) : g.last /\ h.numofSegments = g.segmentNumber + 1

\* Such are the objects of motTable, for the service that sends them, ...
TableOf ==
  \A i \in Slots, s \in Services : \A g \in GroupsOf(s) :
    motTable[i].transportId = g.transportId
    => ObjectOf(s, g.transportId, motTable[i].motSlide)

\* ... and those of the directories.
DirectoryOf ==
  \A s \in Services, t \in TIds : ObjectOf(s, t, theDirectory[s].motComponents[t])

\* The inductive invariant.
IInv == PacketTypes /\ Packets /\ MotTypes /\ TableOf /\ DirectoryOf /\ HandedIsWhole

-----------------------------------------------------------------------------
(* Groups and packets.                                                     *)

\* What is known of a group that service s sends.
LEMMA GroupsAreSound ==
  ASSUME NEW s \in Services, NEW g \in GroupsOf(s)
  PROVE  /\ g \in Groups /\ g # NoGroup
         /\ g.service = s /\ g.transportId \in TIds /\ g.segmentNumber \in SegmentNumbers
         /\ g.last \in BOOLEAN /\ g.crcFlag \in BOOLEAN
<1>1. PICK i \in DOMAIN Carousel[s] : g = Carousel[s][i]
  BY DEF GroupsOf, ToSet
<1>2. g \in Groups /\ g.service = s
  BY <1>1, CarouselAssumption, ElementOfSeq
<1>3. g \in Group
  BY <1>2, GroupsAssumption
<1> QED
  BY <1>2, <1>3, NoGroupAssumption DEF Group, SegmentNumbers

\* The group being sent is one of the service's.
LEMMA SentIsOne ==
  ASSUME NEW s \in Services, tx[s].group \in 1 .. Len(Carousel[s])
  PROVE  Sent(s) \in GroupsOf(s)
<1>1. Carousel[s] \in Seq(Groups)
  BY CarouselAssumption
<1>2. DOMAIN Carousel[s] = 1 .. Len(Carousel[s])
  BY <1>1
<1> QED
  BY <1>2 DEF Sent, GroupsOf, ToSet

\* The transmitter goes round its carousel.
LEMMA AdvanceKeeps ==
  ASSUME NEW s \in Services, tx \in [Services -> [group : Int, nr : Int, CI : Int]],
         \A r \in Services : tx[r].group \in 1 .. Len(Carousel[r]), Advance(s)
  PROVE  /\ tx' \in [Services -> [group : Int, nr : Int, CI : Int]]
         /\ \A r \in Services : tx'[r].group \in 1 .. Len(Carousel[r])
<1>1. Len(Carousel[s]) \in Nat /\ Len(Carousel[s]) > 0
  BY CarouselAssumption
<1>2. Sent(s) \in GroupsOf(s)
  BY SentIsOne
<1> DEFINE n == [group |-> IF tx[s].nr < Sent(s).len THEN tx[s].group
                           ELSE (tx[s].group % Len(Carousel[s])) + 1,
                 nr    |-> IF tx[s].nr < Sent(s).len THEN tx[s].nr + 1 ELSE 1,
                 CI    |-> (tx[s].CI + 1) % 4]
<1>3. tx' = [tx EXCEPT ![s] = n]
  BY DEF Advance
<1>4. n.group \in 1 .. Len(Carousel[s])
  BY <1>1
<1>5. n \in [group : Int, nr : Int, CI : Int]
  BY <1>1
<1> HIDE DEF n
<1> QED
  BY <1>3, <1>4, <1>5

\* A packet leaves in the series a group of its service, or none.
LEMMA PacketKeeps ==
  ASSUME NEW s \in Services, PacketTypes, Packets, NEW p,
         p.group = Sent(s), handlePacket(s, p)
  PROVE  /\ packetState' \in [Services -> Int]
         /\ series' \in [Services -> [group : Groups \cup {NoGroup}, upto : Int]]
         /\ \A r \in Services : /\ series'[r].group \in GroupsOf(r) \cup {NoGroup}
                                /\ packetState'[r] = 1 => series'[r].group # NoGroup
<1>1. Sent(s) \in GroupsOf(s) /\ Sent(s) \in Groups /\ Sent(s) # NoGroup
  BY SentIsOne, GroupsAreSound DEF Packets
<1>2. CASE ~Accepted(s, p)
  BY <1>2 DEF handlePacket, PacketTypes, Packets
<1>3. CASE Accepted(s, p)
  <2> DEFINE c == Collected(s, p)
             a == StateAfter(s, p)
  <2>1. packetState' = [packetState EXCEPT ![s] = a] /\ series' = [series EXCEPT ![s] = c]
    BY <1>3 DEF handlePacket
  <2>2. a \in {0, 1}
    BY DEF StateAfter
  <2>3. CASE a = 0
    <3>1. c = [group |-> NoGroup, upto |-> 0]
      BY <2>3 DEF Collected, EmptySeries
    <3> HIDE DEF c, a
    <3> QED
      BY <2>1, <2>3, <3>1 DEF PacketTypes, Packets
  <2>4. CASE a = 1 /\ p.firstLast = FirstPacket
    <3>1. c = [group |-> Sent(s), upto |-> IF p.nr = 1 THEN 1 ELSE 0]
      BY <2>4 DEF Collected, Begun
    <3> HIDE DEF c, a
    <3>2. c.group = Sent(s) /\ c \in [group : Groups \cup {NoGroup}, upto : Int]
      BY <1>1, <3>1
    <3> QED
      BY <1>1, <2>1, <2>4, <3>2 DEF PacketTypes, Packets
  <2>5. CASE a = 1 /\ p.firstLast # FirstPacket
    <3>1. packetState[s] = 1
      BY <2>5 DEF StateAfter
    <3>2. c = Extended(series[s], p)
      BY <2>5 DEF Collected
    <3>3. series[s] \in [group : Groups \cup {NoGroup}, upto : Int]
      BY DEF PacketTypes
    <3>4. series[s].group \in GroupsOf(s) /\ series[s].group # NoGroup
      BY <3>1 DEF Packets
    <3> HIDE DEF c, a
    <3> DEFINE u == IF series[s].upto > 0 /\ p.group = series[s].group
                       /\ p.nr = series[s].upto + 1 THEN p.nr ELSE 0
    <3>5. c = [series[s] EXCEPT !.upto = u]
      BY <3>2 DEF Extended
    <3>6. u \in Int
      BY <3>3
    <3> HIDE DEF u
    <3>7. c.group = series[s].group /\ c \in [group : Groups \cup {NoGroup}, upto : Int]
      BY <3>3, <3>5, <3>6
    <3> QED
      BY <2>1, <2>5, <3>4, <3>7 DEF PacketTypes, Packets
  <2> QED
    BY <2>2, <2>3, <2>4, <2>5
<1> QED
  BY <1>2, <1>3

\* A data group is only handed over with a group of the service.
LEMMA HandedOverIsOne ==
  ASSUME NEW s \in Services, PacketTypes, Packets, HandedOver(s, NextPacket(s)) # EmptySeries
  PROVE  /\ HandedOver(s, NextPacket(s)).group \in GroupsOf(s)
         /\ IsWhole(HandedOver(s, NextPacket(s))) \in BOOLEAN
<1> DEFINE p == NextPacket(s)
<1>1. Sent(s) \in GroupsOf(s) /\ p.group = Sent(s)
  BY SentIsOne DEF Packets, NextPacket
<1>2. CASE HandedOver(s, p) = Begun(p)
  BY <1>1, <1>2 DEF Begun, IsWhole
<1>3. CASE packetState[s] = 1 /\ HandedOver(s, p) = Extended(series[s], p)
  <2>1. series[s].group \in GroupsOf(s)
    BY <1>3 DEF Packets
  <2>2. Extended(series[s], p).group = series[s].group
    BY DEF Extended, PacketTypes
  <2> QED
    BY <1>3, <2>1, <2>2 DEF IsWhole
<1> QED
  BY <1>2, <1>3 DEF HandedOver

-----------------------------------------------------------------------------
(* Objects.                                                                *)

\* The fields of the objects that are made.
LEMMA NewObjects ==
  /\ NewObject \in Object /\ NoObject \in Object
  /\ NewObject.motMap = [i \in SegmentNumbers |-> Lacking] /\ NewObject.numofSegments = -1
  /\ NewObject # NoObject
<1>1. Lacking \in Segment
  BY DEF Lacking, Segment
<1>2. NewObject.numofSegments = -1 /\ NewObject.motMap = [i \in SegmentNumbers |-> Lacking]
  BY DEF NewObject
<1>3. NewObject \in Object
  BY <1>1 DEF NewObject, Object
<1>4. NoObject = [motMap |-> [i \in SegmentNumbers |-> Lacking], numofSegments |-> -2]
  BY DEF NoObject, NewObject
<1>5. NoObject \in Object /\ NoObject.numofSegments = -2
  BY <1>1, <1>4 DEF Object
<1> QED
  BY <1>2, <1>3, <1>5

\* What addBodySegment does to an object that lacks the segment.
LEMMA SegmentAdded ==
  ASSUME NEW h \in Object, NEW s \in Services, NEW g \in GroupsOf(s), NEW whole \in BOOLEAN,
         ~Has(h, g.segmentNumber)
  PROVE  /\ addBodySegment(h, g, whole) \in Object
         /\ addBodySegment(h, g, whole).motMap
              = [h.motMap EXCEPT ![g.segmentNumber] = [service |-> s, whole |-> whole]]
         /\ addBodySegment(h, g, whole).numofSegments
              = IF g.last THEN g.segmentNumber + 1 ELSE h.numofSegments
<1>1. g.service = s /\ g.segmentNumber \in SegmentNumbers /\ g.last \in BOOLEAN
  BY GroupsAreSound
<1>2. g.segmentNumber \in Int
  BY <1>1, SegAssumption DEF SegmentNumbers
<1> DEFINE m == [h.motMap EXCEPT ![g.segmentNumber] = [service |-> s, whole |-> whole]]
           n == IF g.last THEN g.segmentNumber + 1 ELSE h.numofSegments
<1>3. h.motMap \in [SegmentNumbers -> Segment] /\ h.numofSegments \in Int
      /\ h = [motMap |-> h.motMap, numofSegments |-> h.numofSegments]
  BY DEF Object
<1>4. m \in [SegmentNumbers -> Segment]
  BY <1>3 DEF Segment
<1>5. n \in Int
  BY <1>1, <1>2, <1>3
<1>6. addBodySegment(h, g, whole) = [motMap |-> m, numofSegments |-> n]
  BY <1>1, <1>3 DEF addBodySegment
<1> HIDE DEF m, n
<1>7. /\ addBodySegment(h, g, whole) \in Object
      /\ addBodySegment(h, g, whole).motMap = m
      /\ addBodySegment(h, g, whole).numofSegments = n
  BY <1>4, <1>5, <1>6 DEF Object
<1> QED
  BY <1>7 DEF m, n

\* addBodySegment gives an object.
LEMMA AddedIsObject ==
  ASSUME NEW h \in Object, NEW s \in Services, NEW g \in GroupsOf(s), NEW whole \in BOOLEAN
  PROVE  addBodySegment(h, g, whole) \in Object
<1>1. CASE Has(h, g.segmentNumber)
  BY <1>1 DEF addBodySegment
<1>2. CASE ~Has(h, g.segmentNumber)
  BY <1>2, SegmentAdded
<1> QED
  BY <1>1, <1>2

\* A new object has no segment.
LEMMA NewIsOfObject ==
  ASSUME NEW s, NEW t
  PROVE  ObjectOf(s, t, NewObject) /\ ObjectOf(s, t, NoObject)
BY NewObjects DEF ObjectOf

\* An undamaged segment of an object leaves it one.
LEMMA AddedIsOfObject ==
  ASSUME NEW s \in Services, NEW g \in GroupsOf(s), NEW h \in Object, g.groupType = 4,
         h # NoObject, ObjectOf(s, g.transportId, h)
  PROVE  ObjectOf(s, g.transportId, addBodySegment(h, g, TRUE))
<1>1. CASE Has(h, g.segmentNumber)
  BY <1>1 DEF addBodySegment
<1>2. CASE ~Has(h, g.segmentNumber)
  <2> DEFINE a == addBodySegment(h, g, TRUE)
  <2>1. /\ a.motMap = [h.motMap EXCEPT ![g.segmentNumber] = [service |-> s, whole |-> TRUE]]
        /\ a.numofSegments = IF g.last THEN g.segmentNumber + 1 ELSE h.numofSegments
    BY <1>2, SegmentAdded, ZenonT(60)
  <2>2. g \in Bodies(s, g.transportId)
    BY DEF Bodies, GroupsOf
  <2>3. h.motMap \in [SegmentNumbers -> Segment] /\ g.last \in BOOLEAN
    BY GroupsAreSound DEF Object
  <2> HIDE DEF a
  <2>4. ASSUME NEW i \in SegmentNumbers
        PROVE  \/ a.motMap[i] = Lacking
               \/ /\ a.motMap[i] = [service |-> s, whole |-> TRUE]
                  /\ \E b \in Bodies(s, g.transportId) : b.segmentNumber = i
    BY <2>1, <2>2, <2>3 DEF ObjectOf
  <2>5. \/ a.numofSegments = -1
        \/ \E b \in Bodies(s, g.transportId) : b.last /\ a.numofSegments = b.segmentNumber + 1
    BY <2>1, <2>2, <2>3 DEF ObjectOf
  <2>6. ObjectOf(s, g.transportId, a)
    BY <2>4, <2>5 DEF ObjectOf
  <2> QED
    BY <2>6 DEF a
<1> QED
  BY <1>1, <1>2

\* With the segment that completes it the object is what the service sends.
LEMMA CompletedIsWhole ==
  ASSUME LastIsLast, NEW s \in Services, NEW g \in GroupsOf(s), NEW h \in Object,
         g.groupType = 4, h # NoObject, ObjectOf(s, g.transportId, h), Completes(h, g),
         NEW i \in SegmentNumbers
  PROVE  addBodySegment(h, g, TRUE).motMap[i]
           = IF \E b \in Bodies(s, g.transportId) : b.segmentNumber = i
             THEN [service |-> s, whole |-> TRUE] ELSE Lacking
<1> DEFINE m == addBodySegment(h, g, TRUE).motMap
           t == g.transportId
           n == IF g.last THEN g.segmentNumber + 1 ELSE h.numofSegments
<1>1. /\ ~Has(h, g.segmentNumber) /\ n # -1
      /\ \A k \in 0 .. n - 1 : k = g.segmentNumber \/ Has(h, k)
  BY DEF Completes
<1>2. m = [h.motMap EXCEPT ![g.segmentNumber] = [service |-> s, whole |-> TRUE]]
  BY <1>1, SegmentAdded, ZenonT(60)
<1>3. g \in Bodies(s, t)
  BY DEF Bodies, GroupsOf
<1>4. /\ h.motMap \in [SegmentNumbers -> Segment] /\ g.last \in BOOLEAN
      /\ g.segmentNumber \in SegmentNumbers
  BY GroupsAreSound DEF Object
<1>5. \E b \in Bodies(s, t) : b.last /\ n = b.segmentNumber + 1
  <2>1. CASE g.last
    BY <1>3, <2>1
  <2>2. CASE ~g.last
    BY <1>1, <2>2 DEF ObjectOf
  <2> QED
    BY <2>1, <2>2
<1>6. PICK e \in Bodies(s, t) : e.last /\ n = e.segmentNumber + 1
  BY <1>5
<1> HIDE DEF n, m
<1>7. CASE \E b \in Bodies(s, t) : b.segmentNumber = i
  <2>1. PICK b \in Bodies(s, t) : b.segmentNumber = i
    BY <1>7
  <2>2. b \in GroupsOf(s) /\ e \in GroupsOf(s) /\ b.groupType = 4 /\ e.groupType = 4
        /\ b.transportId = e.transportId
    BY DEF Bodies, GroupsOf
  <2>3. i <= e.segmentNumber
    BY <1>6, <2>1, <2>2 DEF LastIsLast
  <2>4. i \in Nat /\ e.segmentNumber \in Nat
    BY <2>2, GroupsAreSound, SegAssumption DEF SegmentNumbers
  <2>5. i \in 0 .. n - 1
    BY <1>6, <2>3, <2>4
  <2>6. i = g.segmentNumber \/ h.motMap[i] # Lacking
    BY <1>1, <2>5 DEF Has
  <2>7. m[i] = [service |-> s, whole |-> TRUE]
    BY <1>2, <1>4, <2>6 DEF ObjectOf
  <2> QED
    BY <1>7, <2>7 DEF m
<1>8. CASE ~\E b \in Bodies(s, t) : b.segmentNumber = i
  <2>1. i # g.segmentNumber
    BY <1>3, <1>8
  <2>2. m[i] = Lacking
    BY <1>2, <1>4, <1>8, <2>1 DEF ObjectOf
  <2> QED
    BY <1>8, <2>2 DEF m
<1> QED
  BY <1>7, <1>8

-----------------------------------------------------------------------------
(* The table.                                                              *)

\* A set of natural numbers has a smallest one.
LEMMA LeastOf ==
  ASSUME NEW S \in SUBSET Nat, S # {}
  PROVE  Min(S) \in S /\ \A x \in S : Min(S) <= x
<1> DEFINE R == OpToRel(<, Nat)
<1>1. R = {p \in Nat \X Nat : p[1] < p[2]}
  BY Zenon DEF OpToRel
<1>2. IsWellFoundedOn(R, Nat)
  BY NatLessThanWellFounded, Zenon
<1> HIDE DEF R
<1>4. PICK x \in S : \A y \in S : <<y, x>> \notin R
  BY <1>2, WFMin
<1>5. \A y \in S : x <= y
  <2> SUFFICES ASSUME NEW y \in S
               PROVE  x <= y
    OBVIOUS
  <2>1. y \in Nat /\ x \in Nat
    OBVIOUS
  <2>2. <<y, x>> \in {p \in Nat \X Nat : p[1] < p[2]} <=> y < x
    BY <2>1
  <2> QED
    BY <1>1, <1>4, <2>1, <2>2
<1> QED
  BY <1>4, <1>5 DEF Min

\* A set of slots has a first one.
LEMMA FirstSlot ==
  ASSUME NEW S \in SUBSET Slots, S # {}
  PROVE  Min(S) \in S
<1>1. S \in SUBSET Nat
  BY SlotsAssumption DEF Slots
<1> QED
  BY <1>1, LeastOf

\* Wherever setHandle puts an object of a service, the table stays sound.
LEMMA SetHandleKeeps ==
  ASSUME IdsApart, TableTypes, TableOf, NEW s \in Services, NEW g \in GroupsOf(s),
         NEW h \in Object, ObjectOf(s, g.transportId, h), setHandle(s, g.transportId, h)
  PROVE  TableTypes' /\ TableOf'
<1> DEFINE i == IF FreeSlots # {} THEN Min(FreeSlots) ELSE Oldest(s)
           r == [orderNumber |-> orderNumber[s], transportId |-> g.transportId, motSlide |-> h]
           table == [motTable EXCEPT ![i] = r]
           orders == [orderNumber EXCEPT ![s] = @ + 1]
           positive == {n \in {table[j].orderNumber : j \in Slots} \cup
                              {orders[q] : q \in Services} : n > 0}
           down(n) == IF n > 0 THEN n - Min(positive) + 1 ELSE n
<1>1. motTable' = [j \in Slots |-> [table[j] EXCEPT !.orderNumber = down(@)]]
  BY DEF setHandle, Rebased
<1>2. ASSUME NEW j \in Slots
      PROVE  table[j] = motTable[j] \/ table[j] = r
  BY DEF TableTypes
<1> HIDE DEF table, i, down
<1>3. ASSUME NEW j \in Slots
      PROVE  /\ IsEntry(motTable'[j])
             /\ motTable'[j].transportId = table[j].transportId
             /\ motTable'[j].motSlide = table[j].motSlide
  <2>1. IsEntry(r)
    BY DEF IsEntry, HasFields
  <2>2. IsEntry(table[j])
    BY <1>2, <2>1 DEF TableTypes
  <2> DEFINE x == down(table[j].orderNumber)
  <2>3. motTable'[j] = [table[j] EXCEPT !.orderNumber = x]
    BY <1>1
  <2> HIDE DEF x
  <2>4. motTable'[j] = [orderNumber |-> x, transportId |-> table[j].transportId,
                        motSlide |-> table[j].motSlide]
    BY <2>2, <2>3 DEF IsEntry, HasFields
  <2> QED
    BY <2>2, <2>4 DEF IsEntry, HasFields
<1>4. TableTypes'
  BY <1>1, <1>3 DEF TableTypes
<1>5. TableOf'
  <2> SUFFICES ASSUME NEW j \in Slots, NEW q \in Services, NEW k \in GroupsOf(q),
                      motTable'[j].transportId = k.transportId
               PROVE  ObjectOf(q, k.transportId, motTable'[j].motSlide)
    BY DEF TableOf
  <2>1. CASE table[j] = motTable[j]
    BY <1>3, <2>1 DEF TableOf
  <2>2. CASE table[j] = r
    <3>1. k.transportId = g.transportId /\ motTable'[j].motSlide = h
      BY <1>3, <2>2
    <3>2. q = s
      BY <3>1 DEF IdsApart
    <3> QED
      BY <3>1, <3>2
  <2> QED
    BY <1>2, <2>1, <2>2
<1> QED
  BY <1>4, <1>5

\* The entry found for the id of a group holds an object of its service.
LEMMA FoundIsOfObject ==
  ASSUME TableTypes, TableOf, NEW s \in Services, NEW g \in GroupsOf(s),
         InTable(g.transportId) # {}
  PROVE  /\ Min(InTable(g.transportId)) \in Slots
         /\ motTable[Min(InTable(g.transportId))].transportId = g.transportId
         /\ motTable[Min(InTable(g.transportId))].motSlide \in Object
         /\ ObjectOf(s, g.transportId, motTable[Min(InTable(g.transportId))].motSlide)
<1>1. InTable(g.transportId) \in SUBSET Slots
  BY DEF InTable
<1>2. Min(InTable(g.transportId)) \in InTable(g.transportId)
  BY <1>1, FirstSlot
<1> QED
  BY <1>1, <1>2 DEF InTable, TableTypes, TableOf, IsEntry, HasFields

\* What is shown with an undamaged segment is whole.
LEMMA ShownIsWhole ==
  ASSUME LastIsLast, HandedIsWhole, shown \in [Services -> SUBSET Handed],
         NEW s \in Services, NEW g \in GroupsOf(s), NEW h \in Object, g.groupType = 4,
         h # NoObject, ObjectOf(s, g.transportId, h), Shown(s, g.transportId, h, g, TRUE)
  PROVE  shown' \in [Services -> SUBSET Handed] /\ HandedIsWhole'
<1>1. CASE ~Completes(h, g)
  BY <1>1 DEF Shown, HandedIsWhole
<1>2. CASE Completes(h, g)
  <2> DEFINE m == addBodySegment(h, g, TRUE).motMap
             x == [transportId |-> g.transportId, motMap |-> m]
  <2>1. shown' = [shown EXCEPT ![s] = @ \cup {x}]
    BY <1>2 DEF Shown
  <2>2. m \in [SegmentNumbers -> Segment]
    BY AddedIsObject DEF Object
  <2>3. \A i \in SegmentNumbers :
          m[i] = IF \E b \in Bodies(s, g.transportId) : b.segmentNumber = i
                 THEN [service |-> s, whole |-> TRUE] ELSE Lacking
    BY <1>2, CompletedIsWhole
  <2> HIDE DEF m
  <2>4. x \in Handed /\ x.transportId = g.transportId /\ x.motMap = m
    BY <2>2, GroupsAreSound DEF Handed
  <2> HIDE DEF x
  <2>5. shown' \in [Services -> SUBSET Handed]
    BY <2>1, <2>4
  <2>6. HandedIsWhole'
    <3> SUFFICES ASSUME NEW q \in Services, NEW y \in shown'[q], NEW i \in SegmentNumbers
                 PROVE  y.motMap[i] = IF \E b \in Bodies(q, y.transportId) : b.segmentNumber = i
                                      THEN [service |-> q, whole |-> TRUE] ELSE Lacking
      BY DEF HandedIsWhole
    <3>1. y \in shown[q] \/ (q = s /\ y = x)
      BY <2>1
    <3>2. CASE y \in shown[q]
      BY <3>2 DEF HandedIsWhole
    <3>3. CASE q = s /\ y = x
      BY <2>3, <2>4, <3>3
    <3> QED
      BY <3>1, <3>2, <3>3
  <2> QED
    BY <2>5, <2>6
<1> QED
  BY <1>1, <1>2

-----------------------------------------------------------------------------
(* The steps of motHandler.                                                *)

\* What they keep.
MotInv == MotTypes /\ TableOf /\ DirectoryOf /\ HandedIsWhole

\* A header makes an object without segments.
LEMMA HeaderKeeps ==
  ASSUME IdsApart, MotInv, NEW s \in Services, NEW g \in GroupsOf(s), Header(s, g)
  PROVE  MotInv'
<1>1. setHandle(s, g.transportId, NewObject) /\ UNCHANGED <<theDirectory, shown>>
  BY DEF Header
<1>2. TableTypes' /\ TableOf'
  BY <1>1, SetHandleKeeps, NewObjects, NewIsOfObject DEF MotInv, MotTypes
<1>3. DirectoryOf' /\ HandedIsWhole'
  BY <1>1 DEF MotInv, DirectoryOf, HandedIsWhole
<1> QED
  BY <1>1, <1>2, <1>3 DEF MotInv, MotTypes

\* A body segment without an object makes one with this segment.
LEMMA BodyOfNewKeeps ==
  ASSUME IdsApart, LastIsLast, MotInv, NEW s \in Services, NEW g \in GroupsOf(s),
         BodyOfNew(s, g, TRUE)
  PROVE  MotInv'
<1> DEFINE a == addBodySegment(NewObject, g, TRUE)
<1>1. /\ g.groupType = 4 /\ setHandle(s, g.transportId, a)
      /\ Shown(s, g.transportId, NewObject, g, TRUE) /\ UNCHANGED theDirectory
  BY DEF BodyOfNew
<1>2. ObjectOf(s, g.transportId, NewObject)
  BY NewIsOfObject
<1>3. a \in Object
  BY NewObjects, AddedIsObject
<1>4. ObjectOf(s, g.transportId, a)
  BY <1>1, <1>2, NewObjects, AddedIsOfObject
<1> HIDE DEF a
<1>5. TableTypes' /\ TableOf'
  BY <1>1, <1>3, <1>4, SetHandleKeeps DEF MotInv, MotTypes
<1>6. shown' \in [Services -> SUBSET Handed] /\ HandedIsWhole'
  BY <1>1, <1>2, NewObjects, ShownIsWhole DEF MotInv, MotTypes
<1>7. DirectoryOf'
  BY <1>1 DEF MotInv, DirectoryOf
<1> QED
  BY <1>1, <1>5, <1>6, <1>7 DEF MotInv, MotTypes

\* A body segment of an object of the table; no other service has this id.
LEMMA BodyInTableKeeps ==
  ASSUME IdsApart, LastIsLast, MotInv, NEW s \in Services, NEW g \in GroupsOf(s),
         BodyInTable(s, g, TRUE)
  PROVE  MotInv'
<1> DEFINE i == Min(InTable(g.transportId))
           h == motTable[i].motSlide
           a == addBodySegment(h, g, TRUE)
<1>1. /\ g.groupType = 4 /\ InTable(g.transportId) # {} /\ h # NoObject
      /\ motTable' = [motTable EXCEPT ![i].motSlide = a]
      /\ Shown(s, g.transportId, h, g, TRUE) /\ UNCHANGED <<orderNumber, theDirectory, earlier>>
  BY DEF BodyInTable
<1>2. /\ i \in Slots /\ motTable[i].transportId = g.transportId
      /\ h \in Object /\ ObjectOf(s, g.transportId, h)
  BY <1>1, FoundIsOfObject DEF MotInv, MotTypes
<1>3. a \in Object
  BY <1>2, AddedIsObject
<1>4. ObjectOf(s, g.transportId, a)
  BY <1>1, <1>2, AddedIsOfObject
<1>5. shown' \in [Services -> SUBSET Handed] /\ HandedIsWhole'
  BY <1>1, <1>2, ShownIsWhole DEF MotInv, MotTypes
<1> HIDE DEF a, h, i
<1>6. ASSUME NEW j \in Slots, j # i
      PROVE  motTable'[j] = motTable[j]
  BY <1>1, <1>6
<1>7. motTable'[i] = [motTable[i] EXCEPT !.motSlide = a]
  BY <1>1, <1>2 DEF MotInv, MotTypes, TableTypes
<1>8. motTable'[i] = [orderNumber |-> motTable[i].orderNumber,
                      transportId |-> g.transportId, motSlide |-> a]
  BY <1>2, <1>7 DEF MotInv, MotTypes, TableTypes, IsEntry, HasFields
<1>9. TableTypes'
  <2>1. motTable' = [j \in Slots |-> motTable'[j]]
    BY <1>1 DEF MotInv, MotTypes, TableTypes
  <2>2. IsEntry(motTable'[i])
    BY <1>3, <1>8 DEF IsEntry, HasFields
  <2>3. \A j \in Slots : IsEntry(motTable'[j])
    BY <1>6, <2>2 DEF MotInv, MotTypes, TableTypes
  <2> QED
    BY <2>1, <2>3 DEF TableTypes
<1>10. TableOf'
  <2> SUFFICES ASSUME NEW j \in Slots, NEW q \in Services, NEW k \in GroupsOf(q),
                      motTable'[j].transportId = k.transportId
               PROVE  ObjectOf(q, k.transportId, motTable'[j].motSlide)
    BY DEF TableOf
  <2>1. CASE j # i
    BY <1>6, <2>1 DEF MotInv, TableOf
  <2>2. CASE j = i
    <3>1. k.transportId = g.transportId /\ motTable'[j].motSlide = a
      BY <1>8, <2>2
    <3>2. q = s
      BY <3>1 DEF IdsApart
    <3> QED
      BY <1>4, <3>1, <3>2
  <2> QED
    BY <2>1, <2>2
<1>11. DirectoryOf'
  BY <1>1 DEF MotInv, DirectoryOf
<1> QED
  BY <1>1, <1>5, <1>9, <1>10, <1>11 DEF MotInv, MotTypes

\* One of an object of the directory.
LEMMA BodyInDirectoryKeeps ==
  ASSUME LastIsLast, MotInv, NEW s \in Services, NEW g \in GroupsOf(s),
         BodyInDirectory(s, g, TRUE)
  PROVE  MotInv'
<1> DEFINE t == g.transportId
           h == theDirectory[s].motComponents[t]
           a == addBodySegment(h, g, TRUE)
<1>1. /\ g.groupType = 4 /\ h # NoObject
      /\ theDirectory' = [theDirectory EXCEPT ![s].motComponents[t] = a]
      /\ Shown(s, t, h, g, TRUE) /\ UNCHANGED <<motTable, orderNumber, earlier>>
  BY DEF BodyInDirectory
<1>2. t \in TIds
  BY GroupsAreSound
<1>3. h \in Object /\ ObjectOf(s, t, h)
  BY <1>2 DEF MotInv, MotTypes, Directory, DirectoryOf
<1>4. a \in Object
  BY <1>3, AddedIsObject
<1>5. ObjectOf(s, t, a)
  BY <1>1, <1>3, AddedIsOfObject
<1>6. shown' \in [Services -> SUBSET Handed] /\ HandedIsWhole'
  BY <1>1, <1>3, ShownIsWhole DEF MotInv, MotTypes
<1> HIDE DEF a, h, t
<1>7. theDirectory' \in [Services -> Directory]
  BY <1>1, <1>2, <1>4 DEF MotInv, MotTypes, Directory
<1>8. ASSUME NEW q \in Services, NEW u \in TIds
      PROVE  theDirectory'[q].motComponents[u] = IF q = s /\ u = t THEN a
                                                 ELSE theDirectory[q].motComponents[u]
  BY <1>1, <1>2 DEF MotInv, MotTypes, Directory
<1>9. DirectoryOf'
  BY <1>5, <1>8 DEF MotInv, DirectoryOf
<1>10. TableTypes' /\ TableOf'
  BY <1>1 DEF MotInv, MotTypes, TableTypes, TableOf
<1> QED
  BY <1>6, <1>7, <1>9, <1>10 DEF MotInv, MotTypes
\* A directory that is analysed has a new object for each entry.
LEMMA AnalysedIsSound ==
  ASSUME NEW s, NEW d \in Directory
  PROVE  /\ Analysed(d) \in Directory
         /\ \A t \in TIds : ObjectOf(s, t, Analysed(d).motComponents[t])
<1> DEFINE c == [t \in TIds |-> IF t \in DirObjects[d.transportId] THEN NewObject ELSE NoObject]
<1>1. Analysed(d) = [d EXCEPT !.motComponents = c]
  BY DEF Analysed
<1>2. c \in [TIds -> Object]
  BY NewObjects
<1>3. \A t \in TIds : ObjectOf(s, t, c[t])
  BY NewIsOfObject
<1> HIDE DEF c
<1> QED
  BY <1>1, <1>2, <1>3 DEF Directory

\* A directory put in the place of another.
LEMMA DirectoryPut ==
  ASSUME MotInv, NEW s \in Services, NEW d \in Directory,
         \A t \in TIds : ObjectOf(s, t, d.motComponents[t]),
         theDirectory' = [theDirectory EXCEPT ![s] = d],
         UNCHANGED <<motTable, shown>>
  PROVE  MotInv'
<1>1. theDirectory' \in [Services -> Directory]
  BY DEF MotInv, MotTypes
<1>2. DirectoryOf'
  BY DEF MotInv, MotTypes, DirectoryOf
<1>3. TableTypes' /\ TableOf' /\ HandedIsWhole' /\ shown' \in [Services -> SUBSET Handed]
  BY DEF MotInv, MotTypes, TableTypes, TableOf, HandedIsWhole
<1> QED
  BY <1>1, <1>2, <1>3 DEF MotInv, MotTypes

\* The directory without entries.
LEMMA NoDirectoryIsSound ==
  /\ NoDirectory \in Directory
  /\ \A s, t : t \in TIds => ObjectOf(s, t, NoDirectory.motComponents[t])
BY NewObjects, NewIsOfObject DEF NoDirectory, Directory

\* The first segment of a directory.
LEMMA NewDirectoryKeeps ==
  ASSUME MotInv, NEW s \in Services, NEW g \in GroupsOf(s), NewDirectory(s, g)
  PROVE  MotInv'
<1> DEFINE d == [NoDirectory EXCEPT !.transportId = g.transportId, !.marked = {0}]
<1>1. /\ theDirectory' = [theDirectory EXCEPT ![s] = IF g.last THEN Analysed(d) ELSE d]
      /\ UNCHANGED <<motTable, shown>>
  BY DEF NewDirectory
<1>2. d = [transportId |-> g.transportId, marked |-> {0}, num_dirSegments |-> -1,
           motComponents |-> NoDirectory.motComponents]
  <2> DEFINE c == [NoDirectory EXCEPT !.transportId = g.transportId]
  <2>1. c = [transportId |-> g.transportId, marked |-> {}, num_dirSegments |-> -1,
             motComponents |-> NoDirectory.motComponents]
    BY DEF NoDirectory
  <2>2. d = [c EXCEPT !.marked = {0}]
    OBVIOUS
  <2> HIDE DEF c, d
  <2> QED
    BY <2>1, <2>2
<1>3. NoDirectory.motComponents \in [TIds -> Object] /\ g.transportId \in TIds
  BY NoDirectoryIsSound, GroupsAreSound DEF Directory
<1> HIDE DEF d
<1>4. d \in Directory /\ d.motComponents = NoDirectory.motComponents
  BY <1>2, <1>3 DEF Directory
<1>5. CASE g.last
  <2>1. theDirectory' = [theDirectory EXCEPT ![s] = Analysed(d)]
    BY <1>1, <1>5
  <2> QED
    BY <1>1, <1>4, <2>1, AnalysedIsSound, DirectoryPut
<1>6. CASE ~g.last
  <2>1. theDirectory' = [theDirectory EXCEPT ![s] = d]
    BY <1>1, <1>6
  <2>2. \A t \in TIds : ObjectOf(s, t, d.motComponents[t])
    BY <1>4, NoDirectoryIsSound
  <2> QED
    BY <1>1, <1>4, <2>1, <2>2, DirectoryPut
<1> QED
  BY <1>5, <1>6

\* Another one; with the one that completes it the directory is analysed.
LEMMA DirectorySegmentKeeps ==
  ASSUME MotInv, NEW s \in Services, NEW g \in GroupsOf(s), DirectorySegment(s, g)
  PROVE  MotInv'
<1> DEFINE d == theDirectory[s]
           k == d.marked \cup {g.segmentNumber}
           n == IF g.last THEN g.segmentNumber + 1 ELSE d.num_dirSegments
           m == [d EXCEPT !.marked = @ \cup {g.segmentNumber},
                          !.num_dirSegments = IF g.last THEN g.segmentNumber + 1 ELSE @]
           full == m.num_dirSegments # -1 /\ 0 .. m.num_dirSegments - 1 \subseteq m.marked
<1>1. /\ theDirectory' = [theDirectory EXCEPT ![s] = IF full THEN Analysed(m) ELSE m]
      /\ UNCHANGED <<motTable, shown>>
  BY DEF DirectorySegment
<1>2. d \in Directory
  BY DEF MotInv, MotTypes
<1>3. g.segmentNumber \in Int
  BY GroupsAreSound, SegAssumption DEF SegmentNumbers
<1>4. m = [transportId |-> d.transportId, marked |-> k, num_dirSegments |-> n,
           motComponents |-> d.motComponents]
  <2> DEFINE c == [d EXCEPT !.marked = k]
  <2>1. /\ m = [c EXCEPT !.num_dirSegments = IF g.last THEN g.segmentNumber + 1 ELSE @]
        /\ c = [d EXCEPT !.marked = k]
    OBVIOUS
  <2> HIDE DEF d, k, m
  <2>2. c = [transportId |-> d.transportId, marked |-> k,
             num_dirSegments |-> d.num_dirSegments, motComponents |-> d.motComponents]
    BY <1>2 DEF Directory
  <2> HIDE DEF c
  <2> QED
    BY <2>1, <2>2
<1>5. k \in SUBSET Int /\ n \in Int
  BY <1>2, <1>3 DEF Directory
<1>6. \A t \in TIds : ObjectOf(s, t, d.motComponents[t])
  BY DEF MotInv, DirectoryOf
<1> HIDE DEF m, full, k, n, d
<1>7. m \in Directory /\ m.motComponents = d.motComponents
  BY <1>2, <1>4, <1>5 DEF Directory
<1>8. CASE full
  <2>1. theDirectory' = [theDirectory EXCEPT ![s] = Analysed(m)]
    BY <1>1, <1>8
  <2> QED
    BY <1>1, <1>7, <2>1, AnalysedIsSound, DirectoryPut
<1>9. CASE ~full
  <2>1. theDirectory' = [theDirectory EXCEPT ![s] = m]
    BY <1>1, <1>9
  <2>2. \A t \in TIds : ObjectOf(s, t, m.motComponents[t])
    BY <1>6, <1>7
  <2> QED
    BY <1>1, <1>7, <2>1, <2>2, DirectoryPut
<1> QED
  BY <1>8, <1>9

\* A data group of the service.
LEMMA GroupKeeps ==
  ASSUME WellFormed, MotInv, NEW s \in Services, NEW g \in GroupsOf(s),
         NEW whole \in BOOLEAN, add_mscDatagroup(s, g, whole)
  PROVE  MotInv'
<1>1. CASE Rejected(g, whole) \/ Ignored(s, g)
  <2>1. UNCHANGED motVars
    BY <1>1 DEF add_mscDatagroup
  <2> QED
    BY <2>1 DEF motVars, MotInv, MotTypes, TableTypes, TableOf, DirectoryOf, HandedIsWhole
<1>2. CASE ~Rejected(g, whole) /\ ~Ignored(s, g)
  <2>1. g.groupType = 4 => whole = TRUE
    BY <1>2 DEF WellFormed, BodiesProtected, Rejected
  <2>2. CASE Header(s, g)
    BY <2>2, HeaderKeeps DEF WellFormed
  <2>3. CASE BodyOfNew(s, g, whole)
    <3>1. whole = TRUE
      BY <2>1, <2>3 DEF BodyOfNew
    <3>2. BodyOfNew(s, g, TRUE)
      BY <2>3, <3>1, Zenon
    <3> QED
      BY <3>2, BodyOfNewKeeps DEF WellFormed
  <2>4. CASE BodyInTable(s, g, whole)
    <3>1. whole = TRUE
      BY <2>1, <2>4 DEF BodyInTable
    <3>2. BodyInTable(s, g, TRUE)
      BY <2>4, <3>1, Zenon
    <3> QED
      BY <3>2, BodyInTableKeeps DEF WellFormed
  <2>5. CASE BodyInDirectory(s, g, whole)
    <3>1. whole = TRUE
      BY <2>1, <2>5 DEF BodyInDirectory
    <3>2. BodyInDirectory(s, g, TRUE)
      BY <2>5, <3>1, Zenon
    <3> QED
      BY <3>2, BodyInDirectoryKeeps DEF WellFormed
  <2>6. CASE NewDirectory(s, g)
    BY <2>6, NewDirectoryKeeps
  <2>7. CASE DirectorySegment(s, g)
    BY <2>7, DirectorySegmentKeeps
  <2> QED
    BY <1>2, <2>2, <2>3, <2>4, <2>5, <2>6, <2>7 DEF add_mscDatagroup
<1> QED
  BY <1>1, <1>2

\* A new handler empties the table of all.
LEMMA NewMotHandlerKeeps ==
  ASSUME MotInv, NEW s \in Services, newMotHandler(s)
  PROVE  MotInv'
<1>1. /\ theDirectory' = [theDirectory EXCEPT ![s] = NoDirectory]
      /\ motTable' = [i \in Slots |-> FreeSlot] /\ shown' = shown
  BY DEF newMotHandler
<1>2. \A i \in Slots : motTable'[i] = FreeSlot
  BY <1>1
<1>3. IsEntry(FreeSlot) /\ FreeSlot.motSlide = NoObject
  BY NewObjects DEF IsEntry, HasFields, FreeSlot
<1>4. TableTypes'
  BY <1>1, <1>2, <1>3 DEF TableTypes
<1>5. TableOf'
  BY <1>2, <1>3, NewIsOfObject DEF TableOf
<1>6. theDirectory' \in [Services -> Directory] /\ DirectoryOf'
  BY <1>1, NoDirectoryIsSound DEF MotInv, MotTypes, DirectoryOf
<1>7. HandedIsWhole'
  BY <1>1 DEF MotInv, HandedIsWhole
<1> QED
  BY <1>1, <1>4, <1>5, <1>6, <1>7 DEF MotInv, MotTypes

\* One that is deleted takes the objects of the table with it, of all.
LEMMA DeleteMotHandlerKeeps ==
  ASSUME MotInv, NEW s \in Services, deleteMotHandler(s)
  PROVE  MotInv'
<1>1. /\ theDirectory' = [theDirectory EXCEPT ![s] = NoDirectory]
      /\ motTable' = [i \in Slots |-> IF motTable[i].orderNumber > 0
                                      THEN [motTable[i] EXCEPT !.motSlide = NoObject]
                                      ELSE motTable[i]]
      /\ shown' = [shown EXCEPT ![s] = {}]
  BY DEF deleteMotHandler
<1>2. ASSUME NEW i \in Slots
      PROVE  /\ IsEntry(motTable'[i]) /\ motTable'[i].transportId = motTable[i].transportId
             /\ motTable'[i].motSlide \in {motTable[i].motSlide, NoObject}
  <2>1. IsEntry(motTable[i])
    BY DEF MotInv, MotTypes, TableTypes
  <2>2. CASE motTable[i].orderNumber > 0
    <3>1. motTable'[i] = [motTable[i] EXCEPT !.motSlide = NoObject]
      BY <1>1, <2>2
    <3>2. motTable'[i] = [orderNumber |-> motTable[i].orderNumber,
                          transportId |-> motTable[i].transportId, motSlide |-> NoObject]
      BY <2>1, <3>1 DEF IsEntry, HasFields
    <3> QED
      BY <3>2, NewObjects DEF IsEntry, HasFields
  <2>3. CASE ~(motTable[i].orderNumber > 0)
    <3>1. motTable'[i] = motTable[i]
      BY <1>1, <2>3
    <3> QED
      BY <2>1, <3>1
  <2> QED
    BY <2>2, <2>3
<1>3. TableTypes'
  BY <1>1, <1>2 DEF TableTypes
<1>4. TableOf'
  BY <1>2, NewIsOfObject DEF MotInv, TableOf
<1>5. theDirectory' \in [Services -> Directory] /\ DirectoryOf'
  BY <1>1, NoDirectoryIsSound DEF MotInv, MotTypes, DirectoryOf
<1>6. shown' \in [Services -> SUBSET Handed] /\ HandedIsWhole'
  BY <1>1 DEF MotInv, MotTypes, HandedIsWhole
<1> QED
  BY <1>3, <1>4, <1>5, <1>6 DEF MotInv, MotTypes

-----------------------------------------------------------------------------
(* The specification.                                                      *)

\* What the packets keep.
PacketInv == PacketTypes /\ Packets

\* No packet collected, an empty table, the carousels at their beginning.
LEMMA InitSound == Init => IInv
<1> SUFFICES ASSUME Init PROVE IInv
  OBVIOUS
<1>1. /\ packetState = [s \in Services |-> 0] /\ series = [s \in Services |-> EmptySeries]
      /\ tx = [s \in Services |-> Start0]
  BY DEF Init, dpInit
<1>2. /\ motTable = [i \in Slots |-> FreeSlot]
      /\ theDirectory = [s \in Services |-> NoDirectory] /\ shown = [s \in Services |-> {}]
  BY DEF Init, motInit
<1>3. ASSUME NEW s \in Services
      PROVE  Len(Carousel[s]) \in Nat /\ Len(Carousel[s]) > 0
  BY CarouselAssumption
<1>4. PacketTypes
  BY <1>1 DEF PacketTypes, EmptySeries, Start0
<1>5. Packets
  <2> SUFFICES ASSUME NEW s \in Services
               PROVE  /\ tx[s].group \in 1 .. Len(Carousel[s])
                      /\ series[s].group \in GroupsOf(s) \cup {NoGroup}
                      /\ packetState[s] = 1 => series[s].group # NoGroup
    BY DEF Packets
  <2>1. tx[s].group = 1 /\ series[s].group = NoGroup /\ packetState[s] = 0
    BY <1>1 DEF EmptySeries, Start0
  <2> QED
    BY <1>3, <2>1
<1>6. IsEntry(FreeSlot) /\ FreeSlot.motSlide = NoObject
  BY NewObjects DEF IsEntry, HasFields, FreeSlot
<1>7. TableTypes /\ TableOf
  <2>1. \A i \in Slots : motTable[i] = FreeSlot
    BY <1>2
  <2>2. TableTypes
    BY <1>2, <1>6, <2>1 DEF TableTypes
  <2>3. TableOf
    BY <1>6, <2>1, NewIsOfObject DEF TableOf
  <2> QED
    BY <2>2, <2>3
<1>8. theDirectory \in [Services -> Directory] /\ DirectoryOf
  BY <1>2, NoDirectoryIsSound DEF DirectoryOf
<1>9. shown \in [Services -> SUBSET Handed] /\ HandedIsWhole
  BY <1>2 DEF HandedIsWhole
<1> QED
  BY <1>4, <1>5, <1>7, <1>8, <1>9 DEF IInv, MotTypes

\* What the handlers keep does not depend on anything else.
LEMMA MotUnchanged ==
  ASSUME MotInv, UNCHANGED motVars
  PROVE  MotInv'
BY DEF motVars, MotInv, MotTypes, TableTypes, TableOf, DirectoryOf, HandedIsWhole

\* A packet, whatever became of it, and the transmitter's step after it.
LEMMA PacketStep ==
  ASSUME PacketInv, NEW s \in Services, NEW p, p.group = Sent(s), handlePacket(s, p),
         Advance(s) \/ UNCHANGED tx
  PROVE  PacketInv'
<1>1. /\ packetState' \in [Services -> Int]
      /\ series' \in [Services -> [group : Groups \cup {NoGroup}, upto : Int]]
      /\ \A r \in Services : /\ series'[r].group \in GroupsOf(r) \cup {NoGroup}
                             /\ packetState'[r] = 1 => series'[r].group # NoGroup
  BY PacketKeeps DEF PacketInv
<1>2. /\ tx' \in [Services -> [group : Int, nr : Int, CI : Int]]
      /\ \A r \in Services : tx'[r].group \in 1 .. Len(Carousel[r])
  BY AdvanceKeeps DEF PacketInv, PacketTypes, Packets
<1> QED
  BY <1>1, <1>2 DEF PacketInv, PacketTypes, Packets

\* A handler that is made or deleted collects nothing.
LEMMA NewDataProcessorKeeps ==
  ASSUME PacketInv, NEW s \in Services, newDataProcessor(s), UNCHANGED tx
  PROVE  PacketInv'
BY DEF PacketInv, PacketTypes, Packets, newDataProcessor, EmptySeries

\* Every step keeps the invariant.
LEMMA StepSound == WellFormed /\ IInv /\ [Next]_vars => IInv'
<1> SUFFICES ASSUME WellFormed, IInv, [Next]_vars PROVE IInv'
  OBVIOUS
<1>0. PacketInv /\ MotInv
  BY DEF IInv, PacketInv, MotInv
<1>a. ASSUME PacketInv', MotInv' PROVE IInv'
  BY <1>a DEF IInv, PacketInv, MotInv
<1>1. ASSUME NEW s \in Services, Receive(s)
      PROVE  IInv'
  <2> DEFINE p == NextPacket(s)
             h == HandedOver(s, p)
  <2>1. /\ handlePacket(s, p) /\ Advance(s)
        /\ IF h = EmptySeries THEN UNCHANGED motVars
           ELSE add_mscDatagroup(s, h.group, IsWhole(h))
    BY <1>1 DEF Receive
  <2>2. p.group = Sent(s)
    BY DEF NextPacket
  <2>3. PacketInv'
    BY <1>0, <2>1, <2>2, PacketStep
  <2>4. CASE h = EmptySeries
    BY <1>0, <1>a, <2>1, <2>3, <2>4, MotUnchanged
  <2>5. CASE h # EmptySeries
    <3>1. h.group \in GroupsOf(s) /\ IsWhole(h) \in BOOLEAN
      BY <1>0, <2>5, HandedOverIsOne DEF PacketInv
    <3>2. add_mscDatagroup(s, h.group, IsWhole(h))
      BY <2>1, <2>5
    <3> HIDE DEF h
    <3>3. MotInv'
      BY <1>0, <3>1, <3>2, GroupKeeps
    <3> QED
      BY <1>a, <2>3, <3>3
  <2> QED
    BY <2>4, <2>5
<1>2. ASSUME NEW s \in Services, Damaged(s)
      PROVE  IInv'
  <2>1. Advance(s) /\ UNCHANGED motVars
    BY <1>2 DEF Damaged
  <2>2. PICK ci \in 0..3 : handlePacket(s, [NextPacket(s) EXCEPT !.CI = ci, !.crc = FALSE])
    BY <1>2 DEF Damaged
  <2> DEFINE p == [NextPacket(s) EXCEPT !.CI = ci, !.crc = FALSE]
  <2>3. p.group = Sent(s)
    BY DEF NextPacket
  <2> HIDE DEF p
  <2>4. handlePacket(s, p)
    BY <2>2 DEF p
  <2> QED
    BY <1>0, <1>a, <2>1, <2>3, <2>4, PacketStep, MotUnchanged
<1>3. ASSUME NEW s \in Services, Lost(s)
      PROVE  IInv'
  <2>1. Advance(s) /\ UNCHANGED <<packetState, series>> /\ UNCHANGED motVars
    BY <1>3 DEF Lost, dpVars
  <2>2. /\ tx' \in [Services -> [group : Int, nr : Int, CI : Int]]
        /\ \A r \in Services : tx'[r].group \in 1 .. Len(Carousel[r])
    BY <1>0, <2>1, AdvanceKeeps DEF PacketInv, PacketTypes, Packets
  <2>3. PacketInv'
    BY <1>0, <2>1, <2>2 DEF PacketInv, PacketTypes, Packets
  <2> QED
    BY <1>0, <1>a, <2>1, <2>3, MotUnchanged
<1>4. ASSUME NEW s \in Services, Foreign(s)
      PROVE  IInv'
  <2>1. UNCHANGED tx /\ UNCHANGED motVars
    BY <1>4 DEF Foreign
  <2>2. PICK ci \in 0..3 :
          handlePacket(s, [NextPacket(s) EXCEPT !.CI = ci, !.address = "other"])
    BY <1>4 DEF Foreign
  <2> DEFINE p == [NextPacket(s) EXCEPT !.CI = ci, !.address = "other"]
  <2>3. p.group = Sent(s)
    BY DEF NextPacket
  <2> HIDE DEF p
  <2>4. handlePacket(s, p)
    BY <2>2 DEF p
  <2> QED
    BY <1>0, <1>a, <2>1, <2>3, <2>4, PacketStep, MotUnchanged
<1>5. ASSUME NEW s \in Services, Select(s)
      PROVE  IInv'
  <2>1. newDataProcessor(s) /\ newMotHandler(s) /\ UNCHANGED tx
    BY <1>5 DEF Select
  <2> QED
    BY <1>0, <1>a, <2>1, NewDataProcessorKeeps, NewMotHandlerKeeps
<1>6. ASSUME NEW s \in Services, Leave(s)
      PROVE  IInv'
  <2>1. newDataProcessor(s) /\ deleteMotHandler(s) /\ UNCHANGED tx
    BY <1>6 DEF Leave
  <2> QED
    BY <1>0, <1>a, <2>1, NewDataProcessorKeeps, DeleteMotHandlerKeeps
<1>7. CASE UNCHANGED <<dpVars, motVars, tx>>
  <2>1. PacketInv'
    BY <1>0, <1>7 DEF dpVars, PacketInv, PacketTypes, Packets
  <2> QED
    BY <1>0, <1>a, <1>7, <2>1, MotUnchanged
<1>8. CASE Settle \/ UNCHANGED vars
  <2>1. UNCHANGED <<dpVars, motVars, tx>>
    BY <1>8 DEF Settle, vars
  <2> QED
    BY <1>7, <2>1
<1> QED
  BY <1>1, <1>2, <1>3, <1>4, <1>5, <1>6, <1>8 DEF Next

\* The invariant holds in every state.
THEOREM Invariance == WellFormed => (Spec => []IInv)
<1> SUFFICES ASSUME WellFormed PROVE Spec => []IInv
  OBVIOUS
<1>1. Init => IInv
  BY InitSound
<1>2. IInv /\ [Next]_vars => IInv'
  BY StepSound
<1>3. Spec => Init /\ [][Next]_vars
  BY PTL DEF Spec
<1> QED
  BY <1>1, <1>2, <1>3, PTL

\* motHandler gives an object to the GUI (handleComplete) only with every
\* segment its service sent for it, each undamaged, and with no other.
THEOREM HandedAreWhole == WellFormed => (Spec => []HandedIsWhole)
<1>1. IInv => HandedIsWhole
  BY DEF IInv
<1> QED
  BY <1>1, Invariance, PTL

-----------------------------------------------------------------------------
(* The age of the objects in the table.                                    *)

\* One handler at a time: with two of them the order numbers are not compared
\* with those of the same count.
OneService == \A s, r \in Services : s = r

\* Every object is younger than those with smaller order numbers, and the
\* number the handler of a selected service gives next is greater than all.
AgeInv ==
  /\ motTable = [i \in Slots |-> motTable[i]]
  /\ \A i \in Slots : /\ HasFields(motTable[i])
                      /\ motTable[i].orderNumber \in Int /\ motTable[i].orderNumber >= -1
  /\ orderNumber \in [Services -> Nat]
  /\ active \subseteq Services
  /\ \A s \in active, i \in Slots : motTable[i].orderNumber < orderNumber[s]
  /\ \A i, j \in Slots :
       /\ i # j /\ motTable[i].orderNumber >= 0
       /\ motTable[i].orderNumber <= motTable[j].orderNumber
       => /\ motTable[i].orderNumber < motTable[j].orderNumber
          /\ <<i, j>> \in earlier
\* Moving the numbers down changes the order of no two of them.
LEMMA RebasedKeepsOrder ==
  ASSUME NEW table, NEW orders \in [Services -> Nat], Rebased(table, orders),
         \A i \in Slots : /\ HasFields(table[i])
                          /\ table[i].orderNumber \in Int /\ table[i].orderNumber >= -1
  PROVE  /\ motTable' = [i \in Slots |-> motTable'[i]]
         /\ \A i \in Slots :
              /\ HasFields(motTable'[i])
              /\ motTable'[i].transportId = table[i].transportId
              /\ motTable'[i].orderNumber \in Int /\ motTable'[i].orderNumber >= -1
              /\ motTable'[i].orderNumber >= 0 <=> table[i].orderNumber >= 0
         /\ orderNumber' \in [Services -> Nat]
         /\ \A i, j \in Slots : motTable'[i].orderNumber < motTable'[j].orderNumber
                                <=> table[i].orderNumber < table[j].orderNumber
         /\ \A i \in Slots, s \in Services :
              table[i].orderNumber < orders[s]
              => motTable'[i].orderNumber < orderNumber'[s]
<1> DEFINE positive == {n \in {table[i].orderNumber : i \in Slots} \cup
                              {orders[s] : s \in Services} : n > 0}
           least == Min(positive)
           down(n) == IF n > 0 THEN n - least + 1 ELSE n
           N(i) == table[i].orderNumber
<1>1. /\ motTable' = [i \in Slots |-> [table[i] EXCEPT !.orderNumber = down(@)]]
      /\ orderNumber' = [s \in Services |-> down(orders[s])]
  BY DEF Rebased
<1>2. /\ \A i \in Slots : N(i) > 0 => N(i) \in positive
      /\ \A s \in Services : orders[s] > 0 => orders[s] \in positive
  OBVIOUS
<1>3. positive \in SUBSET Nat
  OBVIOUS
<1>4. positive # {} => least \in positive /\ \A x \in positive : least <= x
  BY <1>3, LeastOf
<1> HIDE DEF positive, least
<1>5. ASSUME NEW n \in positive
      PROVE  n \in Nat /\ least \in Nat /\ least >= 1 /\ least <= n
  <2>1. least \in positive /\ least <= n
    BY <1>4
  <2>2. \A x \in positive : x > 0
    BY DEF positive
  <2> QED
    BY <1>3, <2>1, <2>2
<1>6. ASSUME NEW i \in Slots
      PROVE  /\ HasFields(motTable'[i]) /\ motTable'[i].transportId = table[i].transportId
             /\ motTable'[i].orderNumber = down(N(i))
  <2> DEFINE d == down(N(i))
  <2>1. motTable'[i] = [table[i] EXCEPT !.orderNumber = d]
    BY <1>1
  <2> HIDE DEF d
  <2>2. motTable'[i] = [orderNumber |-> d, transportId |-> table[i].transportId,
                        motSlide |-> table[i].motSlide]
    BY <2>1 DEF HasFields
  <2> HIDE DEF N
  <2> QED
    BY <2>2 DEF HasFields, d
<1>7. ASSUME NEW i \in Slots
      PROVE  down(N(i)) \in Int /\ down(N(i)) >= -1 /\ (down(N(i)) >= 0 <=> N(i) >= 0)
  <2>1. CASE N(i) > 0
    BY <1>2, <1>5, <2>1
  <2>2. CASE ~(N(i) > 0)
    BY <2>2
  <2> QED
    BY <2>1, <2>2
<1>8. ASSUME NEW s \in Services
      PROVE  down(orders[s]) \in Nat
  <2>1. CASE orders[s] > 0
    BY <1>2, <1>5, <2>1
  <2>2. CASE ~(orders[s] > 0)
    BY <2>2
  <2> QED
    BY <2>1, <2>2
<1>9. ASSUME NEW m \in Int, NEW n \in Int, m > 0 => m \in positive, n > 0 => n \in positive
      PROVE  down(m) < down(n) <=> m < n
  <2>1. CASE m > 0 /\ n > 0
    BY <1>5, <1>9, <2>1
  <2>2. CASE m > 0 /\ ~(n > 0)
    BY <1>5, <1>9, <2>2
  <2>3. CASE ~(m > 0) /\ n > 0
    BY <1>5, <1>9, <2>3
  <2>4. CASE ~(m > 0) /\ ~(n > 0)
    BY <2>4
  <2> QED
    BY <2>1, <2>2, <2>3, <2>4
<1> HIDE DEF down
<1>10. \A i, j \in Slots : down(N(i)) < down(N(j)) <=> N(i) < N(j)
  BY <1>2, <1>9
<1>11. ASSUME NEW i \in Slots, NEW s \in Services
       PROVE  down(N(i)) < down(orders[s]) <=> N(i) < orders[s]
  <2>1. N(i) \in Int /\ orders[s] \in Int
    OBVIOUS
  <2>2. /\ N(i) > 0 => N(i) \in positive
        /\ orders[s] > 0 => orders[s] \in positive
    BY <1>2
  <2> QED
    BY <1>9, <2>1, <2>2
<1>12. orderNumber' \in [Services -> Nat] /\ \A s \in Services : orderNumber'[s] = down(orders[s])
  BY <1>1, <1>8
<1>13. motTable' = [i \in Slots |-> motTable'[i]]
  BY <1>1
<1> QED
  BY <1>6, <1>7, <1>10, <1>11, <1>12, <1>13
\* The slot setHandle writes.
Written(s) == IF FreeSlots # {} THEN Min(FreeSlots) ELSE Oldest(s)

\* It is a free one, or the one with the smallest order number.
LEMMA WrittenIsOldest ==
  ASSUME AgeInv, NEW s \in active
  PROVE  /\ Written(s) \in Slots
         /\ FreeSlots = {} => \A j \in Slots :
                                motTable[Written(s)].orderNumber <= motTable[j].orderNumber
<1>1. CASE FreeSlots # {}
  <2>1. FreeSlots \in SUBSET Slots
    BY DEF FreeSlots
  <2> QED
    BY <1>1, <2>1, FirstSlot DEF Written
<1>2. CASE FreeSlots = {}
  <2> DEFINE older == {i \in Slots : motTable[i].orderNumber < orderNumber[s]}
             numbers == {motTable[i].orderNumber : i \in older}
             least == Min(numbers)
             oldest == {i \in older : motTable[i].orderNumber = least}
  <2>1. older = Slots /\ 0 \in Slots
    BY SlotsAssumption DEF AgeInv, Slots
  <2>2. \A i \in Slots : motTable[i].orderNumber \in Nat
    BY <1>2 DEF AgeInv, FreeSlots
  <2>3. numbers \in SUBSET Nat /\ numbers # {}
    BY <2>1, <2>2
  <2>4. least \in numbers /\ \A x \in numbers : least <= x
    BY <2>3, LeastOf
  <2>5. oldest \in SUBSET Slots /\ oldest # {}
    BY <2>1, <2>4
  <2>6. Min(oldest) \in oldest
    BY <2>5, FirstSlot
  <2>7. Written(s) = Min(oldest)
    BY <1>2, <2>1 DEF Written, Oldest
  <2>8. Written(s) \in Slots /\ motTable[Written(s)].orderNumber = least
    BY <2>6, <2>7
  <2> QED
    BY <2>1, <2>4, <2>8
<1> QED
  BY <1>1, <1>2

\* What the step promises of the one that gives way (OldestOut).
GivesWay ==
  \A i \in Slots :
    /\ FreeSlots = {}
    /\ motTable'[i].orderNumber # -1
    /\ motTable'[i].transportId # motTable[i].transportId
    => \A j \in Slots \ {i} : <<i, j>> \in earlier

\* A new object is the youngest, and it is the oldest that it replaces.
LEMMA SetHandleKeepsAge ==
  ASSUME OneService, AgeInv, NEW s \in active, NEW t, NEW h, setHandle(s, t, h),
         UNCHANGED active
  PROVE  AgeInv' /\ GivesWay
<1> DEFINE w == Written(s)
           n == orderNumber[s]
           r == [orderNumber |-> n, transportId |-> t, motSlide |-> h]
           table == [motTable EXCEPT ![w] = r]
           orders == [orderNumber EXCEPT ![s] = @ + 1]
<1>1. /\ Rebased(table, orders)
      /\ earlier' = {p \in earlier : w \notin {p[1], p[2]}}
                    \cup {<<j, w>> : j \in Slots \ (FreeSlots \cup {w})}
  BY DEF setHandle, Written
<1>2. w \in Slots /\ (FreeSlots = {} => \A j \in Slots :
                        motTable[w].orderNumber <= motTable[j].orderNumber)
  BY WrittenIsOldest
<1>3. s \in Services /\ n \in Nat /\ \A i \in Slots : motTable[i].orderNumber < n
  BY DEF AgeInv
<1>4. orders \in [Services -> Nat] /\ orders[s] = n + 1
  BY <1>3 DEF AgeInv
<1>5. table[w] = r /\ r.orderNumber = n
  BY <1>2 DEF AgeInv
<1>6. ASSUME NEW j \in Slots, j # w
      PROVE  table[j] = motTable[j]
  BY <1>6 DEF AgeInv
<1>7. HasFields(r)
  BY DEF HasFields
<1> HIDE DEF w, r, table, orders, n
<1>8. \A i \in Slots : /\ HasFields(table[i])
                       /\ table[i].orderNumber \in Int /\ table[i].orderNumber >= -1
                       /\ table[i].orderNumber < orders[s]
  BY <1>3, <1>4, <1>5, <1>6, <1>7 DEF AgeInv
<1>9. /\ motTable' = [i \in Slots |-> motTable'[i]]
      /\ \A i \in Slots :
           /\ HasFields(motTable'[i])
           /\ motTable'[i].transportId = table[i].transportId
           /\ motTable'[i].orderNumber \in Int /\ motTable'[i].orderNumber >= -1
           /\ motTable'[i].orderNumber >= 0 <=> table[i].orderNumber >= 0
      /\ orderNumber' \in [Services -> Nat]
      /\ \A i, j \in Slots : motTable'[i].orderNumber < motTable'[j].orderNumber
                             <=> table[i].orderNumber < table[j].orderNumber
      /\ \A i \in Slots, q \in Services :
           table[i].orderNumber < orders[q] => motTable'[i].orderNumber < orderNumber'[q]
  BY <1>1, <1>4, <1>8, RebasedKeepsOrder
<1>10. \A i \in Slots : motTable'[i].orderNumber < orderNumber'[s]
  BY <1>3, <1>8, <1>9
<1>11. \A q \in active', i \in Slots : motTable'[i].orderNumber < orderNumber'[q]
  BY <1>3, <1>10 DEF OneService, AgeInv
<1>12. ASSUME NEW i \in Slots, NEW j \in Slots, i # j, motTable'[i].orderNumber >= 0,
              motTable'[i].orderNumber <= motTable'[j].orderNumber
       PROVE  motTable'[i].orderNumber < motTable'[j].orderNumber /\ <<i, j>> \in earlier'
  <2>1. table[i].orderNumber >= 0 /\ ~(table[j].orderNumber < table[i].orderNumber)
    BY <1>9, <1>12
  <2>2. table[i].orderNumber <= table[j].orderNumber
    BY <1>8, <2>1
  <2>3. i # w
    BY <1>3, <1>5, <1>6, <1>12, <2>2 DEF AgeInv
  <2>4. motTable[i].orderNumber >= 0 /\ table[i] = motTable[i]
    BY <1>6, <2>1, <2>3
  <2>5. CASE j = w
    <3>1. i \in Slots \ (FreeSlots \cup {w})
      BY <2>3, <2>4 DEF FreeSlots
    <3>2. table[i].orderNumber < table[j].orderNumber
      BY <1>3, <1>5, <2>4, <2>5
    <3> QED
      BY <1>1, <1>9, <2>5, <3>1, <3>2
  <2>6. CASE j # w
    <3>1. table[j] = motTable[j]
      BY <1>6, <2>6
    <3>2. motTable[i].orderNumber < motTable[j].orderNumber /\ <<i, j>> \in earlier
      BY <1>12, <2>2, <2>4, <3>1 DEF AgeInv
    <3>3. <<i, j>> \in earlier'
      BY <1>1, <2>3, <2>6, <3>2
    <3> QED
      BY <1>9, <2>4, <3>1, <3>2, <3>3
  <2> QED
    BY <2>5, <2>6
<1>13. AgeInv'
  BY <1>9, <1>11, <1>12 DEF AgeInv
<1>14. GivesWay
  <2> SUFFICES ASSUME NEW i \in Slots, FreeSlots = {},
                      motTable'[i].transportId # motTable[i].transportId,
                      NEW j \in Slots \ {i}
               PROVE  <<i, j>> \in earlier
    BY DEF GivesWay
  <2>1. i = w
    BY <1>6, <1>9
  <2>2. motTable[i].orderNumber <= motTable[j].orderNumber
    BY <1>2, <2>1
  <2>3. motTable[i].orderNumber >= 0
    BY DEF FreeSlots, AgeInv
  <2> QED
    BY <2>2, <2>3 DEF AgeInv
<1> QED
  BY <1>13, <1>14
\* A segment put into an object of the table changes no number.
LEMMA BodyInTableKeepsAge ==
  ASSUME AgeInv, NEW s, NEW g, NEW whole, BodyInTable(s, g, whole), UNCHANGED active
  PROVE  AgeInv' /\ GivesWay
<1> DEFINE i == Min(InTable(g.transportId))
           a == addBodySegment(motTable[i].motSlide, g, whole)
<1>1. /\ motTable' = [motTable EXCEPT ![i].motSlide = a]
      /\ orderNumber' = orderNumber /\ earlier' = earlier
  BY DEF BodyInTable
<1> HIDE DEF a, i
<1>2. motTable' = [j \in Slots |-> motTable'[j]]
  BY <1>1 DEF AgeInv
<1>3. ASSUME NEW j \in Slots
      PROVE  /\ HasFields(motTable'[j]) /\ motTable'[j].orderNumber = motTable[j].orderNumber
             /\ motTable'[j].transportId = motTable[j].transportId
  <2>1. HasFields(motTable[j])
    BY DEF AgeInv
  <2>2. CASE j # i
    <3>1. motTable'[j] = motTable[j]
      BY <1>1, <2>2 DEF AgeInv
    <3> QED
      BY <2>1, <3>1
  <2>3. CASE j = i
    <3>1. motTable'[j] = [motTable[j] EXCEPT !.motSlide = a]
      BY <1>1, <2>3 DEF AgeInv
    <3>2. motTable'[j] = [orderNumber |-> motTable[j].orderNumber,
                          transportId |-> motTable[j].transportId, motSlide |-> a]
      BY <2>1, <3>1 DEF HasFields
    <3> QED
      BY <3>2 DEF HasFields
  <2> QED
    BY <2>2, <2>3
<1>4. AgeInv'
  BY <1>1, <1>2, <1>3 DEF AgeInv
<1> QED
  BY <1>3, <1>4 DEF GivesWay

\* A step that leaves table and numbers alone.
LEMMA TableUnchanged ==
  ASSUME AgeInv, UNCHANGED <<motTable, orderNumber, earlier>>, active' \subseteq active
  PROVE  AgeInv' /\ GivesWay
BY DEF AgeInv, GivesWay

\* A data group of a selected service.
LEMMA GroupKeepsAge ==
  ASSUME OneService, AgeInv, NEW s \in active, NEW g, NEW whole,
         add_mscDatagroup(s, g, whole), UNCHANGED active
  PROVE  AgeInv' /\ GivesWay
<1>1. CASE UNCHANGED <<motTable, orderNumber, earlier>>
  BY <1>1, TableUnchanged
<1>2. CASE Header(s, g)
  BY <1>2, SetHandleKeepsAge DEF Header
<1>3. CASE BodyOfNew(s, g, whole)
  BY <1>3, SetHandleKeepsAge DEF BodyOfNew
<1>4. CASE BodyInTable(s, g, whole)
  BY <1>4, BodyInTableKeepsAge
<1>5. CASE UNCHANGED motVars \/ BodyInDirectory(s, g, whole) \/ NewDirectory(s, g)
           \/ DirectorySegment(s, g)
  <2>1. UNCHANGED <<motTable, orderNumber, earlier>>
    BY <1>5 DEF motVars, BodyInDirectory, NewDirectory, DirectorySegment
  <2> QED
    BY <1>1, <2>1
<1> QED
  BY <1>2, <1>3, <1>4, <1>5 DEF add_mscDatagroup

\* A new handler begins with an empty table.
LEMMA SelectKeepsAge ==
  ASSUME OneService, AgeInv, NEW s \in Services, Select(s)
  PROVE  AgeInv' /\ GivesWay
<1>1. /\ motTable' = [i \in Slots |-> FreeSlot] /\ earlier' = {}
      /\ orderNumber' = [orderNumber EXCEPT ![s] = 0] /\ active' = active \cup {s}
  BY DEF Select, newMotHandler
<1>2. FreeSlot.orderNumber = -1 /\ HasFields(FreeSlot)
  BY DEF FreeSlot, HasFields
<1>3. \A i \in Slots : motTable'[i] = FreeSlot
  BY <1>1
<1>4. orderNumber' \in [Services -> Nat]
  BY <1>1 DEF AgeInv
<1>5. active' \subseteq Services
  BY <1>1 DEF AgeInv
<1>6. AgeInv'
  BY <1>1, <1>2, <1>3, <1>4, <1>5 DEF AgeInv
<1>7. GivesWay
  BY <1>2, <1>3 DEF GivesWay
<1> QED
  BY <1>6, <1>7

\* One that is deleted starts to count again, but is not used any more.
LEMMA LeaveKeepsAge ==
  ASSUME OneService, AgeInv, NEW s \in Services, Leave(s)
  PROVE  AgeInv' /\ GivesWay
<1>1. /\ motTable' = [i \in Slots |-> IF motTable[i].orderNumber > 0
                                      THEN [motTable[i] EXCEPT !.motSlide = NoObject]
                                      ELSE motTable[i]]
      /\ orderNumber' = [orderNumber EXCEPT ![s] = 0] /\ earlier' = earlier
      /\ active' = active \ {s}
  BY DEF Leave, deleteMotHandler
<1>2. ASSUME NEW j \in Slots
      PROVE  /\ HasFields(motTable'[j]) /\ motTable'[j].orderNumber = motTable[j].orderNumber
             /\ motTable'[j].transportId = motTable[j].transportId
  <2>1. HasFields(motTable[j])
    BY DEF AgeInv
  <2>2. CASE motTable[j].orderNumber > 0
    <3>1. motTable'[j] = [motTable[j] EXCEPT !.motSlide = NoObject]
      BY <1>1, <2>2
    <3>2. motTable'[j] = [orderNumber |-> motTable[j].orderNumber,
                          transportId |-> motTable[j].transportId, motSlide |-> NoObject]
      BY <2>1, <3>1 DEF HasFields
    <3> QED
      BY <3>2 DEF HasFields
  <2>3. CASE ~(motTable[j].orderNumber > 0)
    <3>1. motTable'[j] = motTable[j]
      BY <1>1, <2>3
    <3> QED
      BY <2>1, <3>1
  <2> QED
    BY <2>2, <2>3
<1>3. orderNumber' \in [Services -> Nat]
  BY <1>1 DEF AgeInv
<1>4. active' = {}
  BY <1>1 DEF OneService, AgeInv
<1>5. motTable' = [j \in Slots |-> motTable'[j]]
  BY <1>1
<1>6. AgeInv'
  BY <1>1, <1>2, <1>3, <1>4, <1>5 DEF AgeInv
<1> QED
  BY <1>2, <1>6 DEF GivesWay

\* At first nothing is in the table.
LEMMA InitAge == Init => AgeInv
<1> SUFFICES ASSUME Init PROVE AgeInv
  OBVIOUS
<1>1. /\ motTable = [i \in Slots |-> FreeSlot] /\ active = {}
      /\ orderNumber = [s \in Services |-> 0]
  BY DEF Init, motInit
<1>2. FreeSlot.orderNumber = -1 /\ HasFields(FreeSlot)
  BY DEF FreeSlot, HasFields
<1>3. \A i \in Slots : motTable[i] = FreeSlot
  BY <1>1
<1> QED
  BY <1>1, <1>2, <1>3 DEF AgeInv

\* Every step keeps the ages, and lets the oldest object go.
LEMMA StepKeepsAge == OneService /\ AgeInv /\ [Next]_vars => AgeInv' /\ GivesWay
<1> SUFFICES ASSUME OneService, AgeInv, [Next]_vars PROVE AgeInv' /\ GivesWay
  OBVIOUS
<1>1. CASE UNCHANGED <<motVars, active>>
  BY <1>1, TableUnchanged DEF motVars
<1>2. ASSUME NEW s \in Services, Receive(s)
      PROVE  AgeInv' /\ GivesWay
  <2> DEFINE h == HandedOver(s, NextPacket(s))
  <2>1. CASE h = EmptySeries
    <3>1. UNCHANGED <<motVars, active>>
      BY <1>2, <2>1 DEF Receive
    <3> QED
      BY <1>1, <3>1
  <2>2. CASE h # EmptySeries
    <3>1. s \in active /\ UNCHANGED active /\ add_mscDatagroup(s, h.group, IsWhole(h))
      BY <1>2, <2>2 DEF Receive
    <3> HIDE DEF h
    <3> QED
      BY <3>1, GroupKeepsAge
  <2> QED
    BY <2>1, <2>2
<1>3. ASSUME NEW s \in Services, Damaged(s) \/ Lost(s) \/ Foreign(s)
      PROVE  AgeInv' /\ GivesWay
  BY <1>1, <1>3 DEF Damaged, Lost, Foreign
<1>4. ASSUME NEW s \in Services, Select(s)
      PROVE  AgeInv' /\ GivesWay
  BY <1>4, SelectKeepsAge
<1>5. ASSUME NEW s \in Services, Leave(s)
      PROVE  AgeInv' /\ GivesWay
  BY <1>5, LeaveKeepsAge
<1>6. CASE Settle \/ UNCHANGED vars
  BY <1>1, <1>6 DEF Settle, vars
<1> QED
  BY <1>2, <1>3, <1>4, <1>5, <1>6 DEF Next
\* With one data service selected at a time, an object for which there is no
\* entry left takes the place of the one that was put there first
\* (motHandler::setHandle), however often the service is left and selected.
THEOREM OldestGivesWay == OneService => (Spec => OldestOut)
<1> SUFFICES ASSUME OneService PROVE Spec => OldestOut
  OBVIOUS
<1>1. Init => AgeInv
  BY InitAge
<1>2. AgeInv /\ [Next]_vars => AgeInv'
  BY StepKeepsAge
<1>3. AgeInv /\ [Next]_vars => [GivesWay]_vars
  BY StepKeepsAge
<1>4. Spec => Init /\ [][Next]_vars
  BY PTL DEF Spec
<1>5. Spec => [][GivesWay]_vars
  BY <1>1, <1>2, <1>3, <1>4, PTL
<1> QED
  BY <1>5, PTL DEF GivesWay, OldestOut

-----------------------------------------------------------------------------
(* No superframe is passed over.                                           *)

\* Where the frame of age a is: 0 is the newest, 4 the oldest of the window.
Age(a) == (blockFillIndex + 4 - a) % 5

WindowTypes ==
  /\ frameBytes = [i \in 0..4 |-> frameBytes[i]]
  /\ blockFillIndex \in 0..4 /\ blocksInBuffer \in 0..4
  /\ sender.pos \in 0..4 /\ linked \in BOOLEAN
  /\ faults \in Nat

\* A frame that follows the one before it has the next position.
Linked ==
  /\ \A a \in 0..3 :
       frameBytes[Age(a)].linked /\ frameBytes[Age(a + 1)].damage # "bad"
       => frameBytes[Age(a)].pos = (frameBytes[Age(a + 1)].pos + 1) % 5
  /\ linked /\ frameBytes[Age(0)].damage # "bad"
     => sender.pos = (frameBytes[Age(0)].pos + 1) % 5

\* What is left of a superframe that was found, or of the start, is no head.
NoHeadLeft ==
  \A a \in 0..3 : a >= blocksInBuffer =>
    frameBytes[Age(a)].damage = "bad" \/ frameBytes[Age(a)].pos # 0

WindowInv == WindowTypes /\ Linked /\ NoHeadLeft

\* The positions of the window.
LEMMA Ages ==
  ASSUME NEW b \in 0..4
  PROVE  /\ (b + 4 - 4) % 5 = b
         /\ \A a \in 0..4 : (b + 4 - a) % 5 \in 0..4
         /\ \A a \in 0..3 : (b + 4 - a) % 5 # b
         /\ (b + 1) % 5 \in 0..4 /\ (b + 1) % 5 # b
         /\ (((b + 1) % 5) + 4 - 0) % 5 = b
         /\ (((b + 1) % 5) + 4 - 1) % 5 = (b + 4 - 0) % 5
         /\ (((b + 1) % 5) + 4 - 2) % 5 = (b + 4 - 1) % 5
         /\ (((b + 1) % 5) + 4 - 3) % 5 = (b + 4 - 2) % 5
         /\ (((b + 1) % 5) + 4 - 4) % 5 = (b + 4 - 3) % 5
         /\ \A i \in 0..4 : \E a \in 0..4 : i = (b + 4 - a) % 5
<1>1. b = 0 \/ b = 1 \/ b = 2 \/ b = 3 \/ b = 4
  OBVIOUS
<1>2. \A a \in 0..4 : a = 0 \/ a = 1 \/ a = 2 \/ a = 3 \/ a = 4
  OBVIOUS
<1>3. \A i \in 0..4 : \E a \in 0..4 : i = (b + 4 - a) % 5
  <2>1. ASSUME NEW i \in 0..4
        PROVE  (b + 4 - i) % 5 \in 0..4 /\ i = (b + 4 - ((b + 4 - i) % 5)) % 5
    <3>1. i = 0 \/ i = 1 \/ i = 2 \/ i = 3 \/ i = 4
      OBVIOUS
    <3> QED
      BY <1>1, <3>1
  <2> QED
    BY <2>1
<1> QED
  BY <1>1, <1>2, <1>3

\* A frame comes in: all others grow older.
LEMMA WindowMoves ==
  ASSUME WindowInv, NEW f, NEW n, addtoFrame(f, n)
  PROVE  /\ frameBytes' = [i \in 0..4 |-> frameBytes'[i]]
         /\ blockFillIndex' \in 0..4 /\ blockFillIndex' # blockFillIndex
         /\ frameBytes'[Age(0)'] = f
         /\ frameBytes'[Age(1)'] = frameBytes[Age(0)]
         /\ frameBytes'[Age(2)'] = frameBytes[Age(1)]
         /\ frameBytes'[Age(3)'] = frameBytes[Age(2)]
         /\ frameBytes'[Age(4)'] = frameBytes[Age(3)]
         /\ Age(4)' = blockFillIndex'
<1> DEFINE b == blockFillIndex
           c == (b + 1) % 5
<1>1. b \in 0..4 /\ frameBytes = [i \in 0..4 |-> frameBytes[i]]
  BY DEF WindowInv, WindowTypes
<1>2. blockFillIndex' = c /\ frameBytes' = [frameBytes EXCEPT ![b] = f]
  BY DEF addtoFrame
<1>3. /\ frameBytes'[b] = f
      /\ \A i \in 0..4 : i # b => frameBytes'[i] = frameBytes[i]
      /\ frameBytes' = [i \in 0..4 |-> frameBytes'[i]]
  BY <1>1, <1>2
<1>4. /\ c \in 0..4 /\ c # b /\ (c + 4 - 4) % 5 = c
      /\ (c + 4 - 0) % 5 = b /\ (c + 4 - 1) % 5 = (b + 4 - 0) % 5
      /\ (c + 4 - 2) % 5 = (b + 4 - 1) % 5 /\ (c + 4 - 3) % 5 = (b + 4 - 2) % 5
      /\ (c + 4 - 4) % 5 = (b + 4 - 3) % 5
  BY <1>1, Ages
<1>5. \A a \in {0, 1, 2, 3} : (b + 4 - a) % 5 \in 0..4 /\ (b + 4 - a) % 5 # b
  BY <1>1, Ages
<1>6. /\ Age(0)' = b /\ Age(1)' = Age(0) /\ Age(2)' = Age(1) /\ Age(3)' = Age(2)
      /\ Age(4)' = Age(3) /\ Age(4)' = c
  BY <1>2, <1>4 DEF Age
<1>7. \A a \in {0, 1, 2, 3} : Age(a) \in 0..4 /\ Age(a) # b
  BY <1>5 DEF Age
<1> QED
  BY <1>2, <1>3, <1>4, <1>6, <1>7

\* The five frames of a superframe have the positions 0 to 4.
LEMMA SuperframePositions ==
  WindowTypes /\ Linked /\ IsSuperframe(frameBytes, blockFillIndex)
    => \A a \in 0..3 : frameBytes[Age(a)].pos = 4 - a
<1> SUFFICES ASSUME WindowTypes, Linked, IsSuperframe(frameBytes, blockFillIndex)
             PROVE  \A a \in 0..3 : frameBytes[Age(a)].pos = 4 - a
  OBVIOUS
<1>1. \A a \in 0..3 : Age(a) \in 0..4 /\ Age(a) # blockFillIndex
  BY Ages DEF WindowTypes, Age
<1>2. Age(4) = blockFillIndex /\ blockFillIndex \in 0..4
  BY Ages DEF WindowTypes, Age
<1>3. frameBytes[Age(4)].pos = 0
  BY <1>2 DEF IsSuperframe, FireCode
<1>4. \A a \in 0..3 : frameBytes[Age(a)].pos = (frameBytes[Age(a + 1)].pos + 1) % 5
  <2> SUFFICES ASSUME NEW a \in 0..3
               PROVE  frameBytes[Age(a)].linked /\ frameBytes[Age(a + 1)].damage # "bad"
    BY DEF Linked
  <2>1. Age(a + 1) \in 0..4
    BY <1>1, <1>2
  <2> QED
    BY <1>1, <2>1 DEF IsSuperframe, ReedSolomon
<1>5. /\ frameBytes[Age(3)].pos = 1 /\ frameBytes[Age(2)].pos = 2
      /\ frameBytes[Age(1)].pos = 3 /\ frameBytes[Age(0)].pos = 4
  <2>1. frameBytes[Age(3)].pos = 1
    BY <1>3, <1>4
  <2>2. frameBytes[Age(2)].pos = 2
    BY <1>4, <2>1
  <2>3. frameBytes[Age(1)].pos = 3
    BY <1>4, <2>2
  <2> QED
    BY <1>4, <2>1, <2>2, <2>3
<1> QED
  BY <1>5

\* A frame keeps the invariant, and the superframe it completes is found.
LEMMA FrameKeepsWindow ==
  ASSUME WindowInv, NEW d \in {"none", "head", "bad"}, NEW n \in 0..NumAus, Frame(d, n),
         faults' \in Nat
  PROVE  /\ WindowInv'
         /\ (IsSuperframe(frameBytes', blockFillIndex') /\ n = NumAus => theUnits' # <<>>)
<1> DEFINE f == [superframe |-> sender.superframe, pos |-> sender.pos,
                 linked |-> linked, damage |-> d]
           found == /\ blocksInBuffer + 1 >= 5
                    /\ IsSuperframe(frameBytes', blockFillIndex')
<1>1. /\ addtoFrame(f, n) /\ linked' = TRUE
      /\ sender' = [superframe |-> sender'.superframe, pos |-> (sender.pos + 1) % 5]
  BY DEF Frame, NextFrame
<1>2. /\ f.pos = sender.pos /\ f.linked = linked
  OBVIOUS
<1>3. /\ frameBytes' = [i \in 0..4 |-> frameBytes'[i]]
      /\ blockFillIndex' \in 0..4
      /\ frameBytes'[Age(0)'] = f
      /\ frameBytes'[Age(1)'] = frameBytes[Age(0)]
      /\ frameBytes'[Age(2)'] = frameBytes[Age(1)]
      /\ frameBytes'[Age(3)'] = frameBytes[Age(2)]
      /\ frameBytes'[Age(4)'] = frameBytes[Age(3)]
      /\ Age(4)' = blockFillIndex'
  BY <1>1, WindowMoves
<1>4. /\ blocksInBuffer' = IF blocksInBuffer + 1 < 5 THEN blocksInBuffer + 1
                           ELSE IF found /\ n = NumAus THEN 0 ELSE 4
      /\ theUnits' = IF found THEN SubSeq(UnitsOf(f), 1, n) ELSE <<>>
  BY <1>1 DEF addtoFrame, IsSuperframe, AfterFailure
<1> HIDE DEF f, found
<1>5. WindowTypes'
  BY <1>1, <1>3, <1>4 DEF WindowInv, WindowTypes
<1>6. Linked'
  <2>1. ASSUME NEW a \in 0..3, frameBytes'[Age(a)'].linked,
               frameBytes'[Age(a + 1)'].damage # "bad"
        PROVE  frameBytes'[Age(a)'].pos = (frameBytes'[Age(a + 1)'].pos + 1) % 5
    <3>1. CASE a = 0
      BY <1>2, <1>3, <2>1, <3>1 DEF WindowInv, Linked
    <3>2. CASE a = 1
      BY <1>3, <2>1, <3>2 DEF WindowInv, Linked
    <3>3. CASE a = 2
      BY <1>3, <2>1, <3>3 DEF WindowInv, Linked
    <3>4. CASE a = 3
      BY <1>3, <2>1, <3>4 DEF WindowInv, Linked
    <3> QED
      BY <3>1, <3>2, <3>3, <3>4
  <2>2. sender'.pos = (frameBytes'[Age(0)'].pos + 1) % 5
    BY <1>1, <1>2, <1>3
  <2> QED
    BY <2>1, <2>2 DEF Linked
<1>7. NoHeadLeft'
  <2>1. CASE blocksInBuffer < 4
    <3>1. blocksInBuffer' = blocksInBuffer + 1 /\ blocksInBuffer \in 0..3
      BY <1>4, <2>1 DEF WindowInv, WindowTypes
    <3>2. \A a \in 0..2 : a >= blocksInBuffer =>
            frameBytes'[Age(a + 1)'].damage = "bad" \/ frameBytes'[Age(a + 1)'].pos # 0
      <4>1. \A a \in 0..2 : frameBytes'[Age(a + 1)'] = frameBytes[Age(a)]
        BY <1>3
      <4> QED
        BY <4>1 DEF WindowInv, NoHeadLeft
    <3> QED
      <4> SUFFICES ASSUME NEW a \in 0..3, a >= blocksInBuffer'
                   PROVE  frameBytes'[Age(a)'].damage = "bad" \/ frameBytes'[Age(a)'].pos # 0
        BY DEF NoHeadLeft
      <4>1. a - 1 \in 0..2 /\ a - 1 >= blocksInBuffer /\ (a - 1) + 1 = a
        BY <3>1
      <4> QED
        BY <3>2, <4>1
  <2>2. CASE blocksInBuffer = 4 /\ ~(found /\ n = NumAus)
    BY <1>4, <2>2 DEF NoHeadLeft
  <2>3. CASE blocksInBuffer = 4 /\ found /\ n = NumAus
    <3>1. IsSuperframe(frameBytes, blockFillIndex)'
      BY <2>3 DEF found
    <3>2. (WindowTypes /\ Linked /\ IsSuperframe(frameBytes, blockFillIndex)
             => \A a \in 0..3 : frameBytes[Age(a)].pos = 4 - a)'
      BY SuperframePositions, PTL
    <3>3. \A a \in 0..3 : frameBytes'[Age(a)'].pos = 4 - a
      BY <1>5, <1>6, <3>1, <3>2
    <3> QED
      BY <3>3 DEF NoHeadLeft
  <2> QED
    BY <2>1, <2>2, <2>3 DEF WindowInv, WindowTypes
<1>8. ASSUME IsSuperframe(frameBytes', blockFillIndex'), n = NumAus
      PROVE  theUnits' # <<>>
  <2>1. blocksInBuffer = 4
    <3> SUFFICES ASSUME blocksInBuffer < 4 PROVE FALSE
      BY DEF WindowInv, WindowTypes
    <3>1. frameBytes'[Age(4)'].damage = "bad" \/ frameBytes'[Age(4)'].pos # 0
      BY <1>3 DEF WindowInv, WindowTypes, NoHeadLeft
    <3> QED
      BY <1>3, <1>8, <3>1 DEF IsSuperframe, FireCode
  <2>2. theUnits' = SubSeq(UnitsOf(f), 1, NumAus)
    BY <1>4, <1>8, <2>1 DEF found
  <2>3. Len(SubSeq(UnitsOf(f), 1, NumAus)) = NumAus
    <3> DEFINE u == UnitsOf(f)
    <3>1. \A i \in 1..NumAus : u[i] \in {u[j] : j \in 1..NumAus}
      OBVIOUS
    <3> HIDE DEF u
    <3> QED
      BY <3>1, NumAusAssumption, SubSeqProperties DEF u
  <2> QED
    BY <2>2, <2>3, NumAusAssumption, EmptySeq
<1> QED
  BY <1>5, <1>6, <1>7, <1>8 DEF WindowInv

\* An empty window has nothing to find.
LEMMA EmptyWindow ==
  ASSUME frameBytes' = [i \in 0..4 |-> NoFrame], blockFillIndex' = 0, blocksInBuffer' = 0,
         sender'.pos \in 0..4, linked' \in BOOLEAN, faults' \in Nat
  PROVE  WindowInv'
<1>1. \A i \in 0..4 : frameBytes'[i] = NoFrame /\ NoFrame.damage = "bad"
  BY DEF NoFrame
<1>2. \A a \in 0..4 : Age(a)' \in 0..4
  BY DEF Age
<1>3. \A a \in 0..4 : frameBytes'[Age(a)'].damage = "bad"
  BY <1>1, <1>2
<1>4. Linked' /\ NoHeadLeft'
  BY <1>3 DEF Linked, NoHeadLeft
<1>5. WindowTypes'
  BY DEF WindowTypes
<1> QED
  BY <1>4, <1>5 DEF WindowInv

\* It is the window of the beginning.
LEMMA InitWindow == AudioInit => WindowInv
<1> SUFFICES ASSUME AudioInit PROVE WindowInv
  OBVIOUS
<1>1. \A i \in 0..4 : frameBytes[i] = NoFrame /\ NoFrame.damage = "bad"
  BY DEF AudioInit, mp4Init, NoFrame
<1>2. \A a \in 0..4 : Age(a) \in 0..4
  BY DEF AudioInit, mp4Init, Age
<1>3. \A a \in 0..4 : frameBytes[Age(a)].damage = "bad"
  BY <1>1, <1>2
<1>4. Linked /\ NoHeadLeft
  BY <1>3 DEF Linked, NoHeadLeft
<1>5. WindowTypes
  <2>1. frameBytes = [i \in 0..4 |-> NoFrame]
    BY DEF AudioInit, mp4Init
  <2>2. sender.pos \in 0..4
    BY DEF AudioInit
  <2>3. frameBytes = [i \in 0..4 |-> frameBytes[i]]
    BY <2>1
  <2>4. blockFillIndex = 0 /\ blocksInBuffer = 0
    BY DEF AudioInit, mp4Init
  <2>5. linked \in BOOLEAN /\ faults \in Nat
    BY DEF AudioInit
  <2> QED
    BY <2>2, <2>3, <2>4, <2>5 DEF WindowTypes
<1> QED
  BY <1>4, <1>5 DEF WindowInv

\* A step that leaves frames and transmitter alone keeps the invariant.
LEMMA WindowUnchanged ==
  ASSUME WindowInv, faults' \in Nat, linked' \in BOOLEAN, linked' => linked,
         UNCHANGED <<frameBytes, blockFillIndex, blocksInBuffer>>,
         sender' = sender \/ (~linked' /\ sender'.pos \in 0..4)
  PROVE  WindowInv'
<1>1. \A a : Age(a)' = Age(a)
  BY DEF Age
<1>2. WindowTypes'
  BY DEF WindowInv, WindowTypes
<1>3. NoHeadLeft'
  BY <1>1 DEF WindowInv, NoHeadLeft
<1>4. Linked'
  <2>1. \A a \in 0..3 :
          frameBytes'[Age(a)'].linked /\ frameBytes'[Age(a + 1)'].damage # "bad"
          => frameBytes'[Age(a)'].pos = (frameBytes'[Age(a + 1)'].pos + 1) % 5
    BY <1>1 DEF WindowInv, Linked
  <2>2. linked' /\ frameBytes'[Age(0)'].damage # "bad"
        => sender'.pos = (frameBytes'[Age(0)'].pos + 1) % 5
    BY <1>1 DEF WindowInv, Linked
  <2> QED
    BY <2>1, <2>2 DEF Linked
<1> QED
  BY <1>2, <1>3, <1>4 DEF WindowInv

\* Every step keeps it, and takes the superframe that was received.
LEMMA StepKeepsWindow ==
  ASSUME WindowInv, [AudioNext]_audioVars
  PROVE  /\ WindowInv'
         /\ (/\ blockFillIndex' # blockFillIndex
             /\ IsSuperframe(frameBytes', blockFillIndex')
             /\ faults' = faults
             => theUnits' # <<>>)
<1>1. faults \in Nat /\ sender.pos \in 0..4 /\ linked \in BOOLEAN
  BY DEF WindowInv, WindowTypes
<1>2. NumAus \in 0..NumAus /\ (0..(NumAus - 1)) \subseteq 0..NumAus
  BY NumAusAssumption
<1>3. CASE FrameReceived
  <2>1. Frame("none", NumAus) /\ faults' = faults
    BY <1>3 DEF FrameReceived
  <2> QED
    BY <1>1, <1>2, <2>1, FrameKeepsWindow
<1>4. CASE FrameDamaged
  <2>1. faults' \in Nat /\ faults' # faults
    BY <1>1, <1>4 DEF FrameDamaged, Fault
  <2>2. \E d \in {"none", "head", "bad"}, n \in 0..NumAus : Frame(d, n)
    BY <1>2, <1>4 DEF FrameDamaged
  <2> QED
    BY <2>1, <2>2, FrameKeepsWindow
<1>5. CASE FrameLost
  <2>1. ~linked' /\ linked' \in BOOLEAN
    BY <1>5 DEF FrameLost
  <2>2. sender'.pos = (sender.pos + 1) % 5
    BY <1>5 DEF FrameLost, NextFrame
  <2>3. sender'.pos \in 0..4
    BY <1>1, <2>2
  <2>4. faults' \in Nat /\ UNCHANGED <<frameBytes, blockFillIndex, blocksInBuffer>>
    BY <1>1, <1>5 DEF FrameLost, Fault, mp4Vars
  <2> QED
    BY <2>1, <2>3, <2>4, WindowUnchanged
<1>6. CASE Unit
  BY <1>1, <1>6, WindowUnchanged DEF Unit, NextUnit, senderVars
<1>7. CASE DamagedUnit
  BY <1>1, <1>7, WindowUnchanged DEF DamagedUnit, NextUnit, senderVars, Fault
<1>8. CASE Reselect
  BY <1>1, <1>8, EmptyWindow DEF Reselect, newMp4Processor, senderVars, Fault
<1>9. CASE UNCHANGED audioVars
  BY <1>1, <1>9, WindowUnchanged DEF audioVars, senderVars, mp4Vars
<1> QED
  BY <1>3, <1>4, <1>5, <1>6, <1>7, <1>8, <1>9 DEF AudioNext

\* mp4Processor::addtoFrame: whatever was lost or damaged before, the first five
\* frames in a row that make a superframe are taken for one.
THEOREM NoSuperframeMissed == AudioSpec => NoneMissed
<1>1. WindowInv /\ [AudioNext]_audioVars => WindowInv'
  BY StepKeepsWindow
<1>2. WindowInv /\ [AudioNext]_audioVars =>
        [/\ blockFillIndex' # blockFillIndex
         /\ IsSuperframe(frameBytes', blockFillIndex')
         /\ faults' = faults
         => theUnits' # <<>>]_audioVars
  BY StepKeepsWindow
<1> QED
  BY <1>1, <1>2, InitWindow, PTL DEF AudioSpec, NoneMissed

-----------------------------------------------------------------------------
(* The slides that are shown are whole.                                    *)

\* The segments of slide t among the groups G.
Segments(G, t) == {g \in G : g.groupType = 4 /\ g.transportId = t}

\* All segments of the slide are there, and no other.
Whole(G, h) ==
  \A i \in SegmentNumbers :
    Has(h.object, i) <=> \E g \in Segments(G, h.transportId) : g.segmentNumber = i

\* What there is of a slide was sent for it; the number of its segments is taken
\* from the one marked as the last.
Part(G, s) ==
  /\ DOMAIN s = {"transportId", "object"}
  /\ DOMAIN s.object = {"motMap", "numofSegments"}
  /\ DOMAIN s.object.motMap = SegmentNumbers
  /\ s # NoSlide =>
       /\ \A i \in SegmentNumbers :
            Has(s.object, i) => \E g \in Segments(G, s.transportId) : g.segmentNumber = i
       /\ s.object.numofSegments # -1 =>
            \E g \in Segments(G, s.transportId) :
              g.last /\ s.object.numofSegments = g.segmentNumber + 1

\* What was collected of a group was collected of one of G, or is of no use.
OfGroups(G, r) == IsRun(r) /\ r.of \in G \cup {Mixed}

IsPad(p) ==
  /\ DOMAIN p = {"static", "dynamicLabelText", "currentSlide", "mscGroupElement",
                 "dataGroupLength", "xpadLength", "msc_dataGroupBuffer", "still_to_go",
                 "shortpadData", "firstSegment", "lastSegment", "out"}
  /\ DOMAIN p.out = {"labels", "slides"}

SlidesSound(G, p) ==
  /\ IsPad(p)
  /\ Part(G, p.currentSlide)
  /\ OfGroups(G, p.msc_dataGroupBuffer)
  /\ \A h \in p.out.slides : Whole(G, h)

\* What SlidesSound looks at is as before.
SameSlides(p, q) ==
  /\ IsPad(q)
  /\ q.currentSlide = p.currentSlide
  /\ q.msc_dataGroupBuffer = p.msc_dataGroupBuffer
  /\ q.out.slides = p.out.slides

\* Groups as the programmes have them.
IsGroups(G) ==
  /\ \A g \in G : g.segmentNumber \in SegmentNumbers /\ g.last \in BOOLEAN
  /\ \A g, h \in G :
       g.groupType = 4 /\ h.groupType = 4 /\ g.transportId = h.transportId /\ g.last
       => h.segmentNumber <= g.segmentNumber

\* A call that leaves all this as it is keeps the slides sound.
LEMMA SlidesKept ==
  ASSUME NEW G, NEW p, NEW q, SlidesSound(G, p), SameSlides(p, q)
  PROVE  SlidesSound(G, q)
BY DEF SlidesSound, SameSlides

\* Runs that are joined or cut are runs, and what is joined to a piece of one
\* group is of that group or of no use.
LEMMA JoinedRun ==
  ASSUME NEW r, NEW d, IsRun(r), IsRun(d)
  PROVE  /\ IsRun(Joined(r, d))
         /\ r.size # 0 => Joined(r, d).of \in {r.of, Mixed}
BY DEF IsRun, Joined

\* The first units of a run.
LEMMA CutRun ==
  ASSUME NEW r, NEW n, IsRun(r)
  PROVE  /\ IsRun(Cut(r, n)) /\ Cut(r, n).of = r.of
         /\ Cut(r, n) = [of |-> r.of, upto |-> r.upto - r.size + n, size |-> n]
<1>1. \A a, b, c, d : /\ [[of |-> a, upto |-> b, size |-> c] EXCEPT !.upto = d]
                           = [of |-> a, upto |-> d, size |-> c]
                      /\ [[of |-> a, upto |-> b, size |-> c] EXCEPT !.size = d]
                           = [of |-> a, upto |-> b, size |-> d]
  OBVIOUS
<1>2. PICK a, b, c : r = [of |-> a, upto |-> b, size |-> c]
  BY DEF IsRun
<1> DEFINE u == b - c + n
           q == [of |-> a, upto |-> u, size |-> c]
<1>3. r.of = a /\ r.upto = b /\ r.size = c
  BY <1>2
<1>4. [r EXCEPT !.upto = u] = q
  BY <1>1, <1>2
<1>5. Cut(r, n) = [[r EXCEPT !.upto = u] EXCEPT !.size = n]
  BY <1>3 DEF Cut
<1>6. Cut(r, n) = [q EXCEPT !.size = n]
  BY <1>4, <1>5
<1>7. [q EXCEPT !.size = n] = [of |-> a, upto |-> u, size |-> n]
  BY <1>1
<1> QED
  BY <1>3, <1>6, <1>7 DEF IsRun

\* padHandler::dynamicLabel and the short PADs do not touch the slides.
LEMMA ShowLabelSlides ==
  ASSUME NEW p, IsPad(p) PROVE SameSlides(p, showLabel(p))
BY DEF IsPad, SameSlides, showLabel

\* The first byte of a label in a short PAD.
LEMMA ShortWithCISlides ==
  ASSUME NEW p, IsPad(p), NEW f, NEW flags PROVE SameSlides(p, ShortWithCI(p, f, flags))
BY DEF IsPad, SameSlides, ShortWithCI

\* The bytes that follow in short PADs.
LEMMA ShortWithoutCISlides ==
  ASSUME NEW p, IsPad(p), NEW r PROVE SameSlides(p, ShortWithoutCI(p, r))
BY DEF IsPad, SameSlides, ShortWithoutCI, showLabel

\* The first field of a label segment.
LEMMA LabelStartSlides ==
  ASSUME NEW p, IsPad(p), NEW f PROVE SameSlides(p, LabelStart(p, f))
BY DEF IsPad, SameSlides, LabelStart, showLabel

\* A field that continues a label segment.
LEMMA LabelContinuedSlides ==
  ASSUME NEW p, IsPad(p), NEW f PROVE SameSlides(p, LabelContinued(p, f))
BY DEF IsPad, SameSlides, LabelContinued, showLabel

\* Any field of a label, commands included.
LEMMA DynamicLabelSlides ==
  ASSUME NEW p, IsPad(p), NEW f, f.appType \in {2, 3} PROVE SameSlides(p, dynamicLabel(p, f))
<1>1. SameSlides(p, p)
  BY DEF SameSlides
<1>2. SameSlides(p, LabelCommand(p))
  BY DEF IsPad, SameSlides, LabelCommand
<1> QED
  BY <1>1, <1>2, LabelStartSlides, LabelContinuedSlides DEF dynamicLabel

\* A header of another slide begins with nothing.
LEMMA SlideHeaderSound ==
  ASSUME NEW G, NEW p, SlidesSound(G, p), NEW g
  PROVE  SlidesSound(G, SlideHeader(p, g))
<1> DEFINE s == [transportId |-> g.transportId, object |-> NewObject]
           q == [p EXCEPT !.currentSlide = s]
<1>1. /\ IsPad(q) /\ q.currentSlide = s
      /\ q.msc_dataGroupBuffer = p.msc_dataGroupBuffer /\ q.out = p.out
  BY DEF SlidesSound, IsPad
<1>2. \A i \in SegmentNumbers : ~Has(s.object, i)
  BY DEF NewObject, Has
<1>3. Part(G, s)
  BY <1>2 DEF Part, NewObject
<1>4. SlidesSound(G, q)
  BY <1>1, <1>3 DEF SlidesSound
<1> QED
  BY <1>4 DEF SlideHeader

\* What addBodySegment puts into an object.
LEMMA SlideSegmentAdded ==
  ASSUME NEW h, NEW g, g.segmentNumber \in SegmentNumbers,
         DOMAIN h = {"motMap", "numofSegments"}, DOMAIN h.motMap = SegmentNumbers,
         NEW k, k = addBodySegment(h, g, TRUE)
  PROVE  /\ DOMAIN k = {"motMap", "numofSegments"} /\ DOMAIN k.motMap = SegmentNumbers
         /\ \A i \in SegmentNumbers : Has(k, i) <=> Has(h, i) \/ i = g.segmentNumber
         /\ Has(h, g.segmentNumber) => k = h
         /\ ~Has(h, g.segmentNumber) =>
              k.numofSegments = IF g.last THEN g.segmentNumber + 1 ELSE h.numofSegments
<1> DEFINE seg == [service |-> g.service, whole |-> TRUE]
<1>1. CASE Has(h, g.segmentNumber)
  BY <1>1 DEF addBodySegment
<1>2. CASE ~Has(h, g.segmentNumber)
  <2>1. k = [h EXCEPT !.motMap[g.segmentNumber] = seg,
                      !.numofSegments = IF g.last THEN g.segmentNumber + 1 ELSE @]
    BY <1>2 DEF addBodySegment
  <2>2. /\ DOMAIN k = {"motMap", "numofSegments"}
        /\ k.motMap = [h.motMap EXCEPT ![g.segmentNumber] = seg]
        /\ k.numofSegments = IF g.last THEN g.segmentNumber + 1 ELSE h.numofSegments
    BY <2>1
  <2>3. seg.whole # Lacking.whole
    BY DEF Lacking
  <2>4. seg # Lacking
    BY <2>3
  <2>5. \A i \in SegmentNumbers :
          k.motMap[i] = IF i = g.segmentNumber THEN seg ELSE h.motMap[i]
    BY <2>2
  <2>6. \A i \in SegmentNumbers : Has(k, i) <=> Has(h, i) \/ i = g.segmentNumber
    BY <2>4, <2>5 DEF Has
  <2> QED
    BY <1>2, <2>2, <2>6
<1> QED
  BY <1>1, <1>2

\* An object that becomes complete has all segments.
LEMMA CompleteIsWhole ==
  ASSUME NEW G, IsGroups(G), NEW s, Part(G, s), s # NoSlide,
         NEW g \in Segments(G, s.transportId), Completes(s.object, g),
         NEW i \in SegmentNumbers
  PROVE  (\E e \in Segments(G, s.transportId) : e.segmentNumber = i)
         => i = g.segmentNumber \/ Has(s.object, i)
<1> DEFINE n == IF g.last THEN g.segmentNumber + 1 ELSE s.object.numofSegments
<1>1. /\ g \in G /\ g.groupType = 4 /\ g.transportId = s.transportId
      /\ g.segmentNumber \in SegmentNumbers
  BY DEF Segments, IsGroups
<1>2. PICK l \in Segments(G, s.transportId) : l.last /\ n = l.segmentNumber + 1
  <2>1. CASE g.last
    BY <2>1
  <2>2. CASE ~g.last
    BY <2>2 DEF Completes, Part
  <2> QED
    BY <2>1, <2>2
<1>3. l.segmentNumber \in SegmentNumbers
  BY DEF Segments, IsGroups
<1>4. \A e \in Segments(G, s.transportId) : e.segmentNumber <= l.segmentNumber
  BY <1>2 DEF Segments, IsGroups
<1>5. \A j \in 0..(n - 1) : j = g.segmentNumber \/ Has(s.object, j)
  BY DEF Completes
<1>6. n - 1 = l.segmentNumber
  BY <1>2, <1>3, SegAssumption DEF SegmentNumbers
<1> SUFFICES ASSUME NEW e \in Segments(G, s.transportId), e.segmentNumber = i
             PROVE  i = g.segmentNumber \/ Has(s.object, i)
  OBVIOUS
<1>7. i <= l.segmentNumber
  BY <1>4
<1>8. i \in 0..(n - 1)
  BY <1>3, <1>6, <1>7, SegAssumption DEF SegmentNumbers
<1> QED
  BY <1>5, <1>8

\* A segment comes to the slide it belongs to, and completes it with all of its
\* segments.
LEMMA SlideBodySound ==
  ASSUME NEW G, IsGroups(G), NEW p, SlidesSound(G, p), NEW g \in G, g.groupType = 4
  PROVE  SlidesSound(G, SlideBody(p, g))
<1>1. CASE ~ForCurrent(p, g)
  BY <1>1 DEF SlideBody
<1>2. CASE ForCurrent(p, g)
  <2> DEFINE s == p.currentSlide
             h == s.object
             k == addBodySegment(h, g, TRUE)
             t == [s EXCEPT !.object = k]
             q == [p EXCEPT !.currentSlide.object = k]
  <2>1. /\ s # NoSlide /\ g \in Segments(G, s.transportId) /\ Part(G, s)
        /\ g.segmentNumber \in SegmentNumbers
    BY <1>2 DEF ForCurrent, Segments, SlidesSound, IsGroups
  <2>2. /\ IsPad(q) /\ q.currentSlide = t
        /\ q.msc_dataGroupBuffer = p.msc_dataGroupBuffer /\ q.out = p.out
    BY DEF SlidesSound, IsPad
  <2>3. DOMAIN t = {"transportId", "object"} /\ t.object = k /\ t.transportId = s.transportId
    BY <2>1 DEF Part
  <2>4. /\ DOMAIN k = {"motMap", "numofSegments"} /\ DOMAIN k.motMap = SegmentNumbers
        /\ \A i \in SegmentNumbers : Has(k, i) <=> Has(h, i) \/ i = g.segmentNumber
        /\ Has(h, g.segmentNumber) => k = h
        /\ ~Has(h, g.segmentNumber) =>
             k.numofSegments = IF g.last THEN g.segmentNumber + 1 ELSE h.numofSegments
    <3>1. DOMAIN h = {"motMap", "numofSegments"} /\ DOMAIN h.motMap = SegmentNumbers
      BY <2>1 DEF Part
    <3> HIDE DEF h
    <3> QED
      BY <2>1, <3>1, SlideSegmentAdded
  <2>5. Part(G, t)
    <3>1. \A i \in SegmentNumbers :
            Has(t.object, i) => \E e \in Segments(G, t.transportId) : e.segmentNumber = i
      BY <2>1, <2>3, <2>4 DEF Part
    <3>2. t.object.numofSegments # -1 =>
            \E e \in Segments(G, t.transportId) :
              e.last /\ t.object.numofSegments = e.segmentNumber + 1
      BY <2>1, <2>3, <2>4 DEF Part
    <3> QED
      BY <2>3, <2>4, <3>1, <3>2 DEF Part
  <2>6. SlidesSound(G, q)
    BY <2>2, <2>5 DEF SlidesSound
  <2>7. CASE ~Completes(h, g)
    BY <1>2, <2>6, <2>7 DEF SlideBody
  <2>8. CASE Completes(h, g)
    <3> DEFINE z == [q EXCEPT !.out.slides = @ \cup {q.currentSlide}]
    <3>1. SlideBody(p, g) = z
      BY <1>2, <2>8 DEF SlideBody
    <3>2. /\ IsPad(z) /\ z.currentSlide = t
          /\ z.msc_dataGroupBuffer = p.msc_dataGroupBuffer
          /\ z.out.slides = p.out.slides \cup {t}
      BY <2>2 DEF IsPad
    <3>3. Whole(G, t)
      <4> SUFFICES ASSUME NEW i \in SegmentNumbers
                   PROVE  Has(t.object, i) <=>
                          \E e \in Segments(G, t.transportId) : e.segmentNumber = i
        BY DEF Whole
      <4>1. (\E e \in Segments(G, s.transportId) : e.segmentNumber = i)
            => i = g.segmentNumber \/ Has(h, i)
        BY <2>1, <2>8, CompleteIsWhole
      <4>2. Has(h, i) => \E e \in Segments(G, s.transportId) : e.segmentNumber = i
        BY <2>1 DEF Part
      <4> QED
        BY <2>1, <2>3, <2>4, <4>1, <4>2
    <3> QED
      BY <2>5, <3>1, <3>2, <3>3 DEF SlidesSound
  <2> QED
    BY <2>7, <2>8
<1> QED
  BY <1>1, <1>2

\* A data group that is whole gets to its handler.
LEMMA BuildSound ==
  ASSUME NEW G, IsGroups(G), NEW p, SlidesSound(G, p), NEW r, r.of \in G \cup {Mixed}
  PROVE  SlidesSound(G, build_MSC_segment(p, r))
<1>1. CASE r.of = Mixed \/ r.upto # r.size \/ r.upto < r.of.len
  BY <1>1 DEF build_MSC_segment
<1>2. CASE ~(r.of = Mixed \/ r.upto # r.size \/ r.upto < r.of.len)
  <2>1. CASE r.of.groupType = 3
    <3>1. build_MSC_segment(p, r) = SlideHeader(p, r.of)
      BY <1>2, <2>1 DEF build_MSC_segment
    <3> QED
      BY <3>1, SlideHeaderSound
  <2>2. CASE r.of.groupType = 4
    <3>1. build_MSC_segment(p, r) = SlideBody(p, r.of)
      BY <1>2, <2>2 DEF build_MSC_segment
    <3> QED
      BY <1>2, <2>2, <3>1, SlideBodySound
  <2>3. CASE r.of.groupType # 3 /\ r.of.groupType # 4
    BY <1>2, <2>3 DEF build_MSC_segment
  <2> QED
    BY <2>1, <2>2, <2>3
<1> QED
  BY <1>1, <1>2

\* The buffer is replaced by a run of a group; the flags are of no concern.
LEMMA BufferSet ==
  ASSUME NEW G, NEW p, SlidesSound(G, p), NEW r, OfGroups(G, r), NEW e
  PROVE  /\ SlidesSound(G, [p EXCEPT !.msc_dataGroupBuffer = r])
         /\ SlidesSound(G, [p EXCEPT !.msc_dataGroupBuffer = r, !.mscGroupElement = e])
BY DEF SlidesSound, IsPad

\* The field that begins a data group.
LEMMA NewElementSound ==
  ASSUME NEW G, IsGroups(G), NEW p, SlidesSound(G, p), NEW r, OfGroups(G, r)
  PROVE  SlidesSound(G, new_MSC_element(p, r))
<1>1. OfGroups(G, Empty)
  BY DEF OfGroups, Empty, IsRun, Run
<1>2. SlidesSound(G, build_MSC_segment(p, r))
  BY BuildSound DEF OfGroups
<1>3. SlidesSound(G, [build_MSC_segment(p, r) EXCEPT !.msc_dataGroupBuffer = Empty,
                                                     !.mscGroupElement = FALSE])
  BY <1>1, <1>2, BufferSet
<1>4. SlidesSound(G, [p EXCEPT !.msc_dataGroupBuffer = r, !.mscGroupElement = TRUE])
  BY BufferSet
<1> QED
  BY <1>3, <1>4 DEF new_MSC_element

\* The field that continues one: whatever it is, what was collected is then of
\* the group it was of, or of no use.
LEMMA AddElementSound ==
  ASSUME NEW G, IsGroups(G), NEW p, SlidesSound(G, p), NEW r, IsRun(r)
  PROVE  SlidesSound(G, add_MSC_element(p, r))
<1> DEFINE b == Joined(p.msc_dataGroupBuffer, r)
<1>1. CASE p.msc_dataGroupBuffer.size = 0
  BY <1>1 DEF add_MSC_element
<1>2. CASE p.msc_dataGroupBuffer.size # 0
  <2>1. OfGroups(G, b)
    BY <1>2, JoinedRun DEF SlidesSound, OfGroups
  <2>2. OfGroups(G, Empty)
    BY DEF OfGroups, Empty, IsRun, Run
  <2>3. SlidesSound(G, [build_MSC_segment(p, b) EXCEPT !.msc_dataGroupBuffer = Empty])
    BY <2>1, <2>2, BuildSound, BufferSet DEF OfGroups
  <2>4. SlidesSound(G, [p EXCEPT !.msc_dataGroupBuffer = b])
    BY <2>1, BufferSet
  <2> QED
    BY <1>2, <2>3, <2>4 DEF add_MSC_element
<1> QED
  BY <1>1, <1>2

\* A field with an application type of its own.
LEMMA ContentSound ==
  ASSUME NEW G, IsGroups(G), NEW p, SlidesSound(G, p), NEW f,
         f.appType \in {1, 2, 3, 12, 13},
         f.appType \in {12, 13} => OfGroups(G, f.run)
  PROVE  SlidesSound(G, Content(p, f))
<1>1. CASE f.appType = 1
  <2> DEFINE q == [p EXCEPT !.dataGroupLength = f.total]
  <2>1. SameSlides(p, q)
    BY DEF SlidesSound, IsPad, SameSlides
  <2>2. Content(p, f) = q
    BY <1>1 DEF Content
  <2> QED
    BY <2>1, <2>2, SlidesKept
<1>2. CASE f.appType \in {2, 3}
  <2>1. Content(p, f) = dynamicLabel(p, f)
    BY <1>2 DEF Content
  <2>2. SameSlides(p, dynamicLabel(p, f))
    BY <1>2, DynamicLabelSlides DEF SlidesSound
  <2> QED
    BY <2>1, <2>2, SlidesKept
<1>3. CASE f.appType = 12
  <2>1. Content(p, f) = new_MSC_element(p, f.run)
    BY <1>3 DEF Content
  <2> QED
    BY <1>3, <2>1, NewElementSound
<1>4. CASE f.appType = 13
  <2>1. Content(p, f) = add_MSC_element(p, f.run)
    BY <1>4 DEF Content
  <2> QED
    BY <1>4, <2>1, AddElementSound DEF OfGroups
<1> QED
  BY <1>1, <1>2, <1>3, <1>4

\* One round of the loop over the fields.
LEMMA FieldSound ==
  ASSUME NEW G, IsGroups(G), NEW p, SlidesSound(G, p), NEW fields, NEW n,
         Handled(fields, n) /\ fields[n].appType \in {12, 13} => OfGroups(G, fields[n].run),
         n \in Nat
  PROVE  SlidesSound(G, Field(p, fields, n))
<1>1. CASE Handled(fields, n)
  <2>1. fields[n].appType \in {1, 2, 3, 12, 13}
    BY <1>1 DEF Handled
  <2> QED
    BY <1>1, <2>1, ContentSound DEF Field
<1>2. CASE ~Handled(fields, n)
  BY <1>2 DEF Field
<1> QED
  BY <1>1, <1>2

\* padHandler::processPAD: an access unit of the programme.
LEMMA ProcessPADSound ==
  ASSUME NEW P, NEW au, IsAccessUnit(P, au), IsGroups(P.groups),
         NEW p, SlidesSound(P.groups, p), NEW flags
  PROVE  SlidesSound(P.groups, processPAD(p, au, flags))
<1> DEFINE G == P.groups
           q == [p EXCEPT !.out = Nothing]
           f == au.fields[1]
<1>1. IsPad(q) /\ SlidesSound(G, q)
  BY DEF SlidesSound, IsPad, Nothing
<1>2. CASE au.kind = "none"
  BY <1>1, <1>2 DEF processPAD
<1>3. CASE au.kind = "short" /\ au.ci
  <2>1. PICK w : processPAD(p, au, flags) = ShortWithCI(q, f, w)
    BY <1>3 DEF processPAD
  <2> QED
    BY <1>1, <2>1, ShortWithCISlides, SlidesKept
<1>4. CASE au.kind = "short" /\ ~au.ci
  <2>1. processPAD(p, au, flags) = ShortWithoutCI(q, f.run)
    BY <1>4 DEF processPAD
  <2> QED
    BY <1>1, <2>1, ShortWithoutCISlides, SlidesKept
<1>5. CASE au.kind = "variable" /\ au.ci
  <2> DEFINE p0 == IF q.mscGroupElement THEN [q EXCEPT !.xpadLength = au.xlen] ELSE q
             p1 == Field(p0, au.fields, 1)
             p2 == Field(p1, au.fields, 2)
             p3 == Field(p2, au.fields, 3)
  <2>1. processPAD(p, au, flags) = Field(p3, au.fields, 4)
    BY <1>5 DEF processPAD, WithCI
  <2>2. SlidesSound(G, p0)
    <3>1. SameSlides(q, [q EXCEPT !.xpadLength = au.xlen])
      BY <1>1 DEF IsPad, SameSlides
    <3> QED
      BY <1>1, <3>1, SlidesKept
  <2>3. \A n \in Nat : Handled(au.fields, n) /\ au.fields[n].appType \in {12, 13}
                       => OfGroups(G, au.fields[n].run)
    BY <1>5 DEF Handled, IsAccessUnit, OfGroups
  <2>4. SlidesSound(G, p1)
    BY <2>2, <2>3, FieldSound
  <2>5. SlidesSound(G, p2)
    <3> HIDE DEF p1
    <3> QED
      BY <2>3, <2>4, FieldSound
  <2>6. SlidesSound(G, p3)
    <3> HIDE DEF p2
    <3> QED
      BY <2>3, <2>5, FieldSound
  <2>7. SlidesSound(G, Field(p3, au.fields, 4))
    <3> HIDE DEF p3
    <3> QED
      BY <2>3, <2>6, FieldSound
  <2> QED
    BY <2>1, <2>7
<1>6. CASE au.kind = "variable" /\ ~au.ci
  <2>1. processPAD(p, au, flags) = WithoutCI(q, au)
    BY <1>6 DEF processPAD
  <2>2. IsRun(f.run)
    BY <1>6 DEF IsAccessUnit
  <2>3. SlidesSound(G, add_MSC_element(q, Cut(f.run, q.xpadLength)))
    BY <1>1, <2>2, CutRun, AddElementSound
  <2> QED
    BY <1>1, <2>1, <2>3 DEF WithoutCI
<1> QED
  BY <1>2, <1>3, <1>4, <1>5, <1>6 DEF IsAccessUnit

\* The constructor.
LEMMA NewPadSound ==
  ASSUME NEW G, NEW st PROVE SlidesSound(G, PadHandler0(st))
<1> DEFINE p == PadHandler0(st)
<1>1. IsPad(p) /\ p.currentSlide = NoSlide /\ p.msc_dataGroupBuffer = Empty /\ p.out.slides = {}
  BY DEF PadHandler0, IsPad, Nothing
<1>2. Part(G, NoSlide)
  BY DEF Part, NoSlide, NoObject, NewObject
<1>3. OfGroups(G, Empty)
  BY DEF OfGroups, Empty, IsRun, Run
<1> QED
  BY <1>1, <1>2, <1>3 DEF SlidesSound

\* The access units that are still to come are some of the programme.
Within ==
  /\ programme \in Programmes
  /\ sender.superframe \in 1..NSuperframes /\ sender.pos \in 0..4
  /\ theUnits \in Seq(1..Len(programme.aus))

SlideInv == Within /\ SlidesSound(programme.groups, pad)

\* There is at least one superframe, and the access units of all of them are
\* within the programme.
LEMMA UnitsInProgramme ==
  ASSUME NEW len \in Nat \ {0}, NEW k \in Nat \ {0}, len % k = 0
  PROVE  /\ len \div k \in Nat \ {0}
         /\ \A s \in 1..(len \div k), i \in 1..k : (s - 1) * k + i \in 1..len
<1> DEFINE n == len \div k
<1>1. n \in Int /\ len = k * n + (len % k)
  OBVIOUS
<1>2. len = k * n
  BY <1>1
<1> HIDE DEF n
<1>3. n >= 1
  <2> SUFFICES ASSUME n <= 0 PROVE FALSE
    BY <1>1
  <2>1. k * n <= 0
    BY <1>1
  <2> QED
    BY <1>2, <2>1
<1>4. ASSUME NEW s \in 1..n, NEW i \in 1..k PROVE (s - 1) * k + i \in 1..len
  <2>1. (s - 1) * k \in Nat /\ (n - s) * k \in Nat
    BY <1>1
  <2>2. k * n = (s - 1) * k + k + (n - s) * k
    BY <1>1
  <2> QED
    BY <1>2, <2>1, <2>2
<1> QED
  BY <1>1, <1>3, <1>4 DEF n

\* mp4Processor::processSuperframe goes through access units of the programme.
LEMMA UnitsFound ==
  ASSUME Within, NEW f, f.superframe = sender.superframe, NEW n \in 0..NumAus,
         addtoFrame(f, n)
  PROVE  theUnits' \in Seq(1..Len(programme.aus))
<1> DEFINE U == 1..Len(programme.aus)
<1>1. \A i \in 1..NumAus : UnitsOf(f)[i] \in U
  <2>1. /\ Len(programme.aus) \in Nat \ {0} /\ Len(programme.aus) % NumAus = 0
        /\ NumAus \in Nat \ {0}
    BY ProgrammeAssumption, NumAusAssumption DEF Within
  <2> QED
    BY <2>1, UnitsInProgramme DEF Within, NSuperframes, UnitsOf
<1>2. UnitsOf(f) \in Seq(U) /\ Len(UnitsOf(f)) = NumAus
  <2>1. UnitsOf(f) \in [1..NumAus -> U]
    BY <1>1 DEF UnitsOf
  <2> QED
    BY <2>1, NumAusAssumption
<1>3. SubSeq(UnitsOf(f), 1, n) \in Seq(U)
  BY <1>2, NumAusAssumption
<1>4. theUnits' = SubSeq(UnitsOf(f), 1, n) \/ theUnits' = <<>>
  BY DEF addtoFrame
<1>5. <<>> \in Seq(U)
  OBVIOUS
<1> QED
  BY <1>3, <1>4, <1>5

\* The programmes of the assumption have the groups that are supposed.
LEMMA GroupsOfProgrammes ==
  ASSUME SlidesWellFormed, programme \in Programmes
  PROVE  IsGroups(programme.groups)
BY ProgrammeAssumption DEF SlidesWellFormed, IsGroups

\* The first frame is one of the programme.
LEMMA InitWithin == AudioInit => Within
<1> SUFFICES ASSUME AudioInit PROVE Within
  OBVIOUS
<1>1. programme \in Programmes /\ sender.superframe = 1 /\ sender.pos \in 0..4
      /\ theUnits = <<>>
  BY DEF AudioInit, mp4Init
<1>2. 1 \in 1..NSuperframes
  <2>1. /\ Len(programme.aus) \in Nat \ {0} /\ Len(programme.aus) % NumAus = 0
        /\ NumAus \in Nat \ {0}
    BY <1>1, ProgrammeAssumption, NumAusAssumption
  <2>2. NSuperframes \in Nat \ {0}
    BY <2>1, UnitsInProgramme DEF NSuperframes
  <2> QED
    BY <2>2
<1> QED
  BY <1>1, <1>2 DEF Within

\* Nothing was shown in a call that has not been made.
LEMMA NothingShown ==
  ASSUME NEW G, NEW p, SlidesSound(G, p)
  PROVE  SlidesSound(G, [p EXCEPT !.out = Nothing])
BY DEF SlidesSound, IsPad, Nothing

\* The next frame is one of the programme.
LEMMA NextFrameOfProgramme ==
  ASSUME Within, NextFrame, programme' = programme
  PROVE  sender'.superframe \in 1..NSuperframes' /\ sender'.pos \in 0..4
<1>1. NSuperframes' = NSuperframes
  BY DEF NSuperframes
<1>2. NSuperframes \in Nat \ {0}
  BY ProgrammeAssumption, NumAusAssumption, UnitsInProgramme DEF Within, NSuperframes
<1>3. sender.superframe \in 1..NSuperframes /\ sender.pos \in 0..4
  BY DEF Within
<1>4. sender'.pos = (sender.pos + 1) % 5
  BY DEF NextFrame
<1>5. sender'.superframe = IF sender.pos < 4 THEN sender.superframe
                           ELSE (sender.superframe % NSuperframes) + 1
  BY DEF NextFrame
<1> HIDE DEF NSuperframes
<1>6. sender'.superframe \in 1..NSuperframes
  <2>1. (sender.superframe % NSuperframes) \in 0..(NSuperframes - 1)
    BY <1>2, <1>3
  <2> QED
    BY <1>2, <1>3, <1>5, <2>1
<1>7. sender'.pos \in 0..4
  BY <1>3, <1>4
<1> QED
  BY <1>1, <1>6, <1>7

\* addtoFrame takes the access units of the superframe that was sent.
LEMMA FrameStaysWithin ==
  ASSUME Within, NEW d, NEW n \in 0..NumAus, Frame(d, n)
  PROVE  Within'
<1>1. programme' = programme /\ NextFrame
  BY DEF Frame
<1>2. theUnits' \in Seq(1..Len(programme.aus))
  BY UnitsFound DEF Frame
<1> QED
  BY <1>1, <1>2, NextFrameOfProgramme DEF Within

\* Each step stays within the programme.
LEMMA StepStaysWithin ==
  ASSUME Within, [AudioNext]_audioVars
  PROVE  Within' /\ programme' = programme
<1> DEFINE U == 1..Len(programme.aus)
<1>1. NumAus \in 0..NumAus /\ (0..(NumAus - 1)) \subseteq 0..NumAus
  BY NumAusAssumption
<1>2. /\ programme \in Programmes /\ sender.superframe \in 1..NSuperframes
      /\ sender.pos \in 0..4 /\ theUnits \in Seq(U)
  BY DEF Within
<1>3. ASSUME UNCHANGED <<programme, sender>>, theUnits' \in Seq(U)
      PROVE  Within' /\ programme' = programme
  BY <1>2, <1>3 DEF Within, NSuperframes
<1>4. CASE FrameReceived \/ FrameDamaged
  BY <1>1, <1>4, FrameStaysWithin DEF FrameReceived, FrameDamaged, Frame
<1>5. CASE FrameLost
  <2>1. UNCHANGED <<programme, theUnits>> /\ NextFrame
    BY <1>5 DEF FrameLost, mp4Vars
  <2>2. sender'.superframe \in 1..NSuperframes' /\ sender'.pos \in 0..4
    BY <2>1, NextFrameOfProgramme
  <2> QED
    BY <1>2, <2>1, <2>2 DEF Within
<1>6. CASE Unit \/ DamagedUnit
  <2>1. UNCHANGED <<programme, sender>> /\ theUnits # <<>> /\ theUnits' = Tail(theUnits)
    BY <1>6 DEF Unit, DamagedUnit, NextUnit, senderVars
  <2> QED
    BY <1>2, <1>3, <2>1
<1>7. CASE Reselect
  <2>1. UNCHANGED <<programme, sender>> /\ theUnits' = <<>>
    BY <1>7 DEF Reselect, newMp4Processor, senderVars
  <2> QED
    BY <1>3, <2>1
<1>8. CASE UNCHANGED audioVars
  BY <1>2, <1>3, <1>8 DEF audioVars, senderVars, mp4Vars
<1> QED
  BY <1>4, <1>5, <1>6, <1>7, <1>8 DEF AudioNext

\* What a step does with the handler.
LEMMA StepOnPad ==
  ASSUME Within, [AudioNext]_audioVars
  PROVE  \/ UNCHANGED <<lastUnit, inRow>>
            /\ pad' \in {pad, [pad EXCEPT !.out = Nothing]}
         \/ lastUnit' = 0 /\ inRow' = 0 /\ pad' = PadHandler0(pad.static)
         \/ /\ Unit /\ Head(theUnits) \in 1..Len(programme.aus)
            /\ IsAccessUnit(programme, programme.aus[Head(theUnits)])
<1>1. CASE FrameReceived \/ FrameDamaged
  BY <1>1 DEF FrameReceived, FrameDamaged, Frame
<1>2. CASE FrameLost \/ DamagedUnit \/ UNCHANGED audioVars
  BY <1>2 DEF FrameLost, DamagedUnit, audioVars
<1>3. CASE Reselect
  BY <1>3 DEF Reselect
<1>4. CASE Unit
  <2>1. Head(theUnits) \in 1..Len(programme.aus)
    BY <1>4 DEF Unit, NextUnit, Within
  <2> QED
    BY <1>4, <2>1, ProgrammeAssumption DEF Within
<1> QED
  BY <1>1, <1>2, <1>3, <1>4 DEF AudioNext

\* Each step keeps the slides sound.
LEMMA StepKeepsSlide ==
  ASSUME SlidesWellFormed, SlideInv, [AudioNext]_audioVars
  PROVE  SlideInv'
<1>1. Within /\ SlidesSound(programme.groups, pad) /\ IsGroups(programme.groups)
  BY GroupsOfProgrammes DEF SlideInv, Within
<1>2. Within' /\ programme' = programme
  BY <1>1, StepStaysWithin
<1>3. SlidesSound(programme.groups, pad')
  <2>1. CASE pad' \in {pad, [pad EXCEPT !.out = Nothing], PadHandler0(pad.static)}
    BY <1>1, <2>1, NothingShown, NewPadSound
  <2>2. CASE Unit /\ IsAccessUnit(programme, programme.aus[Head(theUnits)])
    BY <1>1, <2>2, ProcessPADSound DEF Unit
  <2> QED
    BY <1>1, <2>1, <2>2, StepOnPad
<1> QED
  BY <1>2, <1>3 DEF SlideInv

\* padHandler: a slide that is shown has all the segments that were sent for it,
\* and none of another, however many access units were lost or came again.
THEOREM SlidesAreWhole == SlidesWellFormed => (AudioSpec => []SlideIsWhole)
<1> SUFFICES ASSUME SlidesWellFormed PROVE AudioSpec => []SlideIsWhole
  OBVIOUS
<1>1. SlideInv /\ [AudioNext]_audioVars => SlideInv'
  BY StepKeepsSlide
<1>2. AudioInit => SlideInv
  BY InitWithin, NewPadSound DEF AudioInit, SlideInv
<1>3. SlideInv => SlideIsWhole
  BY DEF SlideInv, SlidesSound, Whole, Segments, SlideIsWhole, SegmentsOf
<1> QED
  BY <1>1, <1>2, <1>3, PTL DEF AudioSpec

-----------------------------------------------------------------------------
(* Labels are shown whole.                                                 *)

\* The handler has collected what was sent of a label.
Reflects(q, s) ==
  /\ s.phase = "between" => q.dynamicLabelText = Run(s.label, 1, s.upto)
  /\ s.phase = "variable" =>
       /\ q.dynamicLabelText = Run(s.label, 1, s.upto + s.taken)
       /\ q.static.moreXPad /\ q.static.isLastSegment = s.last
       /\ q.static.remainDataLength = s.remain
  /\ s.phase = "short" =>
       /\ IF s.upto = 0 THEN q.dynamicLabelText.size = 0
          ELSE q.dynamicLabelText = Run(s.label, 1, s.upto)
       /\ q.shortpadData = Run(s.label, s.upto + 1, s.upto + s.taken)
       /\ q.still_to_go = s.remain
       /\ q.firstSegment = s.first /\ q.lastSegment = s.last

\* With r access units in a row the handler has what was sent of the label that
\* began in one of them, and if they are enough for a label, what it has shown
\* are labels of programme p.
Follows(p, r, q, s) ==
  /\ IsPad(q) /\ DOMAIN q.static = {"moreXPad", "isLastSegment", "remainDataLength"}
  /\ s # NoneSent /\ s.age <= r => Reflects(q, s)
  /\ r >= p.span => \A t \in q.out.labels : \E l \in p.labels : IsAllOf(t, l, l.units)

\* What Follows looks at is as before.
SameLabels(p, q) ==
  /\ IsPad(q) /\ q.static = p.static
  /\ q.dynamicLabelText = p.dynamicLabelText /\ q.shortpadData = p.shortpadData
  /\ q.still_to_go = p.still_to_go
  /\ q.firstSegment = p.firstSegment /\ q.lastSegment = p.lastSegment
  /\ q.out.labels = p.out.labels

\* A call that leaves all this as it is follows what was sent as before.
LEMMA LabelsKept ==
  ASSUME NEW p, NEW r, NEW q, NEW s, Follows(p, r, q, s), NEW z, SameLabels(q, z)
  PROVE  Follows(p, r, z, s)
BY DEF Follows, SameLabels, Reflects

\* Pieces of a label that follow one another are joined, and cut from the end.
LEMMA PiecesJoined ==
  ASSUME NEW l, l # Mixed, NEW u \in Nat, NEW v \in Nat, NEW w \in Nat, u < v, v < w
  PROVE  Joined(Run(l, u + 1, v), Run(l, v + 1, w)) = Run(l, u + 1, w)
<1> DEFINE a == Run(l, u + 1, v)
           b == Run(l, v + 1, w)
<1>1. a.of = l /\ a.upto = v /\ a.size = v - u /\ b.of = l /\ b.upto = w /\ b.size = w - v
  BY DEF Run
<1>2. Joined(a, b) = [b EXCEPT !.size = b.size + a.size]
  BY <1>1 DEF Joined
<1>3. \A n : [b EXCEPT !.size = n] = [of |-> l, upto |-> w, size |-> n]
  BY DEF Run
<1>4. b.size + a.size = w - (u + 1) + 1
  BY <1>1
<1> HIDE DEF a, b
<1>5. Joined(a, b) = [of |-> l, upto |-> w, size |-> w - (u + 1) + 1]
  BY <1>2, <1>3, <1>4
<1> QED
  BY <1>5 DEF Run, a, b

\* So is the beginning of a label.
LEMMA StartJoined ==
  ASSUME NEW l, l # Mixed, NEW v \in Nat, NEW w \in Nat, 0 < v, v < w
  PROVE  Joined(Run(l, 1, v), Run(l, v + 1, w)) = Run(l, 1, w)
<1> DEFINE u == 0
<1>1. u \in Nat /\ u + 1 = 1 /\ u < v
  OBVIOUS
<1> HIDE DEF u
<1>2. Joined(Run(l, u + 1, v), Run(l, v + 1, w)) = Run(l, u + 1, w)
  BY <1>1, PiecesJoined
<1> QED
  BY <1>1, <1>2

\* The first units of a piece of a label.
LEMMA PieceCut ==
  ASSUME NEW l, NEW u \in Nat, NEW v \in Nat, NEW n \in Nat
  PROVE  Cut(Run(l, u + 1, v), n) = Run(l, u + 1, u + n)
<1> DEFINE a == Run(l, u + 1, v)
<1>1. a.of = l /\ a.upto - a.size + n = u + n
  BY DEF Run
<1>2. Cut(a, n) = [of |-> a.of, upto |-> a.upto - a.size + n, size |-> n]
  <2>1. IsRun(a)
    BY DEF IsRun, Run
  <2> QED
    BY <2>1, CutRun
<1>3. u + n - (u + 1) + 1 = n
  OBVIOUS
<1> HIDE DEF a
<1>4. Cut(a, n) = [of |-> l, upto |-> u + n, size |-> n]
  BY <1>1, <1>2
<1> QED
  BY <1>3, <1>4 DEF Run, a

\* A piece is joined to nothing.
LEMMA NothingJoined ==
  ASSUME NEW a, NEW b, a.size = 0
  PROVE  Joined(a, b) = b
BY DEF Joined

\* All units of a label.
LEMMA AllOfLabel ==
  ASSUME NEW l, NEW n \in Nat
  PROVE  IsAllOf(Run(l, 1, n), l, n)
BY DEF IsAllOf, Run

\* What is sent of a label stays as it is described.
LEMMA SettledIsSent ==
  ASSUME NEW p, NEW s, s.remain >= 0,
         s \in [phase: {"variable", "short"}, label: p.labels, upto: Nat, taken: Nat,
                remain: Nat, first: BOOLEAN, last: BOOLEAN, age: Nat \ {0}],
         s.taken > 0, s.first <=> s.upto = 0,
         s.last => s.upto + s.taken + s.remain = s.label.units
  PROVE  Settled(s) \in LabelSent(p)
<1>1. CASE s.remain > 0
  BY <1>1 DEF Settled, LabelSent
<1>2. CASE ~(s.remain > 0) /\ s.last
  BY <1>2 DEF Settled, LabelSent
<1>3. CASE ~(s.remain > 0) /\ ~s.last
  <2> DEFINE z == [s EXCEPT !.phase = "between", !.upto = @ + s.taken, !.taken = 0]
  <2>1. Settled(s) = z
    BY <1>3 DEF Settled
  <2>2. s = [phase |-> s.phase, label |-> s.label, upto |-> s.upto, taken |-> s.taken,
             remain |-> s.remain, first |-> s.first, last |-> s.last, age |-> s.age]
    OBVIOUS
  <2> DEFINE y == [s EXCEPT !.phase = "between"]
             x == [y EXCEPT !.upto = s.upto + s.taken]
  <2>3. z = [phase |-> "between", label |-> s.label, upto |-> s.upto + s.taken, taken |-> 0,
             remain |-> s.remain, first |-> s.first, last |-> s.last, age |-> s.age]
    <3>1. y = [phase |-> "between", label |-> s.label, upto |-> s.upto, taken |-> s.taken,
               remain |-> s.remain, first |-> s.first, last |-> s.last, age |-> s.age]
      BY <2>2
    <3>2. z = [x EXCEPT !.taken = 0]
      OBVIOUS
    <3> HIDE DEF y, z
    <3>3. x = [phase |-> "between", label |-> s.label, upto |-> s.upto + s.taken,
               taken |-> s.taken, remain |-> s.remain, first |-> s.first, last |-> s.last,
               age |-> s.age]
      BY <3>1
    <3> HIDE DEF x
    <3> QED
      BY <3>2, <3>3
  <2> HIDE DEF z
  <2>4. /\ z \in [phase: {"between", "variable", "short"}, label: p.labels, upto: Nat, taken: Nat,
                  remain: Nat, first: BOOLEAN, last: BOOLEAN, age: Nat \ {0}]
        /\ z.phase = "between" /\ z.taken = 0 /\ z.upto > 0
    BY <2>3
  <2> QED
    BY <2>1, <2>4 DEF LabelSent, z
<1> QED
  BY <1>1, <1>2, <1>3

\* The state before settling, when a segment begins.
Opened(s, f, phase) ==
  [phase |-> phase, label |-> f.run.of, upto |-> IF f.first THEN 0 ELSE s.upto,
   taken |-> f.run.size, remain |-> f.total - f.run.size,
   first |-> f.first, last |-> f.last, age |-> IF f.first THEN 1 ELSE s.age]

\* A segment that begins.
LEMMA OpenedIsSent ==
  ASSUME NEW p, NEW s \in LabelSent(p), NEW f, MayBegin(p, s, f),
         NEW phase \in {"variable", "short"}
  PROVE  LET o == Opened(s, f, phase)
         IN /\ o \in [phase: {"variable", "short"}, label: p.labels, upto: Nat, taken: Nat,
                      remain: Nat, first: BOOLEAN, last: BOOLEAN, age: Nat \ {0}]
            /\ o.taken > 0 /\ (o.first <=> o.upto = 0)
            /\ o.last => o.upto + o.taken + o.remain = o.label.units
            /\ f.run = Run(o.label, o.upto + 1, o.upto + o.taken)
            /\ SegmentBegun(s, f, phase) = Settled(o) /\ Settled(o) \in LabelSent(p)
<1> DEFINE o == Opened(s, f, phase)
           u == IF f.first THEN 0 ELSE s.upto
<1>1. /\ f.first \in BOOLEAN /\ f.last \in BOOLEAN /\ f.total \in Nat
      /\ f.run.of \in p.labels /\ f.run.size \in 1..f.total
      /\ f.run = Run(f.run.of, u + 1, u + f.run.size)
      /\ f.last => u + f.total = f.run.of.units
      /\ ~f.first => s.phase = "between"
  BY DEF MayBegin
<1>2. ~f.first => s.upto \in Nat /\ s.upto > 0 /\ s.age \in Nat \ {0}
  BY <1>1 DEF LabelSent, NoneSent
<1>3. /\ o.phase = phase /\ o.label = f.run.of /\ o.upto = u /\ o.taken = f.run.size
      /\ o.remain = f.total - f.run.size /\ o.first = f.first /\ o.last = f.last
      /\ u \in Nat /\ (f.first <=> u = 0)
  BY <1>1, <1>2 DEF Opened
<1>4. f.run.size \in Nat /\ f.run.size > 0 /\ f.total - f.run.size \in Nat
  BY <1>1
<1>5. o \in [phase: {"variable", "short"}, label: p.labels, upto: Nat, taken: Nat,
             remain: Nat, first: BOOLEAN, last: BOOLEAN, age: Nat \ {0}]
  BY <1>1, <1>2, <1>3, <1>4 DEF Opened
<1>6. o.taken > 0 /\ (o.first <=> o.upto = 0)
  BY <1>3, <1>4
<1>7. o.last => o.upto + o.taken + o.remain = o.label.units
  BY <1>1, <1>3, <1>4
<1>8. SegmentBegun(s, f, phase) = Settled(o)
  BY DEF SegmentBegun, Opened
<1> HIDE DEF o
<1>9. Settled(o) \in LabelSent(p)
  BY <1>5, <1>6, <1>7, SettledIsSent
<1> QED
  BY <1>1, <1>3, <1>5, <1>6, <1>7, <1>8, <1>9 DEF o

\* What a step of a segment leaves is reflected.
LEMMA SettledReflected ==
  ASSUME NEW p, NEW q, NEW o,
         o \in [phase: {"variable", "short"}, label: p.labels, upto: Nat, taken: Nat,
                remain: Nat, first: BOOLEAN, last: BOOLEAN, age: Nat \ {0}],
         o.remain > 0 => Reflects(q, o),
         o.remain = 0 /\ ~o.last => q.dynamicLabelText = Run(o.label, 1, o.upto + o.taken)
  PROVE  /\ Reflects(q, Settled(o))
         /\ Settled(o) # NoneSent => Settled(o).age = o.age
<1>1. CASE o.remain > 0
  BY <1>1 DEF Settled
<1>2. CASE ~(o.remain > 0) /\ o.last
  BY <1>2 DEF Settled, NoneSent, Reflects
<1>3. CASE ~(o.remain > 0) /\ ~o.last
  <2> DEFINE z == [o EXCEPT !.phase = "between", !.upto = @ + o.taken, !.taken = 0]
  <2>1. Settled(o) = z
    BY <1>3 DEF Settled
  <2>2. z.phase = "between" /\ z.label = o.label /\ z.upto = o.upto + o.taken /\ z.age = o.age
    OBVIOUS
  <2>3. o.remain = 0
    BY <1>3
  <2> HIDE DEF z
  <2> QED
    BY <1>3, <2>1, <2>2, <2>3 DEF Reflects
<1> QED
  BY <1>1, <1>2, <1>3

\* A label that is shown is added to those that were.
LEMMA LabelShown ==
  ASSUME NEW p, NEW r, NEW q, NEW s, Follows(p, r, q, s),
         r >= p.span => \E l \in p.labels : IsAllOf(q.dynamicLabelText, l, l.units)
  PROVE  Follows(p, r, showLabel(q), s)
<1> DEFINE z == showLabel(q)
<1>1. /\ IsPad(z) /\ z.static = q.static /\ z.dynamicLabelText = q.dynamicLabelText
      /\ z.shortpadData = q.shortpadData /\ z.still_to_go = q.still_to_go
      /\ z.firstSegment = q.firstSegment /\ z.lastSegment = q.lastSegment
      /\ z.out.labels = q.out.labels \cup {q.dynamicLabelText}
  BY DEF Follows, IsPad, showLabel
<1> HIDE DEF z
<1>2. Follows(p, r, z, s)
  <2>1. s # NoneSent /\ s.age <= r => Reflects(z, s)
    BY <1>1 DEF Follows, Reflects
  <2>2. r >= p.span => \A t \in z.out.labels : \E l \in p.labels : IsAllOf(t, l, l.units)
    BY <1>1 DEF Follows
  <2> QED
    BY <1>1, <2>1, <2>2 DEF Follows
<1> QED
  BY <1>2 DEF z

\* dynamicLabel, the start of a segment.
LEMMA StartFollows ==
  ASSUME NEW p, p.span \in Nat \ {0}, Mixed \notin p.labels, NEW r \in Nat \ {0}, NEW q,
         NEW s \in LabelSent(p), Follows(p, r, q, s), NEW f, MayBegin(p, s, f)
  PROVE  /\ SegmentBegun(s, f, "variable") \in LabelSent(p)
         /\ Follows(p, r, LabelStart(q, f), SegmentBegun(s, f, "variable"))
<1> DEFINE o == Opened(s, f, "variable")
           more == f.total > f.run.size
           text == Joined(IF f.first THEN Empty ELSE q.dynamicLabelText, f.run)
           last == IsLast(q.static.isLastSegment, f.last, more)
           z == [q EXCEPT !.dynamicLabelText = text,
                          !.static = [moreXPad |-> more, isLastSegment |-> last,
                                      remainDataLength |-> f.total - f.run.size]]
<1>1. /\ o \in [phase: {"variable", "short"}, label: p.labels, upto: Nat, taken: Nat,
                remain: Nat, first: BOOLEAN, last: BOOLEAN, age: Nat \ {0}]
      /\ o.taken > 0 /\ (o.first <=> o.upto = 0)
      /\ o.last => o.upto + o.taken + o.remain = o.label.units
      /\ f.run = Run(o.label, o.upto + 1, o.upto + o.taken)
      /\ SegmentBegun(s, f, "variable") = Settled(o) /\ Settled(o) \in LabelSent(p)
  BY OpenedIsSent
<1>2. /\ o.phase = "variable" /\ o.remain = f.total - f.run.size /\ o.last = f.last
      /\ o.age = IF f.first THEN 1 ELSE s.age
      /\ o.upto = IF f.first THEN 0 ELSE s.upto
      /\ o.label = f.run.of /\ o.first = f.first
  BY DEF Opened
<1>3. /\ IsPad(z) /\ z.dynamicLabelText = text
      /\ z.static = [moreXPad |-> more, isLastSegment |-> last,
                     remainDataLength |-> f.total - f.run.size]
      /\ z.out = q.out
  BY DEF Follows, IsPad
<1>4. more <=> o.remain > 0
  BY <1>2 DEF MayBegin
<1>5. LabelStart(q, f) = IF f.last /\ ~more THEN showLabel(z) ELSE z
  BY DEF LabelStart
<1>6. o.age <= r => text = Run(o.label, 1, o.upto + o.taken)
  <2>1. CASE f.first
    <3>1. Empty.size = 0
      BY DEF Empty, Run
    <3> QED
      BY <1>1, <1>2, <2>1, <3>1, NothingJoined
  <2>2. CASE ~f.first
    <3>1. s.phase = "between" /\ s.label = f.run.of
      BY <2>2 DEF MayBegin
    <3>2. s # NoneSent
      BY <3>1 DEF NoneSent
    <3>3. o.age <= r => q.dynamicLabelText = Run(o.label, 1, o.upto)
      BY <1>2, <2>2, <3>1, <3>2 DEF Follows, Reflects
    <3>4. o.label # Mixed /\ o.upto \in Nat /\ o.taken \in Nat /\ o.upto # 0
      BY <1>1, <1>2, <2>2
    <3> HIDE DEF o
    <3>5. Joined(Run(o.label, 1, o.upto), f.run) = Run(o.label, 1, o.upto + o.taken)
      <4>1. 0 < o.upto /\ o.upto + o.taken \in Nat /\ o.upto < o.upto + o.taken
        BY <1>1, <3>4
      <4>2. \A l, v, w : l # Mixed /\ v \in Nat /\ w \in Nat /\ 0 < v /\ v < w
              => Joined(Run(l, 1, v), Run(l, v + 1, w)) = Run(l, 1, w)
        BY StartJoined
      <4>3. f.run = Run(o.label, o.upto + 1, o.upto + o.taken)
        BY <1>1
      <4> QED
        BY <3>4, <4>1, <4>2, <4>3
    <3> QED
      BY <2>2, <3>3, <3>5
  <2> QED
    BY <2>1, <2>2
<1> HIDE DEF o
<1>7. o.age <= r => Reflects(z, Settled(o))
  <2> SUFFICES ASSUME o.age <= r PROVE Reflects(z, Settled(o))
    OBVIOUS
  <2>1. z.dynamicLabelText = Run(o.label, 1, o.upto + o.taken)
    BY <1>3, <1>6
  <2>2. o.remain > 0 => /\ z.static.moreXPad /\ z.static.isLastSegment = o.last
                        /\ z.static.remainDataLength = o.remain
    <3>1. f.last \in BOOLEAN
      BY DEF MayBegin
    <3>2. more => last = f.last
      <4> HIDE DEF more
      <4>1. f.last = TRUE \/ f.last = FALSE
        BY <3>1
      <4> QED
        BY <4>1 DEF IsLast
    <3>3. /\ z.static.moreXPad = more /\ z.static.isLastSegment = last
          /\ z.static.remainDataLength = f.total - f.run.size
      <4> HIDE DEF z, text, more, last
      <4> QED
        BY <1>3
    <3> HIDE DEF z, text, more, last
    <3> QED
      BY <1>2, <1>4, <3>2, <3>3
  <2>3. o.remain > 0 => Reflects(z, o)
    <3> HIDE DEF z
    <3> QED
      BY <1>2, <2>1, <2>2 DEF Reflects
  <2> HIDE DEF z
  <2> QED
    BY <1>1, <2>1, <2>3, SettledReflected
<1>8. Settled(o) # NoneSent => Settled(o).age = o.age
  BY <1>1 DEF Settled
<1>9. Follows(p, r, z, Settled(o))
  <2> HIDE DEF z, text, last
  <2>1. Settled(o) # NoneSent /\ Settled(o).age <= r => Reflects(z, Settled(o))
    BY <1>7, <1>8
  <2>2. DOMAIN z.static = {"moreXPad", "isLastSegment", "remainDataLength"}
    BY <1>3
  <2> QED
    BY <1>3, <2>1, <2>2 DEF Follows
<1>10. CASE f.last /\ ~more
  <2>1. o.label.units = o.upto + o.taken
    <3>1. o.remain = 0
      BY <1>1, <1>4, <1>10
    <3>2. o.upto + o.taken + o.remain = o.label.units
      BY <1>1, <1>2, <1>10
    <3> QED
      BY <1>1, <3>1, <3>2
  <2>2. r >= p.span => o.age <= r
    <3>1. ~f.first => s.age <= p.span /\ s.age \in Nat
      BY DEF MayBegin, LabelSent, NoneSent
    <3> QED
      BY <1>2, <3>1
  <2>3. r >= p.span => IsAllOf(z.dynamicLabelText, o.label, o.label.units)
    BY <1>1, <1>3, <1>6, <2>1, <2>2, AllOfLabel
  <2>4. Follows(p, r, showLabel(z), Settled(o))
    <3> HIDE DEF z
    <3> QED
      BY <1>1, <1>9, <2>3, LabelShown
  <2> QED
    BY <1>1, <1>5, <1>10, <2>4
<1>11. CASE ~(f.last /\ ~more)
  BY <1>1, <1>5, <1>9, <1>11
<1> QED
  BY <1>10, <1>11

\* The state before settling, when a segment goes on.
Grown(s, r) ==
  LET n == Lesser(s.remain, r.size) IN [s EXCEPT !.taken = @ + n, !.remain = @ - n]

\* A segment that goes on.
LEMMA GrownIsSent ==
  ASSUME NEW p, NEW s \in LabelSent(p), NEW r, NEW phase \in {"variable", "short"},
         MayContinue(p, s, r, phase)
  PROVE  LET o == Grown(s, r)
             n == Lesser(s.remain, r.size)
         IN /\ s.phase = phase /\ s # NoneSent /\ s.label \in p.labels
            /\ s.upto \in Nat /\ s.taken \in Nat /\ s.remain \in Nat /\ s.taken > 0
            /\ s.age \in Nat \ {0} /\ (s.first <=> s.upto = 0)
            /\ s.first \in BOOLEAN /\ s.last \in BOOLEAN
            /\ n \in Nat /\ n > 0 /\ n <= s.remain
            /\ Cut(r, n) = Run(s.label, s.upto + s.taken + 1, s.upto + s.taken + n)
            /\ o \in [phase: {"variable", "short"}, label: p.labels, upto: Nat, taken: Nat,
                      remain: Nat, first: BOOLEAN, last: BOOLEAN, age: Nat \ {0}]
            /\ o.phase = phase /\ o.label = s.label /\ o.upto = s.upto /\ o.taken = s.taken + n
            /\ o.remain = s.remain - n /\ o.first = s.first /\ o.last = s.last /\ o.age = s.age
            /\ o.last => o.upto + o.taken + o.remain = o.label.units
            /\ SegmentContinued(s, r) = Settled(o) /\ Settled(o) \in LabelSent(p)
<1> DEFINE o == Grown(s, r)
           n == Lesser(s.remain, r.size)
<1>1. /\ s.phase = phase /\ r.size \in Nat \ {0}
      /\ r = Run(s.label, s.upto + s.taken + 1, s.upto + s.taken + r.size)
  BY DEF MayContinue
<1>2. s # NoneSent
  BY <1>1 DEF NoneSent
<1>3. /\ s \in [phase: {"variable", "short"}, label: p.labels, upto: Nat, taken: Nat,
                remain: Nat, first: BOOLEAN, last: BOOLEAN, age: Nat \ {0}]
      /\ s.taken > 0 /\ s.remain > 0 /\ (s.first <=> s.upto = 0)
      /\ s.last => s.upto + s.taken + s.remain = s.label.units
  BY <1>1, <1>2 DEF LabelSent
<1>4. n \in Nat /\ n > 0 /\ n <= s.remain
  BY <1>1, <1>3 DEF Lesser
<1>5. Cut(r, n) = Run(s.label, s.upto + s.taken + 1, s.upto + s.taken + n)
  <2>1. Cut(Run(s.label, s.upto + s.taken + 1, s.upto + s.taken + r.size), n)
          = Run(s.label, s.upto + s.taken + 1, s.upto + s.taken + n)
    <3> DEFINE u == s.upto + s.taken
               v == u + r.size
    <3>1. u \in Nat /\ v \in Nat
      BY <1>1, <1>3
    <3>2. ASSUME NEW a \in Nat, NEW b \in Nat
          PROVE  Cut(Run(s.label, a + 1, b), n) = Run(s.label, a + 1, a + n)
      <4> HIDE DEF n
      <4> QED
        BY <1>4, PieceCut
    <3> HIDE DEF u, v, n
    <3>3. Cut(Run(s.label, u + 1, v), n) = Run(s.label, u + 1, u + n)
      BY <3>1, <3>2
    <3> QED
      BY <3>3 DEF u, v
  <2> QED
    BY <1>1, <2>1
<1> HIDE DEF n
<1>6. /\ o \in [phase: {"variable", "short"}, label: p.labels, upto: Nat, taken: Nat,
                remain: Nat, first: BOOLEAN, last: BOOLEAN, age: Nat \ {0}]
      /\ o.phase = phase /\ o.label = s.label /\ o.upto = s.upto /\ o.taken = s.taken + n
      /\ o.remain = s.remain - n /\ o.first = s.first /\ o.last = s.last /\ o.age = s.age
  <2>1. o = [s EXCEPT !.taken = s.taken + n, !.remain = s.remain - n]
    BY DEF Grown, n
  <2>2. s.taken + n \in Nat /\ s.remain - n \in Nat
    BY <1>3, <1>4
  <2> QED
    BY <1>1, <1>3, <2>1, <2>2
<1>7. SegmentContinued(s, r) = Settled(o)
  BY DEF SegmentContinued, Grown
<1> HIDE DEF o
<1>8. o.last => o.upto + o.taken + o.remain = o.label.units
  BY <1>3, <1>4, <1>6
<1>9. Settled(o) \in LabelSent(p)
  BY <1>3, <1>4, <1>6, <1>8, SettledIsSent
<1> QED
  BY <1>1, <1>2, <1>3, <1>4, <1>5, <1>6, <1>7, <1>8, <1>9 DEF o, n

\* dynamicLabel, the continuation of a segment: with too few access units in a
\* row nothing is said.
LEMMA ContinuationFollows ==
  ASSUME NEW p, p.span \in Nat \ {0}, Mixed \notin p.labels, NEW r \in Nat \ {0}, NEW q,
         NEW s \in LabelSent(p), Follows(p, r, q, s), NEW f, f.appType = 3,
         MayContinue(p, s, f.run, "variable")
  PROVE  /\ SegmentContinued(s, f.run) \in LabelSent(p)
         /\ Follows(p, r, dynamicLabel(q, f), SegmentContinued(s, f.run))
<1> DEFINE o == Grown(s, f.run)
           n == Lesser(s.remain, f.run.size)
           remain == q.static.remainDataLength
           more == remain > f.run.size
           text == Joined(q.dynamicLabelText, Cut(f.run, Lesser(remain, f.run.size)))
           left == IF more THEN remain - f.run.size ELSE remain
           z == [q EXCEPT !.dynamicLabelText = text, !.static.moreXPad = more,
                          !.static.remainDataLength = left]
<1>1. /\ s.phase = "variable" /\ s # NoneSent /\ s.label \in p.labels
      /\ s.upto \in Nat /\ s.taken \in Nat /\ s.remain \in Nat /\ s.taken > 0
      /\ s.age \in Nat \ {0} /\ (s.first <=> s.upto = 0)
      /\ s.first \in BOOLEAN /\ s.last \in BOOLEAN
      /\ n \in Nat /\ n > 0 /\ n <= s.remain
      /\ Cut(f.run, n) = Run(s.label, s.upto + s.taken + 1, s.upto + s.taken + n)
      /\ o \in [phase: {"variable", "short"}, label: p.labels, upto: Nat, taken: Nat,
                remain: Nat, first: BOOLEAN, last: BOOLEAN, age: Nat \ {0}]
      /\ o.phase = "variable" /\ o.label = s.label /\ o.upto = s.upto /\ o.taken = s.taken + n
      /\ o.remain = s.remain - n /\ o.first = s.first /\ o.last = s.last /\ o.age = s.age
      /\ o.last => o.upto + o.taken + o.remain = o.label.units
      /\ SegmentContinued(s, f.run) = Settled(o) /\ Settled(o) \in LabelSent(p)
  BY GrownIsSent
<1>2. s.age <= p.span /\ f.run.size \in Nat \ {0}
  BY DEF MayContinue
<1>3. /\ IsPad(z) /\ z.dynamicLabelText = text /\ z.out = q.out
      /\ DOMAIN z.static = {"moreXPad", "isLastSegment", "remainDataLength"}
      /\ z.static.moreXPad = more /\ z.static.remainDataLength = left
      /\ z.static.isLastSegment = q.static.isLastSegment
  BY DEF Follows, IsPad
<1>4. LabelContinued(q, f) = IF ~more /\ q.static.isLastSegment THEN showLabel(z) ELSE z
  BY DEF LabelContinued
<1>5. dynamicLabel(q, f) = IF q.static.moreXPad THEN LabelContinued(q, f) ELSE q
  BY DEF dynamicLabel
<1>6. Settled(o) # NoneSent => Settled(o).age = s.age
  BY <1>1 DEF Settled
<1>7. CASE ~(s.age <= r)
  <2>1. ~(r >= p.span)
    BY <1>1, <1>2, <1>7
  <2>2. \A y : IsPad(y) /\ DOMAIN y.static = {"moreXPad", "isLastSegment", "remainDataLength"}
               => Follows(p, r, y, Settled(o))
    <3> HIDE DEF o
    <3> QED
      BY <1>6, <1>7, <2>1 DEF Follows
  <2>3. /\ IsPad(showLabel(z))
        /\ DOMAIN showLabel(z).static = {"moreXPad", "isLastSegment", "remainDataLength"}
    <3> HIDE DEF z
    <3> QED
      BY <1>3 DEF showLabel, IsPad
  <2>4. IsPad(q) /\ DOMAIN q.static = {"moreXPad", "isLastSegment", "remainDataLength"}
    BY DEF Follows
  <2>5. dynamicLabel(q, f) \in {q, z, showLabel(z)}
    <3> HIDE DEF z
    <3> QED
      BY <1>4, <1>5
  <2> HIDE DEF z, o
  <2> QED
    BY <1>1, <1>3, <2>2, <2>3, <2>4, <2>5
<1>8. CASE s.age <= r
  <2>1. /\ q.dynamicLabelText = Run(s.label, 1, s.upto + s.taken)
        /\ q.static.moreXPad /\ q.static.isLastSegment = s.last /\ remain = s.remain
    BY <1>1, <1>8 DEF Follows, Reflects
  <2>2. text = Run(o.label, 1, o.upto + o.taken)
    <3>1. Joined(Run(s.label, 0 + 1, s.upto + s.taken),
                 Run(s.label, s.upto + s.taken + 1, s.upto + s.taken + n))
            = Run(s.label, 0 + 1, s.upto + s.taken + n)
      <4> DEFINE u == s.upto + s.taken
                 v == u + n
      <4>1. u \in Nat /\ v \in Nat /\ 0 < u /\ u < v /\ s.label # Mixed
        <5> HIDE DEF n
        <5> QED
          BY <1>1
      <4> HIDE DEF u, v, n
      <4>2. Joined(Run(s.label, 0 + 1, u), Run(s.label, u + 1, v)) = Run(s.label, 0 + 1, v)
        <5>1. \A a, b, c \in Nat : a < b /\ b < c =>
                Joined(Run(s.label, a + 1, b), Run(s.label, b + 1, c)) = Run(s.label, a + 1, c)
          BY <4>1, PiecesJoined
        <5>2. 0 \in Nat
          OBVIOUS
        <5> QED
          BY <4>1, <5>1, <5>2
      <4> QED
        BY <4>2 DEF u, v
    <3>2. Cut(f.run, Lesser(remain, f.run.size)) = Cut(f.run, n)
      BY <2>1
    <3>3. o.upto + o.taken = s.upto + s.taken + n
      BY <1>1
    <3> HIDE DEF o, n, remain
    <3> QED
      BY <1>1, <2>1, <3>1, <3>2, <3>3
  <2>3. /\ more <=> o.remain > 0
        /\ more => left = o.remain
    <3>1. n = IF s.remain < f.run.size THEN s.remain ELSE f.run.size
      BY DEF Lesser
    <3> HIDE DEF o, n
    <3> QED
      BY <1>1, <1>2, <2>1, <3>1
  <2> HIDE DEF more, left, text, remain, o, n
  <2>4. Follows(p, r, z, Settled(o))
    <3>1. o.remain > 0 => Reflects(z, o)
      <4> HIDE DEF z
      <4> QED
        BY <1>1, <1>3, <2>1, <2>2, <2>3 DEF Reflects
    <3>2. Reflects(z, Settled(o))
      <4> HIDE DEF z
      <4> QED
        BY <1>1, <1>3, <2>2, <3>1, SettledReflected
    <3> HIDE DEF z
    <3> QED
      BY <1>3, <3>2 DEF Follows
  <2>5. CASE ~more /\ s.last
    <3>1. o.label.units = o.upto + o.taken /\ o.upto + o.taken \in Nat
      <4>1. o.remain = 0
        BY <1>1, <2>3, <2>5
      <4>2. o.upto + o.taken + o.remain = o.label.units
        BY <1>1, <2>5
      <4> QED
        BY <1>1, <4>1, <4>2
    <3>2. IsAllOf(z.dynamicLabelText, o.label, o.label.units)
      <4> HIDE DEF z
      <4> QED
        BY <1>3, <2>2, <3>1, AllOfLabel
    <3>3. Follows(p, r, showLabel(z), Settled(o))
      <4> HIDE DEF z
      <4> QED
        BY <1>1, <2>4, <3>2, LabelShown
    <3>4. dynamicLabel(q, f) = showLabel(z)
      <4> HIDE DEF z
      <4> QED
        BY <1>4, <1>5, <2>1, <2>5
    <3> QED
      BY <1>1, <3>3, <3>4
  <2>6. CASE ~(~more /\ s.last)
    <3>1. dynamicLabel(q, f) = z
      <4> HIDE DEF z
      <4> QED
        BY <1>4, <1>5, <2>1, <2>6
    <3> QED
      BY <1>1, <2>4, <3>1
  <2> QED
    BY <2>5, <2>6
<1> QED
  BY <1>7, <1>8

\* handle_shortPAD, the start of a segment.
LEMMA ShortStartFollows ==
  ASSUME NEW p, p.span \in Nat \ {0}, NEW r \in Nat \ {0}, NEW q,
         NEW s \in LabelSent(p), Follows(p, r, q, s), NEW f, MayBegin(p, s, f),
         f.appType = 2, f.run.size = 1, f.total > 1
  PROVE  /\ SegmentBegun(s, f, "short") \in LabelSent(p)
         /\ Follows(p, r, ShortWithCI(q, f, [first |-> f.first, last |-> f.last]),
                    SegmentBegun(s, f, "short"))
<1> DEFINE o == Opened(s, f, "short")
           text == IF f.first THEN Empty ELSE q.dynamicLabelText
           y == [q EXCEPT !.firstSegment = f.first, !.lastSegment = f.last,
                          !.dynamicLabelText = text]
           z == [y EXCEPT !.still_to_go = f.total - 1, !.shortpadData = f.run]
<1>1. /\ o \in [phase: {"variable", "short"}, label: p.labels, upto: Nat, taken: Nat,
                remain: Nat, first: BOOLEAN, last: BOOLEAN, age: Nat \ {0}]
      /\ f.run = Run(o.label, o.upto + 1, o.upto + o.taken)
      /\ SegmentBegun(s, f, "short") = Settled(o) /\ Settled(o) \in LabelSent(p)
  BY OpenedIsSent
<1>2. /\ o.phase = "short" /\ o.remain = f.total - 1 /\ o.last = f.last
      /\ o.age = IF f.first THEN 1 ELSE s.age
      /\ o.upto = IF f.first THEN 0 ELSE s.upto
      /\ o.label = f.run.of /\ o.first = f.first
  BY DEF Opened
<1>3. Settled(o) = o
  BY <1>2 DEF Settled, MayBegin
<1>4. ShortWithCI(q, f, [first |-> f.first, last |-> f.last]) = z
  BY DEF ShortWithCI
<1>5. /\ IsPad(z) /\ z.dynamicLabelText = text /\ z.out = q.out /\ z.static = q.static
      /\ z.still_to_go = f.total - 1 /\ z.shortpadData = f.run
      /\ z.firstSegment = f.first /\ z.lastSegment = f.last
  <2>1. /\ IsPad(y) /\ y.dynamicLabelText = text /\ y.out = q.out /\ y.static = q.static
        /\ y.firstSegment = f.first /\ y.lastSegment = f.last
    BY DEF Follows, IsPad
  <2> HIDE DEF y
  <2> QED
    BY <2>1 DEF IsPad
<1>6. o.age <= r => IF o.upto = 0 THEN text.size = 0 ELSE text = Run(o.label, 1, o.upto)
  <2>1. CASE f.first
    <3>1. Empty.size = 0
      BY DEF Empty, Run
    <3> QED
      BY <1>2, <2>1, <3>1
  <2>2. CASE ~f.first
    <3>1. s.phase = "between" /\ s.label = f.run.of
      BY <2>2 DEF MayBegin
    <3>2. s # NoneSent
      BY <3>1 DEF NoneSent
    <3>3. s.upto # 0
      BY <3>1, <3>2 DEF LabelSent
    <3> HIDE DEF o
    <3> QED
      BY <1>2, <2>2, <3>1, <3>2, <3>3 DEF Follows, Reflects
  <2> QED
    BY <2>1, <2>2
<1> HIDE DEF o, text, z
<1>7. o.age <= r => Reflects(z, o)
  BY <1>1, <1>2, <1>5, <1>6 DEF Reflects
<1> QED
  BY <1>1, <1>3, <1>4, <1>5, <1>7 DEF Follows

\* handle_shortPAD, another field with a contents indicator: nothing is shown.
LEMMA ShortOtherFollows ==
  ASSUME NEW p, NEW r, NEW q, NEW s, Follows(p, r, q, s), NEW f, NEW flags
  PROVE  Follows(p, r, ShortWithCI(q, f, flags), NoneSent)
<1> DEFINE z == ShortWithCI(q, f, flags)
<1>1. IsPad(z) /\ z.out = q.out /\ z.static = q.static
  BY DEF Follows, IsPad, ShortWithCI
<1> HIDE DEF z
<1>2. Follows(p, r, z, NoneSent)
  BY <1>1 DEF Follows
<1> QED
  BY <1>2 DEF z

\* handle_shortPAD without: the data of a segment go on.
LEMMA ShortContinuationFollows ==
  ASSUME NEW p, p.span \in Nat \ {0}, Mixed \notin p.labels, NEW r \in Nat \ {0}, NEW q,
         NEW s \in LabelSent(p), Follows(p, r, q, s), NEW d, MayContinue(p, s, d, "short")
  PROVE  /\ SegmentContinued(s, d) \in LabelSent(p)
         /\ Follows(p, r, ShortWithoutCI(q, d), SegmentContinued(s, d))
<1> DEFINE o == Grown(s, d)
           n == Lesser(s.remain, d.size)
           m == Lesser(q.still_to_go, d.size)
           data == IF m = 0 THEN q.shortpadData ELSE Joined(q.shortpadData, Cut(d, m))
           text == Joined(q.dynamicLabelText, data)
           y == [q EXCEPT !.still_to_go = 0, !.shortpadData = Empty, !.dynamicLabelText = text]
           x == [showLabel(y) EXCEPT !.dynamicLabelText = Empty]
           w == [q EXCEPT !.still_to_go = @ - m, !.shortpadData = data]
<1>1. /\ s.phase = "short" /\ s # NoneSent /\ s.label \in p.labels
      /\ s.upto \in Nat /\ s.taken \in Nat /\ s.remain \in Nat /\ s.taken > 0
      /\ s.age \in Nat \ {0} /\ (s.first <=> s.upto = 0)
      /\ s.first \in BOOLEAN /\ s.last \in BOOLEAN
      /\ n \in Nat /\ n > 0 /\ n <= s.remain
      /\ Cut(d, n) = Run(s.label, s.upto + s.taken + 1, s.upto + s.taken + n)
      /\ o \in [phase: {"variable", "short"}, label: p.labels, upto: Nat, taken: Nat,
                remain: Nat, first: BOOLEAN, last: BOOLEAN, age: Nat \ {0}]
      /\ o.phase = "short" /\ o.label = s.label /\ o.upto = s.upto /\ o.taken = s.taken + n
      /\ o.remain = s.remain - n /\ o.first = s.first /\ o.last = s.last /\ o.age = s.age
      /\ o.last => o.upto + o.taken + o.remain = o.label.units
      /\ SegmentContinued(s, d) = Settled(o) /\ Settled(o) \in LabelSent(p)
  BY GrownIsSent
<1>2. s.age <= p.span /\ d.size \in Nat \ {0}
  BY DEF MayContinue
<1>3. ShortWithoutCI(q, d) =
        IF m < q.still_to_go \/ data.size = 0 THEN w
        ELSE IF ~q.firstSegment /\ q.lastSegment THEN x ELSE y
  BY DEF ShortWithoutCI
<1>4. /\ IsPad(y) /\ y.out = q.out /\ y.static = q.static /\ y.dynamicLabelText = text
      /\ IsPad(w) /\ w.out = q.out /\ w.static = q.static
      /\ w.dynamicLabelText = q.dynamicLabelText /\ w.shortpadData = data
      /\ w.still_to_go = q.still_to_go - m
      /\ w.firstSegment = q.firstSegment /\ w.lastSegment = q.lastSegment
  BY DEF Follows, IsPad
<1>5. IsPad(x) /\ x.static = q.static /\ x.out.labels = q.out.labels \cup {text}
  <2> HIDE DEF y
  <2> QED
    BY <1>4 DEF showLabel, IsPad
<1>6. DOMAIN q.static = {"moreXPad", "isLastSegment", "remainDataLength"}
  BY DEF Follows
<1>7. Settled(o) # NoneSent => Settled(o).age = s.age
  BY <1>1 DEF Settled
<1>8. CASE ~(s.age <= r)
  <2>1. ~(r >= p.span)
    BY <1>1, <1>2, <1>8
  <2>2. \A v : IsPad(v) /\ v.static = q.static => Follows(p, r, v, Settled(o))
    <3> HIDE DEF o
    <3> QED
      BY <1>6, <1>7, <1>8, <2>1 DEF Follows
  <2>3. ShortWithoutCI(q, d) \in {w, x, y}
    <3> HIDE DEF w, x, y
    <3> QED
      BY <1>3
  <2> HIDE DEF w, x, y, o
  <2> QED
    BY <1>1, <1>4, <1>5, <2>2, <2>3
<1>9. CASE s.age <= r
  <2>1. /\ IF s.upto = 0 THEN q.dynamicLabelText.size = 0
           ELSE q.dynamicLabelText = Run(s.label, 1, s.upto)
        /\ q.shortpadData = Run(s.label, s.upto + 1, s.upto + s.taken)
        /\ q.still_to_go = s.remain
        /\ q.firstSegment = s.first /\ q.lastSegment = s.last
    BY <1>1, <1>9 DEF Follows, Reflects
  <2>2. m = n /\ m # 0
    BY <1>1, <2>1
  <2>3. data = Run(o.label, o.upto + 1, o.upto + o.taken)
    <3> DEFINE u == s.upto + s.taken
               v == u + n
    <3>1. u \in Nat /\ v \in Nat /\ s.upto < u /\ u < v /\ s.label # Mixed /\ s.upto \in Nat
      <4> HIDE DEF n
      <4> QED
        BY <1>1
    <3>2. data = Joined(q.shortpadData, Cut(d, n))
      <4> HIDE DEF n, m
      <4> QED
        BY <2>2
    <3>3. o.upto + o.taken = v
      <4> HIDE DEF n, o
      <4> QED
        BY <1>1
    <3> HIDE DEF u, v, n, data, o
    <3>4. Joined(Run(s.label, s.upto + 1, u), Run(s.label, u + 1, v)) = Run(s.label, s.upto + 1, v)
      <4>1. \A a, b, c \in Nat : a < b /\ b < c =>
              Joined(Run(s.label, a + 1, b), Run(s.label, b + 1, c)) = Run(s.label, a + 1, c)
        BY <3>1, PiecesJoined
      <4> QED
        BY <3>1, <4>1
    <3>5. Cut(d, n) = Run(s.label, u + 1, v)
      BY <1>1 DEF u, v
    <3>6. q.shortpadData = Run(s.label, s.upto + 1, u)
      BY <2>1 DEF u
    <3> QED
      BY <1>1, <3>2, <3>3, <3>4, <3>5, <3>6
  <2>4. data.size # 0
    <3>1. o.upto \in Nat /\ o.taken \in Nat /\ o.taken > 0
      <4> HIDE DEF o, n
      <4> QED
        BY <1>1
    <3>2. \A l : \A a, b \in Nat : b > 0 => Run(l, a + 1, a + b).size # 0
      BY DEF Run
    <3> HIDE DEF data, o
    <3> QED
      BY <2>3, <3>1, <3>2
  <2>5. m < q.still_to_go <=> o.remain > 0
    <3> HIDE DEF m, n, o
    <3> QED
      BY <1>1, <2>1, <2>2
  <2>6. CASE o.remain > 0
    <3>1. ShortWithoutCI(q, d) = w
      <4> HIDE DEF w, x, y, o, m, data
      <4> QED
        BY <1>3, <2>5, <2>6
    <3>2. Reflects(w, o)
      <4> HIDE DEF w, o, m, n, data
      <4> QED
        BY <1>1, <1>4, <2>1, <2>2, <2>3 DEF Reflects
    <3>3. Settled(o) = o
      BY <2>6 DEF Settled
    <3> HIDE DEF w, o
    <3> QED
      BY <1>1, <1>4, <1>6, <3>1, <3>2, <3>3 DEF Follows
  <2>7. CASE ~(o.remain > 0)
    <3>1. o.remain = 0
      <4> HIDE DEF o
      <4> QED
        BY <1>1, <2>7
    <3>2. text = Run(o.label, 1, o.upto + o.taken)
      <4>1. CASE s.upto = 0
        <5>1. text = data
          <6> HIDE DEF data
          <6> QED
            BY <2>1, <4>1, NothingJoined
        <5> HIDE DEF o, data, text
        <5> QED
          BY <1>1, <2>3, <4>1, <5>1
      <4>2. CASE s.upto # 0
        <5>1. /\ o.upto \in Nat /\ 0 < o.upto /\ o.upto < o.upto + o.taken
              /\ o.upto + o.taken \in Nat /\ o.label # Mixed
          <6> HIDE DEF o, n
          <6> QED
            BY <1>1, <4>2
        <5>2. \A a, b, c \in Nat : a < b /\ b < c =>
                Joined(Run(o.label, a + 1, b), Run(o.label, b + 1, c)) = Run(o.label, a + 1, c)
          <6> HIDE DEF o
          <6> QED
            BY <5>1, PiecesJoined
        <5>3. 0 \in Nat
          OBVIOUS
        <5> HIDE DEF o, data
        <5>4. Joined(Run(o.label, 0 + 1, o.upto), data) = Run(o.label, 0 + 1, o.upto + o.taken)
          BY <2>3, <5>1, <5>2, <5>3
        <5> QED
          BY <1>1, <2>1, <4>2, <5>4
      <4> QED
        BY <4>1, <4>2
    <3>3. ShortWithoutCI(q, d) = IF ~s.first /\ s.last THEN x ELSE y
      <4> HIDE DEF w, x, y, o, m, data
      <4> QED
        BY <1>3, <2>1, <2>4, <2>5, <2>7
    <3>4. CASE ~s.first /\ s.last
      <4>1. Settled(o) = NoneSent
        BY <1>1, <2>7, <3>4 DEF Settled
      <4>2. IsAllOf(text, o.label, o.label.units) /\ o.label \in p.labels
        <5>1. o.label.units = o.upto + o.taken /\ o.upto + o.taken \in Nat
          <6> HIDE DEF o, n
          <6>1. o.upto + o.taken + o.remain = o.label.units
            BY <1>1, <3>4
          <6> QED
            BY <1>1, <3>1, <6>1
        <5> HIDE DEF o, text
        <5> QED
          BY <1>1, <3>2, <5>1, AllOfLabel
      <4> HIDE DEF x, o, text
      <4> QED
        BY <1>1, <1>5, <1>6, <3>3, <3>4, <4>1, <4>2 DEF Follows
    <3>5. CASE ~(~s.first /\ s.last)
      <4>1. ShortWithoutCI(q, d) = y
        <5> HIDE DEF x, y
        <5> QED
          BY <3>3, <3>5
      <4>2. Reflects(y, Settled(o))
        <5> HIDE DEF y, o, text
        <5> QED
          BY <1>1, <1>4, <3>1, <3>2, SettledReflected
      <4> HIDE DEF y, o
      <4> QED
        BY <1>1, <1>4, <1>6, <4>1, <4>2 DEF Follows
    <3> QED
      BY <3>4, <3>5
  <2> QED
    BY <2>6, <2>7
<1> QED
  BY <1>8, <1>9

\* Data groups do not touch the labels.
LEMMA BuildLabels ==
  ASSUME NEW q, IsPad(q), NEW d
  PROVE  SameLabels(q, build_MSC_segment(q, d))
<1>1. SameLabels(q, q)
  BY DEF SameLabels
<1>2. \A c : SameLabels(q, [q EXCEPT !.currentSlide = c])
  BY DEF IsPad, SameLabels
<1>3. SameLabels(q, SlideHeader(q, d.of))
  BY <1>1, <1>2 DEF SlideHeader
<1>4. SameLabels(q, SlideBody(q, d.of))
  <2> DEFINE k == addBodySegment(q.currentSlide.object, d.of, TRUE)
             z == [q EXCEPT !.currentSlide.object = k]
  <2>1. IsPad(z) /\ SameLabels(q, z)
    BY DEF IsPad, SameLabels
  <2> HIDE DEF z
  <2>2. SameLabels(q, [z EXCEPT !.out.slides = @ \cup {z.currentSlide}])
    BY <2>1 DEF IsPad, SameLabels
  <2> QED
    BY <1>1, <2>1, <2>2 DEF SlideBody, z
<1> QED
  BY <1>1, <1>3, <1>4 DEF build_MSC_segment

\* Nor do the elements they are built of.
LEMMA ElementLabels ==
  ASSUME NEW q, IsPad(q), NEW d
  PROVE  SameLabels(q, new_MSC_element(q, d)) /\ SameLabels(q, add_MSC_element(q, d))
<1>1. ASSUME NEW z, SameLabels(q, z), NEW b, NEW e
      PROVE  /\ SameLabels(q, [z EXCEPT !.msc_dataGroupBuffer = b])
             /\ SameLabels(q, [z EXCEPT !.msc_dataGroupBuffer = b, !.mscGroupElement = e])
  BY <1>1 DEF IsPad, SameLabels
<1>2. SameLabels(q, q)
  BY DEF SameLabels
<1>3. \A b : SameLabels(q, build_MSC_segment(q, b))
  BY BuildLabels
<1> QED
  BY <1>1, <1>2, <1>3 DEF new_MSC_element, add_MSC_element

\* A field of an access unit.
LEMMA FieldFollows ==
  ASSUME NEW p, p.span \in Nat \ {0}, Mixed \notin p.labels, NEW r \in Nat \ {0}, NEW q,
         NEW s \in LabelSent(p), Follows(p, r, q, s), NEW fields, NEW n \in Nat,
         MaySend(p, s, fields, n)
  PROVE  /\ AfterField(s, fields, n) \in LabelSent(p)
         /\ Follows(p, r, Field(q, fields, n), AfterField(s, fields, n))
<1> DEFINE f == fields[n]
<1>1. CASE ~Handled(fields, n)
  BY <1>1 DEF AfterField, Field
<1>2. CASE Handled(fields, n)
  <2>1. /\ f.appType \in {1, 2, 3, 12, 13} /\ Field(q, fields, n) = Content(q, f)
    BY <1>2 DEF Handled, Field
  <2>2. CASE f.appType = 3
    <3>1. /\ AfterField(s, fields, n) = SegmentContinued(s, f.run)
          /\ MayContinue(p, s, f.run, "variable")
      BY <1>2, <2>2 DEF AfterField, MaySend
    <3>2. Content(q, f) = dynamicLabel(q, f)
      BY <2>2 DEF Content
    <3> HIDE DEF f
    <3> QED
      BY <2>1, <2>2, <3>1, <3>2, ContinuationFollows
  <2>3. CASE f.appType = 2 /\ f.command
    <3>1. AfterField(s, fields, n) = NoneSent
      BY <1>2, <2>3 DEF AfterField
    <3>2. Content(q, f) = LabelCommand(q)
      BY <2>3 DEF Content, dynamicLabel
    <3>3. /\ IsPad(LabelCommand(q)) /\ LabelCommand(q).out = q.out
          /\ LabelCommand(q).static = q.static
      BY DEF Follows, IsPad, LabelCommand
    <3> QED
      BY <2>1, <3>1, <3>2, <3>3 DEF Follows, LabelSent
  <2>4. CASE f.appType = 2 /\ ~f.command
    <3>1. AfterField(s, fields, n) = SegmentBegun(s, f, "variable") /\ MayBegin(p, s, f)
      BY <1>2, <2>4 DEF AfterField, MaySend
    <3>2. Content(q, f) = LabelStart(q, f)
      BY <2>4 DEF Content, dynamicLabel
    <3> HIDE DEF f
    <3> QED
      BY <2>1, <3>1, <3>2, StartFollows
  <2>5. CASE f.appType \in {1, 12, 13}
    <3>1. AfterField(s, fields, n) = s
      BY <2>5 DEF AfterField
    <3>2. IsPad(q)
      BY DEF Follows
    <3>3. SameLabels(q, Content(q, f))
      <4>1. SameLabels(q, [q EXCEPT !.dataGroupLength = f.total])
        BY <3>2 DEF IsPad, SameLabels
      <4>2. f.appType = 1 => Content(q, f) = [q EXCEPT !.dataGroupLength = f.total]
        BY DEF Content
      <4>3. f.appType = 12 => Content(q, f) = new_MSC_element(q, f.run)
        BY DEF Content
      <4>4. f.appType = 13 => Content(q, f) = add_MSC_element(q, f.run)
        BY DEF Content
      <4> QED
        BY <2>5, <3>2, <4>1, <4>2, <4>3, <4>4, ElementLabels
    <3> QED
      BY <2>1, <3>1, <3>3, LabelsKept
  <2> QED
    BY <2>1, <2>2, <2>3, <2>4, <2>5
<1> QED
  BY <1>1, <1>2

\* An access unit that follows those the handler has had in a row, or the first
\* one after a gap.
LEMMA UnitFollows ==
  ASSUME NEW p, p.span \in Nat \ {0}, Mixed \notin p.labels, NEW au, IsAccessUnit(p, au),
         NEW s \in LabelSent(p), MayFollow(p, s, au), NEW q, IsPad(q), NEW r \in Nat \ {0},
         DOMAIN q.static = {"moreXPad", "isLastSegment", "remainDataLength"},
         s # NoneSent /\ s.age + 1 <= r => Reflects(q, s), NEW flags
  PROVE  Follows(p, r, processPAD(q, au, flags), AfterUnit(s, au))
<1> DEFINE a == Aged(s)
           z == [q EXCEPT !.out = Nothing]
           f == au.fields[1]
<1>1. a \in LabelSent(p) /\ (a # NoneSent => s # NoneSent /\ a.age = s.age + 1)
      /\ (s # NoneSent /\ Reflects(q, s) => Reflects(q, a))
  <2>1. CASE s = NoneSent
    BY <2>1 DEF Aged
  <2>2. CASE s # NoneSent
    <3>1. s \in [phase: {"between", "variable", "short"}, label: p.labels, upto: Nat, taken: Nat,
                 remain: Nat, first: BOOLEAN, last: BOOLEAN, age: Nat \ {0}]
      BY <2>2 DEF LabelSent
    <3>2. a = [s EXCEPT !.age = s.age + 1]
      BY <2>2 DEF Aged
    <3>3. /\ a \in [phase: {"between", "variable", "short"}, label: p.labels, upto: Nat,
                    taken: Nat, remain: Nat, first: BOOLEAN, last: BOOLEAN, age: Nat \ {0}]
          /\ a.phase = s.phase /\ a.label = s.label /\ a.upto = s.upto /\ a.taken = s.taken
          /\ a.remain = s.remain /\ a.first = s.first /\ a.last = s.last /\ a.age = s.age + 1
      BY <3>1, <3>2
    <3> HIDE DEF a
    <3>4. a \in LabelSent(p)
      BY <2>2, <3>3 DEF LabelSent
    <3>5. Reflects(q, s) => Reflects(q, a)
      BY <3>3 DEF Reflects
    <3> QED
      BY <2>2, <3>3, <3>4, <3>5
  <2> QED
    BY <2>1, <2>2
<1> HIDE DEF a
<1>2. Follows(p, r, z, a)
  <2>1. /\ IsPad(z) /\ z.static = q.static /\ z.out.labels = {}
        /\ z.dynamicLabelText = q.dynamicLabelText /\ z.shortpadData = q.shortpadData
        /\ z.still_to_go = q.still_to_go
        /\ z.firstSegment = q.firstSegment /\ z.lastSegment = q.lastSegment
    BY DEF IsPad, Nothing
  <2> HIDE DEF z
  <2>2. Reflects(q, a) => Reflects(z, a)
    BY <2>1 DEF Reflects
  <2> QED
    BY <1>1, <2>1, <2>2 DEF Follows
<1>3. CASE au.kind = "none"
  BY <1>2, <1>3 DEF processPAD, AfterUnit, a
<1>4. CASE au.kind = "short" /\ au.ci
  <2>1. AfterUnit(s, au) = IF f.appType = 2 THEN SegmentBegun(a, f, "short") ELSE NoneSent
    BY <1>4 DEF AfterUnit, a
  <2>2. f.appType = 2 => MayBegin(p, a, f) /\ f.run.size = 1 /\ f.total > 1
    BY <1>4 DEF MayFollow, a
  <2>3. processPAD(q, au, flags) =
          ShortWithCI(z, f, IF f.appType = 3 THEN flags ELSE [first |-> f.first, last |-> f.last])
    BY <1>4 DEF processPAD
  <2> HIDE DEF f, z
  <2>4. CASE f.appType = 2
    BY <1>1, <1>2, <2>1, <2>2, <2>3, <2>4, ShortStartFollows
  <2>5. CASE f.appType # 2
    BY <1>2, <2>1, <2>3, <2>5, ShortOtherFollows
  <2> QED
    BY <2>4, <2>5
<1>5. CASE au.kind = "short" /\ ~au.ci
  <2>1. AfterUnit(s, au) = SegmentContinued(a, f.run)
    BY <1>5 DEF AfterUnit, a
  <2>2. MayContinue(p, a, f.run, "short")
    BY <1>5 DEF MayFollow, a
  <2>3. processPAD(q, au, flags) = ShortWithoutCI(z, f.run)
    BY <1>5 DEF processPAD
  <2> HIDE DEF f, z
  <2> QED
    BY <1>1, <1>2, <2>1, <2>2, <2>3, ShortContinuationFollows
<1>6. CASE au.kind = "variable" /\ au.ci
  <2> DEFINE p0 == IF z.mscGroupElement THEN [z EXCEPT !.xpadLength = au.xlen] ELSE z
             p1 == Field(p0, au.fields, 1)
             p2 == Field(p1, au.fields, 2)
             p3 == Field(p2, au.fields, 3)
             s1 == AfterField(a, au.fields, 1)
             s2 == AfterField(s1, au.fields, 2)
             s3 == AfterField(s2, au.fields, 3)
             s4 == AfterField(s3, au.fields, 4)
  <2>1. processPAD(q, au, flags) = Field(p3, au.fields, 4)
    BY <1>6 DEF processPAD, WithCI
  <2>2. AfterFields(a, au.fields) = <<a, s1, s2, s3, s4>>
    BY DEF AfterFields
  <2>3. AfterUnit(s, au) = AfterFields(a, au.fields)[5]
    BY <1>6 DEF AfterUnit, a
  <2>4. \A n \in 1..4 : MaySend(p, AfterFields(a, au.fields)[n], au.fields, n)
    BY <1>6 DEF MayFollow, a
  <2>5. Follows(p, r, p0, a)
    <3>1. SameLabels(z, [z EXCEPT !.xpadLength = au.xlen])
      BY <1>2 DEF Follows, IsPad, SameLabels
    <3> HIDE DEF z
    <3> QED
      BY <1>2, <3>1, LabelsKept
  <2> HIDE DEF p0, p1, p2, p3, s1, s2, s3, s4
  <2>6. /\ MaySend(p, a, au.fields, 1) /\ MaySend(p, s1, au.fields, 2)
        /\ MaySend(p, s2, au.fields, 3) /\ MaySend(p, s3, au.fields, 4)
        /\ AfterUnit(s, au) = s4
    <3>1. /\ AfterFields(a, au.fields)[1] = a /\ AfterFields(a, au.fields)[2] = s1
          /\ AfterFields(a, au.fields)[3] = s2 /\ AfterFields(a, au.fields)[4] = s3
          /\ AfterFields(a, au.fields)[5] = s4
      BY <2>2
    <3>2. 1 \in 1..4 /\ 2 \in 1..4 /\ 3 \in 1..4 /\ 4 \in 1..4
      OBVIOUS
    <3> QED
      BY <2>3, <2>4, <3>1, <3>2
  <2>7. s1 \in LabelSent(p) /\ Follows(p, r, p1, s1)
    BY <1>1, <2>5, <2>6, FieldFollows DEF p1, s1
  <2>8. s2 \in LabelSent(p) /\ Follows(p, r, p2, s2)
    BY <2>6, <2>7, FieldFollows DEF p2, s2
  <2>9. s3 \in LabelSent(p) /\ Follows(p, r, p3, s3)
    BY <2>6, <2>8, FieldFollows DEF p3, s3
  <2>10. Follows(p, r, Field(p3, au.fields, 4), s4)
    BY <2>6, <2>9, FieldFollows DEF s4
  <2> QED
    BY <2>1, <2>6, <2>10
<1>7. CASE au.kind = "variable" /\ ~au.ci
  <2>1. processPAD(q, au, flags) = WithoutCI(z, au) /\ AfterUnit(s, au) = a
    BY <1>7 DEF processPAD, AfterUnit, a
  <2>2. SameLabels(z, add_MSC_element(z, Cut(f.run, z.xpadLength)))
    BY <1>2, ElementLabels DEF Follows
  <2>3. Follows(p, r, add_MSC_element(z, Cut(f.run, z.xpadLength)), a)
    <3> HIDE DEF z, f
    <3> QED
      BY <1>2, <2>2, LabelsKept
  <2> QED
    BY <1>2, <2>1, <2>3 DEF WithoutCI
<1> QED
  BY <1>3, <1>4, <1>5, <1>6, <1>7 DEF IsAccessUnit

\* The handler follows the programme in every state.
LabelInv(sent) ==
  /\ Within
  /\ lastUnit \in 0..Len(programme.aus) /\ inRow \in Nat
  /\ Follows(programme, inRow, pad, sent[programme][lastUnit])

\* A handler that has shown nothing, where no label is being sent.
LEMMA NewPadFollows ==
  ASSUME NEW p, NEW r, NEW statics,
         DOMAIN statics = {"moreXPad", "isLastSegment", "remainDataLength"}
  PROVE  Follows(p, r, PadHandler0(statics), NoneSent)
BY DEF Follows, IsPad, PadHandler0, Nothing

\* A call that has not been made shows nothing.
LEMMA NothingFollows ==
  ASSUME NEW p, NEW r, NEW q, NEW s, Follows(p, r, q, s)
  PROVE  Follows(p, r, [q EXCEPT !.out = Nothing], s)
<1> DEFINE z == [q EXCEPT !.out = Nothing]
<1>1. IsPad(q) /\ IsPad(z) /\ z.out.labels = {}
  BY DEF Follows, IsPad, Nothing
<1>2. /\ z.static = q.static /\ z.dynamicLabelText = q.dynamicLabelText
      /\ z.shortpadData = q.shortpadData /\ z.still_to_go = q.still_to_go
      /\ z.firstSegment = q.firstSegment /\ z.lastSegment = q.lastSegment
  BY <1>1 DEF IsPad
<1> HIDE DEF z
<1>3. s # NoneSent /\ s.age <= r => Reflects(z, s)
  BY <1>2 DEF Follows, Reflects
<1> QED
  BY <1>1, <1>2, <1>3 DEF Follows, z

\* The place in a round of n.
LEMMA PlaceInRound ==
  ASSUME NEW n \in Nat \ {0}, NEW k \in 0..n
  PROVE  k % n = IF k = n THEN 0 ELSE k
<1>1. \A m \in Nat : m \div n \in Int /\ m % n \in 0..(n - 1) /\ m = n * (m \div n) + (m % n)
  OBVIOUS
<1> DEFINE d == k \div n
           r == k % n
<1>2. d \in Int /\ r \in 0..(n - 1) /\ k = n * d + r
  BY <1>1
<1> HIDE DEF d, r
<1>3. CASE d <= -1
  <2>1. n * d <= n * (-1)
    BY <1>2, <1>3
  <2> QED
    BY <1>2, <2>1
<1>4. CASE d = 0
  BY <1>2, <1>4 DEF r
<1>5. CASE d = 1
  BY <1>2, <1>5 DEF r
<1>6. CASE d >= 2
  <2>1. n * d >= n * 2
    BY <1>2, <1>6
  <2> QED
    BY <1>2, <2>1
<1> QED
  BY <1>2, <1>3, <1>4, <1>5, <1>6

\* With an access unit the handler follows the programme, in a row or not.
LEMMA UnitKeepsLabels ==
  ASSUME NEW sent, LabelsCoded(sent), LabelInv(sent), Unit,
         Head(theUnits) \in 1..Len(programme.aus),
         IsAccessUnit(programme, programme.aus[Head(theUnits)])
  PROVE  /\ lastUnit' \in 0..Len(programme.aus) /\ inRow' \in Nat
         /\ Follows(programme, inRow', pad', sent[programme][lastUnit'])
<1> DEFINE i == Head(theUnits)
           len == Len(programme.aus)
           s == sent[programme][i - 1]
           au == programme.aus[i]
<1>1. /\ programme \in Programmes /\ len \in Nat \ {0} /\ i \in 1..len
      /\ lastUnit \in 0..len /\ inRow \in Nat
      /\ Follows(programme, inRow, pad, sent[programme][lastUnit])
  BY ProgrammeAssumption DEF LabelInv, Within
<1>2. /\ programme.span \in Nat \ {0} /\ Mixed \notin programme.labels
      /\ sent[programme][0] = NoneSent /\ sent[programme][len] = NoneSent
      /\ \A n \in 1..len : sent[programme][n] \in LabelSent(programme)
      /\ MayFollow(programme, s, au) /\ sent[programme][i] = AfterUnit(s, au)
  BY <1>1 DEF LabelsCoded
<1>3. lastUnit' = i /\ programme' = programme
  BY DEF Unit, senderVars
<1>4. inRow' = IF i = (lastUnit % len) + 1 THEN Lesser(inRow + 1, programme.span) ELSE 1
  BY DEF Unit
<1>5. IsPad(pad) /\ DOMAIN pad.static = {"moreXPad", "isLastSegment", "remainDataLength"}
  BY <1>1 DEF Follows
<1>6. s \in LabelSent(programme)
  <2>1. NoneSent \in LabelSent(programme)
    BY DEF LabelSent
  <2>2. i - 1 = 0 \/ i - 1 \in 1..len
    BY <1>1
  <2> QED
    BY <1>2, <2>1, <2>2
<1>7. s # NoneSent => s.age \in Nat \ {0}
  BY <1>6 DEF LabelSent
<1> HIDE DEF s, au, i, len
<1>8. inRow' \in Nat \ {0} /\ (s # NoneSent /\ s.age + 1 <= inRow' => Reflects(pad, s))
  <2>1. CASE i = (lastUnit % len) + 1
    <3>1. inRow' \in Nat \ {0} /\ inRow' <= inRow + 1
      BY <1>1, <1>2, <1>4, <2>1 DEF Lesser
    <3>2. i - 1 = lastUnit \/ i - 1 = 0
      <4>1. lastUnit % len = IF lastUnit = len THEN 0 ELSE lastUnit
        BY <1>1, PlaceInRound
      <4> QED
        BY <1>1, <2>1, <4>1
    <3>3. s = sent[programme][lastUnit] \/ s = NoneSent
      BY <1>2, <3>2 DEF s
    <3>4. ASSUME s # NoneSent, s.age + 1 <= inRow' PROVE s.age <= inRow
      BY <1>1, <1>7, <3>1, <3>4
    <3> QED
      BY <1>1, <3>1, <3>3, <3>4 DEF Follows
  <2>2. CASE i # (lastUnit % len) + 1
    BY <1>4, <1>7, <2>2
  <2> QED
    BY <2>1, <2>2
<1>9. IsAccessUnit(programme, au)
  BY DEF au, i
<1>10. \E flags : pad' = processPAD(pad, au, flags)
  BY DEF Unit, au, i
<1>11. Follows(programme, inRow', pad', AfterUnit(s, au))
  BY <1>2, <1>5, <1>6, <1>8, <1>9, <1>10, UnitFollows
<1> QED
  BY <1>1, <1>2, <1>3, <1>8, <1>11 DEF i, len

\* Each step leaves the handler following the programme.
LEMMA StepKeepsLabels ==
  ASSUME NEW sent, LabelsCoded(sent), LabelInv(sent), [AudioNext]_audioVars
  PROVE  LabelInv(sent)'
<1>1. /\ Within /\ lastUnit \in 0..Len(programme.aus) /\ inRow \in Nat
      /\ Follows(programme, inRow, pad, sent[programme][lastUnit])
  BY DEF LabelInv
<1>2. Within' /\ programme' = programme
  BY <1>1, StepStaysWithin
<1>3. /\ lastUnit' \in 0..Len(programme.aus) /\ inRow' \in Nat
      /\ Follows(programme, inRow', pad', sent[programme][lastUnit'])
  <2>1. CASE UNCHANGED <<lastUnit, inRow>> /\ pad' \in {pad, [pad EXCEPT !.out = Nothing]}
    BY <1>1, <2>1, NothingFollows
  <2>2. CASE lastUnit' = 0 /\ inRow' = 0 /\ pad' = PadHandler0(pad.static)
    <3>1. sent[programme][0] = NoneSent /\ Len(programme.aus) \in Nat
      BY <1>1, ProgrammeAssumption DEF LabelsCoded, Within
    <3>2. Follows(programme, 0, PadHandler0(pad.static), NoneSent)
      BY <1>1, NewPadFollows DEF Follows
    <3> QED
      BY <2>2, <3>1, <3>2
  <2>3. CASE /\ Unit /\ Head(theUnits) \in 1..Len(programme.aus)
             /\ IsAccessUnit(programme, programme.aus[Head(theUnits)])
    BY <2>3, UnitKeepsLabels
  <2> QED
    BY <1>1, <2>1, <2>2, <2>3, StepOnPad
<1> QED
  BY <1>2, <1>3 DEF LabelInv

\* padHandler: if the programmes code their labels in order, a label that is
\* shown is one of those sent, from its first to its last unit, when no access
\* unit was lost while it was sent; whatever was lost or damaged before, and
\* whatever the static variables of dynamicLabel hold from another service.
THEOREM LabelsAreWhole ==
  ASSUME NEW CONSTANT sent, LabelsCoded(sent)
  PROVE  AudioSpec => []LabelWhole
<1>1. LabelInv(sent) /\ [AudioNext]_audioVars => LabelInv(sent)'
  BY StepKeepsLabels
<1>2. AudioInit => LabelInv(sent)
  <2> SUFFICES ASSUME AudioInit PROVE LabelInv(sent)
    OBVIOUS
  <2>1. Within
    BY InitWithin
  <2>2. sent[programme][0] = NoneSent /\ Len(programme.aus) \in Nat
    BY <2>1, ProgrammeAssumption DEF LabelsCoded, Within
  <2>3. DOMAIN Statics0 = {"moreXPad", "isLastSegment", "remainDataLength"}
    BY DEF Statics0
  <2>4. pad = PadHandler0(Statics0) /\ lastUnit = 0 /\ inRow = 0
    BY DEF AudioInit
  <2> QED
    BY <2>1, <2>2, <2>3, <2>4, NewPadFollows DEF LabelInv
<1>3. LabelInv(sent) => LabelWhole
  BY DEF LabelInv, Follows, LabelWhole
<1> QED
  BY <1>1, <1>2, <1>3, PTL DEF AudioSpec
=============================================================================
