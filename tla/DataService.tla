----------------------------- MODULE DataService -----------------------------
(***************************************************************************)
(* Data services as they are received: DataProcessor and MotHandler below  *)
(* a transmitter that sends a carousel of data groups for ever, packet by  *)
(* packet.  Packets are lost, damaged and mixed with packets of other      *)
(* addresses until the reception is clean.  The GUI thread creates and     *)
(* deletes the handlers; it waits for the backend's thread before it       *)
(* deletes, so that this never comes within a packet of the same service.  *)
(***************************************************************************)
EXTENDS MotHandler, SequencesExt

CONSTANT Carousel    \* Carousel[s]: the groups of service s in their order

ASSUME CarouselAssumption ==
  \A s \in Services : /\ Carousel[s] \in Seq(Groups) /\ Carousel[s] # <<>>
                      /\ \A i \in DOMAIN Carousel[s] : Carousel[s][i].service = s

VARIABLES
  active,     \* the services selected, with their handlers
  tx,         \* where each transmitter is: group, packet of it, continuity index
  clean       \* nothing is lost any more

vars == <<dpVars, motVars, active, tx, clean>>

Start0 == [group |-> 1, nr |-> 1, CI |-> 0]
Sent(s) == Carousel[s][tx[s].group]

FirstLast(g, nr) == IF g.len = 1 THEN SinglePacket
                    ELSE IF nr = 1 THEN FirstPacket
                    ELSE IF nr = g.len THEN LastPacket ELSE Intermediate

NextPacket(s) == [CI |-> tx[s].CI, firstLast |-> FirstLast(Sent(s), tx[s].nr),
                  address |-> "mine", crc |-> TRUE, group |-> Sent(s), nr |-> tx[s].nr]

Advance(s) ==
  tx' = [tx EXCEPT ![s] =
    [group |-> IF @.nr < Sent(s).len THEN @.group ELSE (@.group % Len(Carousel[s])) + 1,
     nr    |-> IF @.nr < Sent(s).len THEN @.nr + 1 ELSE 1,
     CI    |-> (@.CI + 1) % 4]]

Init ==
  /\ dpInit /\ motInit
  /\ active = {}
  /\ tx = [s \in Services |-> Start0]
  /\ clean = FALSE

\* A packet of the service, as it was sent.
Receive(s) ==
  LET p == NextPacket(s)
      h == HandedOver(s, p)
  IN /\ s \in active
     /\ handlePacket(s, p)
     /\ IF h = EmptySeries THEN UNCHANGED motVars
        ELSE add_mscDatagroup(s, h.group, IsWhole(h))
     /\ Advance(s)
     /\ UNCHANGED <<active, clean>>

\* One with bit errors: its CRC is wrong, its continuity index may be.
Damaged(s) ==
  /\ ~clean /\ s \in active
  /\ \E ci \in 0..3 :
       handlePacket(s, [NextPacket(s) EXCEPT !.CI = ci, !.crc = FALSE])
  /\ Advance(s)
  /\ UNCHANGED <<motVars, active, clean>>

\* One in a frame that was given up, after a damaged length, or while the
\* service is not selected.
Lost(s) ==
  /\ ~clean
  /\ Advance(s)
  /\ UNCHANGED <<dpVars, motVars, active, clean>>

\* A padding packet or one of another address, which counts on its own.
Foreign(s) ==
  /\ ~clean /\ s \in active
  /\ \E ci \in 0..3 :
       handlePacket(s, [NextPacket(s) EXCEPT !.CI = ci, !.address = "other"])
  /\ UNCHANGED <<motVars, active, tx, clean>>

\* The GUI selects a service and leaves it.
Select(s) ==
  /\ ~clean /\ s \notin active
  /\ newDataProcessor(s) /\ newMotHandler(s)
  /\ active' = active \cup {s}
  /\ UNCHANGED <<tx, clean>>

Leave(s) ==
  /\ ~clean /\ s \in active
  /\ newDataProcessor(s) /\ deleteMotHandler(s)
  /\ active' = active \ {s}
  /\ UNCHANGED <<tx, clean>>

Settle == ~clean /\ clean' = TRUE /\ UNCHANGED <<dpVars, motVars, active, tx>>

Next == \/ \E s \in Services : \/ Receive(s) \/ Damaged(s) \/ Lost(s)
                               \/ Foreign(s) \/ Select(s) \/ Leave(s)
        \/ Settle
        \/ clean /\ active = {} /\ UNCHANGED vars

\* Once the reception is clean the transmitter does not stop; then only Receive
\* takes its packets, which the thread of the backend executes.
Flow(s) == clean /\ s \in active /\ Advance(s)
Spec == Init /\ [][Next]_vars /\ \A s \in Services : WF_tx(Flow(s))

-----------------------------------------------------------------------------
(* What HandedIsWhole supposes of the transmitters.                        *)

\* The groups that service s sends.
GroupsOf(s) == ToSet(Carousel[s])

\* Services on the air have different transport ids: motTable knows an object
\* by its transport id only.
IdsApart ==
  \A s, r \in Services : \A g \in GroupsOf(s), h \in GroupsOf(r) :
    g.transportId = h.transportId => s = r

\* Segments of bodies have a CRC: damage is not seen otherwise.
BodiesProtected ==
  \A s \in Services : \A g \in GroupsOf(s) : g.groupType = 4 => g.crcFlag

\* The segment marked as the last of an object has the greatest number.
LastIsLast ==
  \A s \in Services : \A g, h \in GroupsOf(s) :
    /\ g.groupType = 4 /\ h.groupType = 4 /\ g.transportId = h.transportId /\ g.last
    => h.segmentNumber <= g.segmentNumber

WellFormed == IdsApart /\ BodiesProtected /\ LastIsLast

-----------------------------------------------------------------------------
(* Properties.                                                             *)

\* The body groups of object t.
Bodies(s, t) == {g \in ToSet(Carousel[s]) : g.groupType = 4 /\ g.transportId = t}
Objects(s)   == {g.transportId : g \in {h \in ToSet(Carousel[s]) : h.groupType = 4}}

\* An object given to the GUI (motObject::handleComplete) has exactly the
\* segments its service sent for it, each undamaged, in whatever order and
\* with whatever losses the data groups came.
HandedIsWhole ==
  \A s \in Services : \A h \in shown[s] : \A i \in SegmentNumbers :
    h.motMap[i] = IF \E g \in Bodies(s, h.transportId) : g.segmentNumber = i
                  THEN [service |-> s, whole |-> TRUE] ELSE Lacking

\* "the cache is full, so we delete the oldest one" (motHandler::setHandle):
\* of the objects in motTable the one that was put there first has to go.
OldestOut ==
  [][\A i \in Slots :
       /\ FreeSlots = {}
       /\ motTable'[i].orderNumber # -1
       /\ motTable'[i].transportId # motTable[i].transportId
       => \A j \in Slots \ {i} : <<i, j>> \in earlier]_vars

\* Once nothing is lost any more every object of the carousel of a selected
\* service is shown: neither the packet counter nor a half received group,
\* object or directory keeps the receiver from it.
EventuallyHanded ==
  \A s \in Services :
    (clean /\ s \in active) ~> (\A t \in Objects(s) : \E h \in shown[s] : h.transportId = t)
=============================================================================
