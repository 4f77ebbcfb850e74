---------------------------- MODULE DataProcessor ----------------------------
(***************************************************************************)
(* dataProcessor: the packets of one address are put together to MSC data  *)
(* groups.  There is one dataProcessor per selected data service, created  *)
(* and deleted with the backend of the service.                            *)
(*                                                                         *)
(* A packet is a record of the header fields handlePacket reads, of whether*)
(* its CRC is right, and of what it carries: piece nr of data group group. *)
(* Of a series only its beginning and how far it is the undamaged data     *)
(* group are kept: any other sequence of pieces is no data group.          *)
(***************************************************************************)
EXTENDS Integers, Sequences

CONSTANTS
  Services,    \* the data services (instances of dataProcessor)
  Groups,      \* MSC data groups, records with (at least) a field len
  MaxLen,      \* the largest number of packets of a data group
  NoGroup      \* no data group

ASSUME LenAssumption == /\ MaxLen \in Nat \ {0}
                        /\ \A g \in Groups : g.len \in 1..MaxLen
ASSUME NoGroupAssumption == NoGroup \notin Groups

VARIABLES
  expectedIndex,   \* of the next packet, modulo 4
  packetState,     \* 0: waiting for a first packet, 1: within a series
  series           \* what was collected

dpVars == <<expectedIndex, packetState, series>>

\* firstLast of the packet header
Intermediate == 0
LastPacket   == 1
FirstPacket  == 2
SinglePacket == 3

Packet == [CI: 0..3, firstLast: 0..3, address: {"mine", "other"}, crc: BOOLEAN,
           group: Groups \cup {NoGroup}, nr: 1..MaxLen]

\* upto: the pieces 1..upto of group, and nothing else; 0: damaged or empty.
Series      == [group: Groups \cup {NoGroup}, upto: 0..MaxLen]
EmptySeries == [group |-> NoGroup, upto |-> 0]

Begun(p) == [group |-> p.group, upto |-> IF p.nr = 1 THEN 1 ELSE 0]
Extended(sr, p) ==
  [sr EXCEPT !.upto = IF sr.upto > 0 /\ p.group = sr.group /\ p.nr = sr.upto + 1
                      THEN p.nr ELSE 0]
IsWhole(sr) == sr.group # NoGroup /\ sr.upto = sr.group.len

dpInit ==
  /\ expectedIndex = [s \in Services |-> 0]
  /\ packetState   = [s \in Services |-> 0]
  /\ series        = [s \in Services |-> EmptySeries]

\* The constructor.
newDataProcessor(s) ==
  /\ expectedIndex' = [expectedIndex EXCEPT ![s] = 0]
  /\ packetState'   = [packetState EXCEPT ![s] = 0]
  /\ series'        = [series EXCEPT ![s] = EmptySeries]

\* The continuity index is compared, and advanced, before the CRC and the
\* address are looked at.
InOrder(s, p)  == p.CI = expectedIndex[s]
Accepted(s, p) == InOrder(s, p) /\ p.crc /\ p.address = "mine"

\* What is given to add_mscDatagroup with this packet, EmptySeries if nothing.
HandedOver(s, p) ==
  IF ~Accepted(s, p) THEN EmptySeries
  ELSE IF packetState[s] = 0 /\ p.firstLast = SinglePacket THEN Begun(p)
  ELSE IF packetState[s] = 1 /\ p.firstLast = LastPacket THEN Extended(series[s], p)
  ELSE EmptySeries

StateAfter(s, p) ==
  IF \/ p.firstLast = FirstPacket
     \/ packetState[s] = 1 /\ p.firstLast = Intermediate
  THEN 1 ELSE 0

\* The series after an accepted packet; what is left of one that is closed is
\* never read.
Collected(s, p) ==
  IF StateAfter(s, p) = 0 THEN EmptySeries
  ELSE IF p.firstLast = FirstPacket THEN Begun(p)
  ELSE Extended(series[s], p)

\* One packet.  A break in the continuity drops the packet, but not the series.
handlePacket(s, p) ==
  /\ expectedIndex' = [expectedIndex EXCEPT ![s] =
                         IF InOrder(s, p) THEN (@ + 1) % 4 ELSE 0]
  /\ IF Accepted(s, p)
     THEN /\ packetState' = [packetState EXCEPT ![s] = StateAfter(s, p)]
          /\ series' = [series EXCEPT ![s] = Collected(s, p)]
     ELSE UNCHANGED <<packetState, series>>
=============================================================================
