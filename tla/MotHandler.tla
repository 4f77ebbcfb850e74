----------------------------- MODULE MotHandler -----------------------------
(***************************************************************************)
(* motHandler and motDirectory, with MotObject: MSC data groups are put    *)
(* together to objects (slides, EPG files), either found by their own      *)
(* header or announced by a directory.                                     *)
(*                                                                         *)
(* There is one motHandler per data service, but motTable, the cache of    *)
(* objects that are in no directory, is a variable of the file: all        *)
(* handlers use the same one.  A segment is represented by the service it  *)
(* was sent by and by whether it is undamaged.  Order numbers are only     *)
(* compared with each other and with 0, so that the positive ones are      *)
(* moved down together (Rebased) in place of growing for ever.             *)
(***************************************************************************)
EXTENDS DataProcessor, MotObject, FiniteSets, FiniteSetsExt

CONSTANTS
  TIds,         \* transport ids
  NSlots,       \* entries of motTable that are used (15 in the code)
  DirObjects    \* DirObjects[t]: the objects listed in the directory t

ASSUME SlotsAssumption == NSlots \in Nat \ {0}
ASSUME DirAssumption == DirObjects \in [TIds -> SUBSET TIds]

\* groupType: 3 header, 4 body, 6 directory
Group == [groupType: {3, 4, 6}, service: Services, transportId: TIds,
          segmentNumber: 0..MaxSeg, last: BOOLEAN, crcFlag: BOOLEAN, len: 1..MaxLen]
ASSUME GroupsAssumption == Groups \subseteq Group

VARIABLES
  motTable,      \* of the file
  orderNumber,   \* of each handler, counts the objects it put into motTable
  theDirectory,  \* of each handler
  earlier,       \* the pairs of slots the first of which was filled first (history)
  shown          \* the objects each handler gave to handle_motObject (history)

motVars == <<motTable, orderNumber, theDirectory, earlier, shown>>

Slots       == 0..(NSlots - 1)
FreeSlot    == [orderNumber |-> -1, transportId |-> 0, motSlide |-> NoObject]
NoDirectory == [transportId |-> 0, marked |-> {}, num_dirSegments |-> -1,
                motComponents |-> [t \in TIds |-> NoObject]]

motInit ==
  /\ motTable = [i \in Slots |-> FreeSlot]
  /\ orderNumber = [s \in Services |-> 0]
  /\ theDirectory = [s \in Services |-> NoDirectory]
  /\ earlier = {}
  /\ shown = [s \in Services |-> {}]

-----------------------------------------------------------------------------
(* Constructor and destructor.  Both work on the table of all handlers.    *)

newMotHandler(s) ==
  /\ orderNumber' = [orderNumber EXCEPT ![s] = 0]
  /\ theDirectory' = [theDirectory EXCEPT ![s] = NoDirectory]
  /\ motTable' = [i \in Slots |-> FreeSlot]
  /\ earlier' = {}
  /\ UNCHANGED shown

\* The entries with a positive order number lose their object but stay taken.
deleteMotHandler(s) ==
  /\ motTable' = [i \in Slots |-> IF motTable[i].orderNumber > 0
                                  THEN [motTable[i] EXCEPT !.motSlide = NoObject]
                                  ELSE motTable[i]]
  /\ orderNumber' = [orderNumber EXCEPT ![s] = 0]
  /\ theDirectory' = [theDirectory EXCEPT ![s] = NoDirectory]
  /\ shown' = [shown EXCEPT ![s] = {}]
  /\ UNCHANGED earlier

-----------------------------------------------------------------------------
(* The table.                                                              *)

InTable(t) == {i \in Slots : motTable[i].orderNumber >= 0 /\ motTable[i].transportId = t}

\* getHandle: the first entry of the table, else the directory's.
getHandle(s, t) == IF InTable(t) # {} THEN motTable[Min(InTable(t))].motSlide
                   ELSE theDirectory[s].motComponents[t]

\* Positive order numbers are moved down so that the smallest is 1.
Rebased(table, orders) ==
  LET positive == {n \in {table[i].orderNumber : i \in Slots} \cup
                         {orders[s] : s \in Services} : n > 0}
      down(n) == IF n > 0 THEN n - Min(positive) + 1 ELSE n
  IN /\ motTable' = [i \in Slots |-> [table[i] EXCEPT !.orderNumber = down(@)]]
     /\ orderNumber' = [s \in Services |-> down(orders[s])]

\* (fault) the entry overwritten is always the first one.
Oldest0(s) == 0

\* The entry setHandle overwrites when none is free: oldest starts at the
\* handler's own order number, index at 0.
Oldest(s) ==
  LET older == {i \in Slots : motTable[i].orderNumber < orderNumber[s]}
      least == Min({motTable[i].orderNumber : i \in older})
  IN IF older = {} THEN 0
     ELSE Min({i \in older : motTable[i].orderNumber = least})

FreeSlots == {i \in Slots : motTable[i].orderNumber = -1}

setHandle(s, t, h) ==
  LET i == IF FreeSlots # {} THEN Min(FreeSlots) ELSE Oldest(s)
  IN /\ Rebased([motTable EXCEPT ![i] = [orderNumber |-> orderNumber[s],
                                         transportId |-> t, motSlide |-> h]],
                [orderNumber EXCEPT ![s] = @ + 1])
     /\ earlier' = {p \in earlier : i \notin {p[1], p[2]}}
                   \cup {<<j, i>> : j \in Slots \ (FreeSlots \cup {i})}

-----------------------------------------------------------------------------
\* handle_motObject, emitted by handleComplete.
Shown(s, t, h, g, whole) ==
  shown' = IF Completes(h, g)
           THEN [shown EXCEPT ![s] =
                  @ \cup {[transportId |-> t, motMap |-> addBodySegment(h, g, whole).motMap]}]
           ELSE shown

-----------------------------------------------------------------------------
(* add_mscDatagroup, for the group g (its bits whole or not).              *)

\* (fault) the CRC of the data group is not looked at.
RejectedNever(g, whole) == FALSE
Rejected(g, whole) == g.crcFlag /\ ~whole

\* Type 3 makes an object, type 4 too when there is none: from what is then
\* taken for the header.
Header(s, g) ==
  /\ g.groupType = 3 /\ g.segmentNumber = 0
  /\ getHandle(s, g.transportId) = NoObject
  /\ setHandle(s, g.transportId, NewObject)
  /\ UNCHANGED <<theDirectory, shown>>

BodyOfNew(s, g, whole) ==
  /\ g.groupType = 4
  /\ getHandle(s, g.transportId) = NoObject
  /\ setHandle(s, g.transportId, addBodySegment(NewObject, g, whole))
  /\ Shown(s, g.transportId, NewObject, g, whole)
  /\ UNCHANGED theDirectory

BodyInTable(s, g, whole) ==
  LET i == Min(InTable(g.transportId))
      h == motTable[i].motSlide
  IN /\ g.groupType = 4
     /\ InTable(g.transportId) # {} /\ h # NoObject
     /\ motTable' = [motTable EXCEPT ![i].motSlide = addBodySegment(h, g, whole)]
     /\ Shown(s, g.transportId, h, g, whole)
     /\ UNCHANGED <<orderNumber, theDirectory, earlier>>

BodyInDirectory(s, g, whole) ==
  LET t == g.transportId
      h == theDirectory[s].motComponents[t]
  IN /\ g.groupType = 4
     /\ InTable(t) = {} /\ h # NoObject
     /\ theDirectory' = [theDirectory EXCEPT ![s].motComponents[t] = addBodySegment(h, g, whole)]
     /\ Shown(s, t, h, g, whole)
     /\ UNCHANGED <<motTable, orderNumber, earlier>>

\* analyse_theDirectory: an object for each entry.
Analysed(d) == [d EXCEPT !.motComponents =
                  [t \in TIds |-> IF t \in DirObjects[d.transportId]
                                  THEN NewObject ELSE NoObject]]

\* The first segment makes the directory, unless it is there already; one that
\* is shorter than a segment is analysed at once.
NewDirectory(s, g) ==
  LET d == [NoDirectory EXCEPT !.transportId = g.transportId, !.marked = {0}]
  IN /\ g.groupType = 6 /\ g.segmentNumber = 0
     /\ theDirectory[s].transportId # g.transportId
     /\ theDirectory' = [theDirectory EXCEPT ![s] = IF g.last THEN Analysed(d) ELSE d]
     /\ UNCHANGED <<motTable, orderNumber, earlier, shown>>

\* directorySegment: the others, in any order.
DirectorySegment(s, g) ==
  LET d == theDirectory[s]
      m == [d EXCEPT !.marked = @ \cup {g.segmentNumber},
                     !.num_dirSegments = IF g.last THEN g.segmentNumber + 1 ELSE @]
  IN /\ g.groupType = 6 /\ g.segmentNumber # 0
     /\ d.transportId = g.transportId /\ g.segmentNumber \notin d.marked
     /\ theDirectory' = [theDirectory EXCEPT ![s] =
          IF m.num_dirSegments # -1 /\ 0..(m.num_dirSegments - 1) \subseteq m.marked
          THEN Analysed(m) ELSE m]
     /\ UNCHANGED <<motTable, orderNumber, earlier, shown>>

\* The groups that change nothing.
Ignored(s, g) ==
  \/ g.groupType = 3 /\ (g.segmentNumber # 0 \/ getHandle(s, g.transportId) # NoObject)
  \/ /\ g.groupType = 6
     /\ IF g.segmentNumber = 0 THEN theDirectory[s].transportId = g.transportId
        ELSE \/ theDirectory[s].transportId # g.transportId
             \/ g.segmentNumber \in theDirectory[s].marked

add_mscDatagroup(s, g, whole) ==
  IF Rejected(g, whole) \/ Ignored(s, g) THEN UNCHANGED motVars
  ELSE \/ Header(s, g)
       \/ BodyOfNew(s, g, whole)
       \/ BodyInTable(s, g, whole)
       \/ BodyInDirectory(s, g, whole)
       \/ NewDirectory(s, g)
       \/ DirectorySegment(s, g)
=============================================================================
