----------------------------- MODULE FibDecoder -----------------------------
(***************************************************************************)
(* The FIB database of Qt-DAB: src/code/ofdm/fib-decoder.cpp with the      *)
(* tables of src/code/ofdm/dab-config.h and the running flag of            *)
(* src/code/ofdm/fic-handler.cpp.                                          *)
(*                                                                         *)
(* Two threads meet here.  The FIC side (the DabProcessor thread) takes    *)
(* fibLocker in process_FIB and handles the FIGs of a FIB one by one; the  *)
(* GUI side asks for the data of a service by name, and looks that name up *)
(* without the lock, slot by slot, while a handler may be at work.  The    *)
(* transmitter sends one of the constant Ensembles: any FIG of it may come *)
(* at any time, FIGs may be lost (a FIB with a CRC error is dropped) and   *)
(* repeated.                                                               *)
(*                                                                         *)
(* A label, a parameter set or an identifier is a member of a small set.   *)
(* Attributes that only decorate what is shown (language, programme type,  *)
(* FEC scheme, FM frequency, clock, EPG texts) are left out.               *)
(***************************************************************************)
EXTENDS Integers, Sequences, FiniteSets

CONSTANTS
  SIds,        \* service identifiers
  Labels,      \* service labels
  SubChIds,    \* sub-channel identifiers, 0..63 in the code
  SCIdSet,     \* packet mode component identifiers (12 bit in the code)
  ClusterIds,  \* announcement cluster identifiers
  Flags,       \* announcement types, one bit of asuFlags each
  NServices,   \* length of ensemble->services, 64 in the code
  NComps,      \* length of dabConfig::serviceComps, 64 in the code
  MaxCompNr,   \* bound on the components of one service, 15 in the code
  AnnounceMax, \* cap of the counter Cluster::announcing, an int in the code
  Ensembles,   \* what the receiver may be tuned to, each a set of FIGs
  GuiOps,      \* the queries the GUI thread makes
  NoSId,       \* the value of an SId nobody wrote
  NoLabel      \* the empty QString

Configs     == {0, 1}                 \* the two dabConfig objects
ServiceSlots == 0 .. NServices - 1
CompSlots    == 0 .. NComps - 1
CompNrs      == 0 .. MaxCompNr
SCIdsRange   == -1 .. MaxCompNr       \* serviceComponentDescriptor::SCIds
SubChRange   == SubChIds \cup {-1}
SCIdRange    == SCIdSet \cup {-1}

\* One element of the component list of a FIG 0/2 entry; ref is a SubChId
\* for audio (TMid 0) and an SCId for packet data (TMid 3).
Binding == [CN: Configs, SId: SIds, compNr: CompNrs, TMid: {0}, ref: SubChIds]
     \cup  [CN: Configs, SId: SIds, compNr: CompNrs, TMid: {3}, ref: SCIdSet]

Fig == [type: {"0/0"}, change: 0..3]
  \cup [type: {"0/1"}, CN: Configs, subChId: SubChIds]
  \cup [type: {"0/2"}, bindings: Seq(Binding)]
  \cup [type: {"0/3"}, CN: Configs, SCId: SCIdSet, subChId: SubChIds, DSCTy: {0, 1}]
  \cup [type: {"0/8"}, CN: Configs, SId: SIds, SCIds: CompNrs, form: {"short"}, ref: SubChIds]
  \cup [type: {"0/8"}, CN: Configs, SId: SIds, SCIds: CompNrs, form: {"long"}, ref: SCIdSet]
  \cup [type: {"0/18"}, CN: Configs, SId: SIds, clusterId: ClusterIds, flags: SUBSET Flags]
  \cup [type: {"0/19"}, CN: Configs, clusterId: ClusterIds, flags: SUBSET Flags]
  \cup [type: {"1/0"}]
  \cup [type: {"1/1"}, SId: SIds, label: Labels]
  \cup [type: {"1/4"}, SId: SIds, SCIds: CompNrs, label: Labels]
  \cup [type: {"1/5"}, SId: SIds, label: Labels]

ASSUME SizesAssumption == /\ NServices \in Nat \ {0}
                          /\ NComps \in Nat \ {0}
                          /\ MaxCompNr \in Nat
                          /\ AnnounceMax \in Nat /\ AnnounceMax > 5
ASSUME NamesAssumption == NoSId \notin SIds /\ NoLabel \notin Labels
ASSUME SubChAssumption == -1 \notin SubChIds /\ -1 \notin SCIdSet
ASSUME EnsemblesAssumption == \A e \in Ensembles : e \subseteq Fig
\* getCluster looks at 64 clusters only.
ASSUME ClustersAssumption == IsFiniteSet(ClusterIds) /\ Cardinality(ClusterIds) <= 64
ASSUME GuiAssumption == GuiOps \subseteq {"subch", "audio", "packet"}

VARIABLES
  air,            \* the FIGs the transmitter may send, throughout a behaviour
  running,        \* FicHandler::running
  inFib,          \* fibLocker is held by process_FIB
  todo,           \* the bindings of the FIG 0/2 in hand not handled yet
  services,       \* ensemble->services
  isSynced,       \* ensemble->isSynced
  subChannels,    \* [config][subChId] : subChannelDescriptor::inUse
  serviceComps,   \* [config][slot] : serviceComponentDescriptor
  clusterTable,   \* [config][clusterId] : Cluster
  current,        \* which of the two objects currentConfig points to
  prevChangeFlag, \* the static variable of FIG0Extension0
  announced,      \* services signalled by addtoEnsemble in this channel
  onAir,          \* slots and labels with a startAnnouncement in this channel, not stopped
  overrun,        \* serviceComps was read or written outside its bounds
  gui,            \* the query of the GUI thread
  before,         \* the services as they were before the handler in hand
  freed           \* slots a reconfiguration gave up in this channel (history)

dbVars  == <<services, isSynced, subChannels, serviceComps, clusterTable,
             current, prevChangeFlag, announced, onAir, overrun>>
vars    == <<running, inFib, todo, gui, dbVars, before, freed>>

-----------------------------------------------------------------------------
(* The tables.                                                             *)

NoService == [inUse |-> FALSE, SId |-> NoSId, SCIds |-> 0, hasName |-> FALSE,
              label |-> NoLabel, isShown |-> FALSE]
NoComp    == [inUse |-> FALSE, TMid |-> 0, SId |-> NoSId, SCIds |-> -1,
              subCh |-> -1, compNr |-> -1, SCId |-> -1, madePublic |-> FALSE]
NoCluster == [inUse |-> FALSE, flags |-> {}, services |-> {}, announcing |-> 0]

Service == [inUse: BOOLEAN, SId: SIds \cup {NoSId}, SCIds: CompNrs,
            hasName: BOOLEAN, label: Labels \cup {NoLabel}, isShown: BOOLEAN]
Comp    == [inUse: BOOLEAN, TMid: {0, 3}, SId: SIds \cup {NoSId},
            SCIds: SCIdsRange, subCh: SubChRange, compNr: -1 .. MaxCompNr,
            SCId: SCIdRange, madePublic: BOOLEAN]
Cluster == [inUse: BOOLEAN, flags: SUBSET Flags,
            services: SUBSET ServiceSlots, announcing: 0 .. AnnounceMax]

next == 1 - current
Base(CN) == IF CN = 0 THEN current ELSE next   \* CN_bit selects the config

\* dabConfig::reset: the sub-channels and the components, not the clusters.
NoSubChannels == [c \in SubChIds |-> FALSE]
NoComps       == [i \in CompSlots |-> NoComp]
NoServices    == [i \in ServiceSlots |-> NoService]

\* The first element of S, or -1: the result of the search loops.
First(S) == IF S = {} THEN -1 ELSE CHOOSE i \in S : \A j \in S : i <= j

\* findService (name): holes in the table are skipped.
FindByName(name) ==
  First({i \in ServiceSlots : services[i].inUse /\ services[i].label = name})

\* findService (SId) over a table: the search ends at the first hole.
FindBySId(inUse, SId) ==
  First({i \in ServiceSlots : /\ services[i].SId = SId
                              /\ \A j \in 0 .. i : inUse[j]})
InUse == [i \in ServiceSlots |-> services[i].inUse]
FindService(SId) == FindBySId(InUse, SId)

\* findServiceComponent (db, SCId): holes are skipped.
FindBySCId(db, SCId) ==
  First({i \in CompSlots : /\ serviceComps[db][i].inUse
                           /\ serviceComps[db][i].SCId = SCId})

\* No hole in serviceComps up to and including slot i.
Reached(db, i) == \A j \in 0 .. i : serviceComps[db][j].inUse

\* findServiceComponent (db, SId, SCIds).  SCIds is a uint8_t there, so that
\* it never matches the -1 of a component without an SCIds.
FindComp(db, SId, SCIds) ==
  IF FindService(SId) = -1 THEN -1
  ELSE First({i \in CompSlots : /\ Reached(db, i)
                                /\ serviceComps[db][i].SCIds = SCIds
                                /\ serviceComps[db][i].SId = SId})

\* (fault) the sub-channel is not compared.
FindBySubChAnySubCh(db, SId, subChId) ==
  First({i \in CompSlots : Reached(db, i) /\ serviceComps[db][i].SId = SId})

\* findComponent (db, SId, subChId).
FindBySubCh(db, SId, subChId) ==
  First({i \in CompSlots : /\ Reached(db, i)
                           /\ serviceComps[db][i].SId = SId
                           /\ serviceComps[db][i].subCh = subChId})

\* (fault) a slot counts as free until its service is shown.
FreeServiceNotShown == First({i \in ServiceSlots : ~services[i].isShown})

\* createService takes the first free slot and keeps what reset () would
\* clear there (is_shown); with a full table nothing happens.
FreeService == First({i \in ServiceSlots : ~services[i].inUse})

Created(SId, SCIds, label) ==
  IF FreeService = -1 THEN services
  ELSE [services EXCEPT ![FreeService] =
          [inUse |-> TRUE, hasName |-> TRUE, label |-> label, SId |-> SId,
           SCIds |-> SCIds, isShown |-> services[FreeService].isShown]]

-----------------------------------------------------------------------------
(* The FIGs.  Each action is one handler, with fibLocker held.             *)

\* cleanupServiceList: slot by slot, and findService (SId), on which the
\* component search rests, sees the slots given up before.
Healthy(cfg) ==
  LET kept[i \in ServiceSlots] ==
        LET seen == [j \in ServiceSlots |->
                       IF j < i THEN kept[j] ELSE services[j].inUse]
        IN /\ services[i].inUse
           /\ FindBySId(seen, services[i].SId) # -1
           /\ \E k \in CompSlots : /\ Reached(cfg, k)
                                   /\ serviceComps[cfg][k].SCIds = services[i].SCIds
                                   /\ serviceComps[cfg][k].SId = services[i].SId
  IN kept

\* (fault) each service is judged by its components alone, whatever slots in
\* front of it are given up.
cleanupKeepsAllHealthy(cfg) ==
  services' = [i \in ServiceSlots |->
                 [services[i] EXCEPT !.inUse = services[i].inUse /\
                    \E k \in CompSlots : /\ Reached(cfg, k)
                                         /\ serviceComps[cfg][k].SCIds = services[i].SCIds
                                         /\ serviceComps[cfg][k].SId = services[i].SId]]

\* (fault) the services are compared with the configuration given up.
cleanupAgainstOld(cfg) ==
  services' = [i \in ServiceSlots |->
                 [services[i] EXCEPT !.inUse = services[i].inUse /\ Healthy(1 - cfg)[i]]]

cleanupServiceList(cfg) ==
  LET kept == Healthy(cfg)
  IN services' = [i \in ServiceSlots |->
                    [services[i] EXCEPT !.inUse = services[i].inUse /\ kept[i]]]

\* FIG 0/0: the next configuration becomes the current one when the change
\* flag falls from 3 to 0.
ChangeConfig(f) == f.change = 0 /\ prevChangeFlag = 3

\* (fault) the components of the configuration given up stay.
FIG0Extension0KeepsComps(f) ==
  /\ f.type = "0/0"
  /\ prevChangeFlag' = f.change
  /\ IF ChangeConfig(f)
     THEN /\ current' = next
          /\ subChannels' = [subChannels EXCEPT ![current] = NoSubChannels]
          /\ cleanupServiceList(next)
     ELSE UNCHANGED <<current, subChannels, services>>
  /\ UNCHANGED <<isSynced, serviceComps, clusterTable, announced, onAir, overrun, gui, todo>>

FIG0Extension0(f) ==
  /\ f.type = "0/0"
  /\ prevChangeFlag' = f.change
  /\ IF ChangeConfig(f)
     THEN /\ current' = next
          /\ subChannels' = [subChannels EXCEPT ![current] = NoSubChannels]
          /\ serviceComps' = [serviceComps EXCEPT ![current] = NoComps]
          /\ cleanupServiceList(next)
     ELSE UNCHANGED <<current, subChannels, serviceComps, services>>
  /\ UNCHANGED <<isSynced, clusterTable, announced, onAir, overrun, gui, todo>>

\* FIG 0/1: a sub-channel is described once, further descriptions are ignored.
FIG0Extension1(f) ==
  /\ f.type = "0/1"
  /\ subChannels' = [subChannels EXCEPT ![Base(f.CN)][f.subChId] = TRUE]
  /\ UNCHANGED <<services, isSynced, serviceComps, clusterTable, current,
                 prevChangeFlag, announced, onAir, overrun, gui, todo>>

\* FIG 0/2: the loop over the components of a service.
FIG0Extension2(f) ==
  /\ f.type = "0/2"
  /\ todo' = f.bindings
  /\ UNCHANGED <<dbVars, gui>>

\* (fault) the search does not recognise a component.
BoundNever(db, b) == FALSE

\* (fault) the search for a free slot starts at the end.
FreeCompLast(db) ==
  LET free == {i \in CompSlots : ~serviceComps[db][i].inUse}
  IN IF free = {} THEN -1 ELSE CHOOSE i \in free : \A j \in free : j <= i

\* The search loop of both bind functions: it looks for the component and
\* ends at the first free slot.
Bound(db, b) == \E i \in CompSlots : /\ Reached(db, i)
                                     /\ serviceComps[db][i].SId = b.SId
                                     /\ serviceComps[db][i].compNr = b.compNr
FreeComp(db) == First({i \in CompSlots : ~serviceComps[db][i].inUse})

\* A component of an audio service: its sub-channel must be known.  With a
\* full table firstFree stays -1, and serviceComps [-1] is the end of
\* subChannels [63]: its inUse is a byte of that sub-channel's SubChId, and
\* what is written there are fields left out here (start address, length,
\* bit rate and so on).
bind_audioService(b) ==
  LET db == Base(b.CN)
      s  == FindService(b.SId)
      k  == FreeComp(db)
  IN /\ b.TMid = 0
     /\ s # -1
     /\ subChannels[db][b.ref]
     /\ ~Bound(db, b)
     /\ IF k # -1
        THEN /\ serviceComps' = [serviceComps EXCEPT ![db][k] =
                  [inUse |-> TRUE, TMid |-> 0, SId |-> b.SId, SCIds |-> 0,
                   subCh |-> b.ref, compNr |-> b.compNr,
                   SCId |-> serviceComps[db][k].SCId,
                   madePublic |-> serviceComps[db][k].madePublic]]
             /\ services' = [services EXCEPT ![s].SCIds = 0, ![s].isShown = TRUE]
             /\ announced' = announced \cup {<<services[s].label, b.SId>>}
             /\ UNCHANGED overrun
        ELSE \E useFlag \in BOOLEAN :
             /\ overrun' = TRUE
             /\ IF useFlag
                THEN services' = [services EXCEPT ![s].isShown = TRUE] /\ UNCHANGED announced
                ELSE /\ services' = [services EXCEPT ![s].SCIds = 0, ![s].isShown = TRUE]
                     /\ announced' = announced \cup {<<services[s].label, b.SId>>}
             /\ UNCHANGED serviceComps

bind_packetService(b) ==
  LET db == Base(b.CN)
      s  == FindService(b.SId)
      k  == FreeComp(db)
  IN /\ b.TMid = 3
     /\ s # -1
     /\ ~Bound(db, b)
     /\ IF k # -1
        THEN /\ serviceComps' = [serviceComps EXCEPT ![db][k] =
                  [inUse |-> TRUE, TMid |-> 3, SId |-> b.SId,
                   SCIds |-> IF b.compNr = 0 THEN 0 ELSE -1,
                   subCh |-> serviceComps[db][k].subCh, compNr |-> b.compNr,
                   SCId |-> b.ref, madePublic |-> FALSE]]
             /\ UNCHANGED overrun
        ELSE overrun' = TRUE /\ UNCHANGED serviceComps
     /\ UNCHANGED <<services, announced>>

\* The early returns of the two functions.
bind_nothing(b) ==
  /\ \/ FindService(b.SId) = -1
     \/ b.TMid = 0 /\ ~subChannels[Base(b.CN)][b.ref]
     \/ Bound(Base(b.CN), b)
  /\ UNCHANGED <<serviceComps, services, announced, overrun>>

\* Until the FIC thread does its next step a search under way may read a field of
\* services as it was before the handler in hand.  (A search that begins in the
\* midst of a handler reads nothing before that, so it might as well have begun
\* before the handler.)
Remember ==
  /\ before' = IF gui.op = "idle" THEN services' ELSE services
  /\ freed' = freed \cup {i \in ServiceSlots : services[i].inUse /\ ~services'[i].inUse}

BindNext ==
  /\ todo # <<>>
  /\ todo' = Tail(todo)
  /\ \/ bind_audioService(Head(todo))
     \/ bind_packetService(Head(todo))
     \/ bind_nothing(Head(todo))
  /\ Remember
  /\ UNCHANGED <<running, inFib, gui, isSynced, subChannels, clusterTable,
                 current, prevChangeFlag, onAir>>

\* (fault) the fields SCId and SubChId are confused.
FIG0Extension3Swapped(f) ==
  LET db == Base(f.CN)
      k  == FindBySCId(db, f.SCId)
  IN /\ f.type = "0/3"
     /\ k # -1 /\ subChannels[db][f.subChId] /\ f.DSCTy # 0
     /\ serviceComps' = [serviceComps EXCEPT ![db][k].madePublic = TRUE,
                                             ![db][k].subCh = f.SCId]
     /\ UNCHANGED <<announced, services, isSynced, subChannels, clusterTable, current,
                    prevChangeFlag, onAir, overrun, gui, todo>>

\* FIG 0/3: the sub-channel of a packet component; the service is shown.
FIG0Extension3(f) ==
  LET db == Base(f.CN)
      k  == FindBySCId(db, f.SCId)
      s  == FindService(serviceComps[db][k].SId)
  IN /\ f.type = "0/3"
     /\ IF /\ k # -1
           /\ subChannels[db][f.subChId]
           /\ ~serviceComps[db][k].madePublic
           /\ f.DSCTy # 0
           /\ s # -1
        THEN /\ announced' = IF services[s].isShown THEN announced
                             ELSE announced \cup {<<services[s].label, services[s].SId>>}
             /\ services' = [services EXCEPT ![s].isShown = TRUE]
             /\ serviceComps' = [serviceComps EXCEPT ![db][k].madePublic = TRUE,
                                                     ![db][k].subCh = f.subChId]
        ELSE UNCHANGED <<announced, services, serviceComps>>
     /\ UNCHANGED <<isSynced, subChannels, clusterTable, current,
                    prevChangeFlag, onAir, overrun, gui, todo>>

\* FIG 0/8: the SCIds of a component.
FIG0Extension8(f) ==
  LET db == Base(f.CN)
      k  == IF f.form = "long" THEN FindBySCId(db, f.ref)
            ELSE IF subChannels[db][f.ref] THEN FindBySubCh(db, f.SId, f.ref)
            ELSE -1
  IN /\ f.type = "0/8"
     /\ serviceComps' = IF k = -1 THEN serviceComps
                        ELSE [serviceComps EXCEPT ![db][k].SCIds = f.SCIds]
     /\ UNCHANGED <<services, isSynced, subChannels, clusterTable, current,
                    prevChangeFlag, announced, onAir, overrun, gui, todo>>

\* FIG 0/18 with setCluster and getCluster.
FIG0Extension18(f) ==
  LET db == Base(f.CN)
      s  == FindService(f.SId)
  IN /\ f.type = "0/18"
     /\ clusterTable' =
          IF s # -1 /\ services[s].hasName /\ isSynced
          THEN [clusterTable EXCEPT ![db][f.clusterId] =
                  [inUse |-> TRUE, flags |-> f.flags, services |-> @.services \cup {s},
                   announcing |-> @.announcing]]
          ELSE clusterTable
     /\ UNCHANGED <<services, isSynced, subChannels, serviceComps, current,
                    prevChangeFlag, announced, onAir, overrun, gui, todo>>

\* (fault) an announcement that lasted more than five FIGs is not ended.
FIG0Extension19NoEnd(f) ==
  LET db     == Base(f.CN)
      c      == clusterTable[db][f.clusterId]
      names  == {services[i].label : i \in c.services}
      starts == {<<i, services[i].label>> : i \in c.services}
  IN /\ f.type = "0/19" /\ isSynced
     /\ IF c.flags \cap f.flags # {}
        THEN /\ clusterTable' = [clusterTable EXCEPT ![db][f.clusterId].announcing =
                    IF @ < AnnounceMax THEN @ + 1 ELSE AnnounceMax]
             /\ onAir' = IF c.announcing + 1 = 5 THEN onAir \cup starts ELSE onAir
        ELSE /\ clusterTable' = [clusterTable EXCEPT ![db][f.clusterId].announcing = 0]
             /\ onAir' = IF c.announcing = 5 THEN {a \in onAir : a[2] \notin names} ELSE onAir
     /\ UNCHANGED <<services, isSynced, subChannels, serviceComps, current,
                    prevChangeFlag, announced, overrun, gui, todo>>

\* FIG 0/19: the fifth matching FIG starts an announcement, one that does
\* not match ends it; the labels are read through the slots of the cluster.
FIG0Extension19(f) ==
  LET db     == Base(f.CN)
      c      == clusterTable[db][f.clusterId]
      names  == {services[i].label : i \in c.services}
      starts == {<<i, services[i].label>> : i \in c.services}
      count  == IF c.announcing < AnnounceMax THEN c.announcing + 1 ELSE AnnounceMax
  IN /\ f.type = "0/19"
     /\ IF ~isSynced THEN UNCHANGED <<clusterTable, onAir>>
        ELSE IF c.flags \cap f.flags # {}
        THEN /\ clusterTable' = [clusterTable EXCEPT
                  ![db][f.clusterId].inUse = TRUE, ![db][f.clusterId].announcing = count]
             /\ onAir' = IF c.announcing + 1 = 5 THEN onAir \cup starts ELSE onAir
        ELSE /\ clusterTable' = [clusterTable EXCEPT
                  ![db][f.clusterId].inUse = TRUE, ![db][f.clusterId].announcing = 0]
             /\ onAir' = IF c.announcing > 0 THEN {a \in onAir : a[2] \notin names} ELSE onAir
     /\ UNCHANGED <<services, isSynced, subChannels, serviceComps, current,
                    prevChangeFlag, announced, overrun, gui, todo>>

\* FIG 1/0: the name of the ensemble.
FIG1Extension0(f) ==
  /\ f.type = "1/0"
  /\ isSynced' = TRUE
  /\ UNCHANGED <<services, subChannels, serviceComps, clusterTable, current,
                 prevChangeFlag, announced, onAir, overrun, gui, todo>>

\* FIG 1/1: the name of a programme service.
FIG1Extension1(f) ==
  LET s == FindByName(f.label)
  IN /\ f.type = "1/1"
     /\ services' = IF s = -1 THEN Created(f.SId, 0, f.label)
                    ELSE [services EXCEPT ![s].SCIds = 0, ![s].hasName = TRUE]
     /\ UNCHANGED <<isSynced, subChannels, serviceComps, clusterTable, current,
                    prevChangeFlag, announced, onAir, overrun, gui, todo>>

\* FIG 1/4: the label of a component makes a second service of it.
FIG1Extension4(f) ==
  LET k == FindComp(current, f.SId, f.SCIds)
  IN /\ f.type = "1/4"
     /\ IF /\ k > 0
           /\ FindByName(f.label) = -1
           /\ serviceComps[current][k].TMid = 0
        THEN /\ services' = Created(f.SId, f.SCIds, f.label)
             /\ announced' = announced \cup {<<f.label, f.SId>>}
        ELSE UNCHANGED <<services, announced>>
     /\ UNCHANGED <<isSynced, subChannels, serviceComps, clusterTable, current,
                    prevChangeFlag, onAir, overrun, gui, todo>>

\* FIG 1/5: the name of a data service.
FIG1Extension5(f) ==
  /\ f.type = "1/5"
  /\ services' = IF FindService(f.SId) # -1 THEN services
                 ELSE Created(f.SId, 0, f.label)
  /\ UNCHANGED <<isSynced, subChannels, serviceComps, clusterTable, current,
                 prevChangeFlag, announced, onAir, overrun, gui, todo>>

process_FIG(f) ==
  /\ inFib /\ todo = <<>>
  /\ \/ FIG0Extension0(f)  \/ FIG0Extension1(f)  \/ FIG0Extension2(f)
     \/ FIG0Extension3(f)  \/ FIG0Extension8(f)  \/ FIG0Extension18(f)
     \/ FIG0Extension19(f) \/ FIG1Extension0(f)  \/ FIG1Extension1(f)
     \/ FIG1Extension4(f)  \/ FIG1Extension5(f)
  /\ Remember
  /\ UNCHANGED <<running, inFib>>

\* process_FIB locks, handles FIGs, and unlocks.
BeginFIB == /\ running /\ ~inFib
            /\ inFib' = TRUE
            /\ UNCHANGED <<running, todo, gui, dbVars>>
            /\ Remember
EndFIB   == /\ inFib /\ todo = <<>>
            /\ inFib' = FALSE
            /\ UNCHANGED <<running, todo, gui, dbVars>>
            /\ Remember

-----------------------------------------------------------------------------
(* A channel is selected and left: FicHandler::restart and stop.  Both are *)
(* called by the GUI thread, so not within a query, and while the          *)
(* DabProcessor thread does not run, so outside a FIB.                     *)

ResetAll == /\ services' = NoServices
            /\ isSynced' = FALSE
            /\ subChannels' = [c \in Configs |-> NoSubChannels]
            /\ serviceComps' = [c \in Configs |-> NoComps]
            /\ announced' = {}
            /\ onAir' = {}
            /\ before' = NoServices
            /\ freed' = {}
            /\ UNCHANGED <<clusterTable, current, prevChangeFlag, overrun, gui>>

Restart == /\ ~running /\ ~inFib /\ gui.op = "idle"
           /\ running' = TRUE
           /\ ResetAll
           /\ UNCHANGED <<inFib, todo>>
Stop    == /\ running /\ ~inFib /\ gui.op = "idle"
           /\ running' = FALSE
           /\ ResetAll
           /\ UNCHANGED <<inFib, todo>>

-----------------------------------------------------------------------------
(* The queries of the GUI thread.  findService (name) is called before     *)
(* fibLocker is taken; what it found is used with the lock held.           *)

NoAnswer == [defined |-> FALSE, SId |-> NoSId, subCh |-> -1]
Idle     == [op |-> "idle", name |-> NoLabel, pos |-> 0, index |-> -1, SCIds |-> 0,
             answer |-> NoAnswer]
Answer   == [defined: BOOLEAN, SId: SIds \cup {NoSId}, subCh: SubChRange]
Query    == [op: {"idle", "subch", "audio", "packet"}, name: Labels \cup {NoLabel},
             pos: 0 .. NServices, index: ServiceSlots \cup {-1}, SCIds: CompNrs,
             answer: Answer]

guiOnly == UNCHANGED <<running, inFib, todo, dbVars, before, freed>>

\* A query is made: the search begins at slot 0.
Lookup(op, s, SCIds) ==
  /\ gui.op = "idle"
  /\ gui' = [Idle EXCEPT !.op = op, !.name = s, !.SCIds = SCIds]
  /\ guiOnly

\* What an unlocked read of slot i delivers: a handler that is at work on the
\* slot may have written one of its fields and not yet the other (createService
\* sets inUse first, and the slot still has the label of the service that had
\* it; a QString that is read while it is assigned counts as the old or the
\* new one).
SeenInUse(i) == {before[i].inUse, services[i].inUse}
SeenLabel(i) == {before[i].label, services[i].label}

\* findService (name), one slot of the loop; holes are skipped.
LookAt ==
  /\ gui.op # "idle" /\ gui.pos < NServices
  /\ \E inUse \in SeenInUse(gui.pos), label \in SeenLabel(gui.pos) :
       gui' = IF inUse /\ label = gui.name
              THEN [gui EXCEPT !.index = gui.pos, !.pos = NServices]
              ELSE [gui EXCEPT !.pos = @ + 1]
  /\ guiOnly

\* The search is over, and the lock is free.
LookedUp == gui.pos = NServices /\ ~inFib

\* services [-1] lies outside the table: its fields can be anything.
SIdAt(index)   == IF index = -1 THEN SIds \cup {NoSId} ELSE {services[index].SId}
SCIdsAt(index) == IF index = -1 THEN CompNrs ELSE {services[index].SCIds}

\* So can the inUse of subChannels [-1] be, which dataforPacketService reads
\* for a component without a sub-channel.
SubChInUse(c) == IF c = -1 THEN BOOLEAN ELSE {subChannels[current][c]}

Reply(a) == gui' = [Idle EXCEPT !.answer = a]

\* dataforAudioService and dataforPacketService return at once for an unknown
\* name; getSubChId goes on with index -1.
NotFound ==
  /\ gui.op \in {"audio", "packet"} /\ gui.pos = NServices /\ gui.index = -1
  /\ Reply(NoAnswer)
  /\ guiOnly

getSubChId ==
  /\ gui.op = "subch" /\ LookedUp
  /\ \E SId \in SIdAt(gui.index), SCIds \in SCIdsAt(gui.index) :
       LET k == FindComp(current, SId, SCIds)
       IN Reply(IF k = -1 \/ serviceComps[current][k].subCh = -1 THEN NoAnswer
                ELSE [defined |-> TRUE, SId |-> SId,
                      subCh |-> serviceComps[current][k].subCh])
  /\ guiOnly

dataforAudioService ==
  /\ gui.op = "audio" /\ LookedUp /\ gui.index # -1
  /\ LET sv == services[gui.index]
         k  == FindComp(current, sv.SId, sv.SCIds)
         c  == serviceComps[current][k].subCh
     IN Reply(IF k # -1 /\ serviceComps[current][k].TMid = 0 /\ subChannels[current][c]
              THEN [defined |-> TRUE, SId |-> sv.SId, subCh |-> c]
              ELSE NoAnswer)
  /\ guiOnly

dataforPacketService ==
  /\ gui.op = "packet" /\ LookedUp /\ gui.index # -1
  /\ LET sv == services[gui.index]
         k  == FindComp(current, sv.SId, gui.SCIds)
         c  == serviceComps[current][k].subCh
     IN IF k = -1 \/ serviceComps[current][k].TMid # 3
        THEN Reply(NoAnswer)
        ELSE \E inUse \in SubChInUse(c) :
               Reply(IF inUse THEN [defined |-> TRUE, SId |-> sv.SId, subCh |-> c]
                     ELSE NoAnswer)
  /\ guiOnly

-----------------------------------------------------------------------------
Init ==
  /\ air \in Ensembles
  /\ running = FALSE
  /\ inFib = FALSE
  /\ todo = <<>>
  /\ services = NoServices
  /\ isSynced = FALSE
  /\ subChannels = [c \in Configs |-> NoSubChannels]
  /\ serviceComps = [c \in Configs |-> NoComps]
  /\ clusterTable = [c \in Configs |-> [k \in ClusterIds |-> NoCluster]]
  /\ current = 0
  /\ prevChangeFlag = 0
  /\ announced = {}
  /\ onAir = {}
  /\ overrun = FALSE
  /\ gui = Idle
  /\ before = NoServices
  /\ freed = {}

Gui == \/ \E op \in GuiOps, s \in Labels, n \in CompNrs :
            (op = "packet" \/ n = 0) /\ Lookup(op, s, n)
       \/ LookAt \/ NotFound
       \/ getSubChId \/ dataforAudioService \/ dataforPacketService

\* What may happen while the FIGs of F are sent.
Received(F) == \/ BeginFIB \/ EndFIB \/ BindNext
               \/ \E f \in F : process_FIG(f)
               \/ Restart \/ Stop
               \/ Gui

Next == Received(air) /\ UNCHANGED air

Spec == Init /\ [][Next]_<<vars, air>>

-----------------------------------------------------------------------------
(* Properties.                                                             *)

TypeOK ==
  /\ running \in BOOLEAN /\ inFib \in BOOLEAN /\ overrun \in BOOLEAN
  /\ todo \in Seq(Binding)
  /\ services \in [ServiceSlots -> Service]
  /\ isSynced \in BOOLEAN
  /\ subChannels \in [Configs -> [SubChIds -> BOOLEAN]]
  /\ serviceComps \in [Configs -> [CompSlots -> Comp]]
  /\ clusterTable \in [Configs -> [ClusterIds -> Cluster]]
  /\ current \in Configs
  /\ prevChangeFlag \in 0..3
  /\ announced \subseteq (Labels \cup {NoLabel}) \X (SIds \cup {NoSId})
  /\ onAir \subseteq ServiceSlots \X (Labels \cup {NoLabel})
  /\ gui \in Query
  /\ before \in [ServiceSlots -> Service]
  /\ freed \subseteq ServiceSlots

\* The component tables never have a hole, in whatever order FIGs, channel
\* changes and reconfigurations come.  The search loops that end at the first
\* free slot (findServiceComponent, findComponent, both bind functions) miss
\* a component otherwise.
CompsDense ==
  \A c \in Configs, i \in CompSlots : serviceComps[c][i].inUse => Reached(c, i)

\* However often FIG 0/2 is repeated, a component (SId, component number) has
\* one entry in a configuration: bind_audioService and bind_packetService.
CompsUnique ==
  \A c \in Configs, i, j \in CompSlots :
    /\ serviceComps[c][i].inUse /\ serviceComps[c][j].inUse
    /\ serviceComps[c][i].SId = serviceComps[c][j].SId
    /\ serviceComps[c][i].compNr = serviceComps[c][j].compNr
    => i = j

\* A component the GUI can select (audio, or packet data made public) refers
\* to a sub-channel described in the same configuration: the index read by
\* dataforAudioService and dataforPacketService is in range and filled.
CompsHaveSubChannel ==
  \A c \in Configs, i \in CompSlots :
    LET k == serviceComps[c][i]
    IN k.inUse /\ (k.TMid = 0 \/ k.madePublic)
       => k.subCh \in SubChIds /\ subChannels[c][k.subCh]

\* With no more components on the air than NComps, no bind writes outside
\* serviceComps (firstFree stays -1 when the table is full).
NoOverrun == ~overrun

\* Each service in use is found by its SId: after a reconfiguration
\* cleanupServiceList leaves no service behind a hole that findService (SId),
\* which ends at the first hole, would not pass, and createService does not
\* make one.  FIG 1/5 would enter a service that is not found a second time,
\* and FIG 0/2 could not bind its components.
ServicesFound == \A i \in ServiceSlots : services[i].inUse => FindService(services[i].SId) # -1

\* The index that findService (name) found without fibLocker names the service
\* asked for when the lock is taken, whatever handlers were at work during the
\* search and after it, unless the slot is one that a reconfiguration gave up
\* in this channel: createService sets inUse there before the label, and the
\* next service may have it already.
IndexStable ==
  gui.op # "idle" /\ gui.index # -1 /\ gui.index \notin freed
  => /\ services[gui.index].inUse
     /\ services[gui.index].label = gui.name

\* The same of any slot.
IndexNames ==
  gui.op # "idle" /\ gui.index # -1
  => /\ services[gui.index].inUse
     /\ services[gui.index].label = gui.name

\* A service signalled to the GUI by addtoEnsemble can be resolved by the query
\* the GUI's slot makes (getSubChId): its label is in the table and, once the
\* component it is about is bound, leads to a component of that service in the
\* current configuration, whatever FIGs were lost or came first.
AnnouncedResolves ==
  \A a \in announced :
    LET s == FindByName(a[1])
    IN /\ s # -1
       /\ \E i \in CompSlots : /\ serviceComps[current][i].inUse
                               /\ serviceComps[current][i].SId = a[2]
       /\ (\E i \in CompSlots : /\ serviceComps[current][i].inUse
                                /\ serviceComps[current][i].SId = a[2]
                                /\ serviceComps[current][i].compNr = services[s].SCIds)
          => FindComp(current, services[s].SId, services[s].SCIds) # -1

\* The components FIG 0/2 names in ensemble F, the services its labels name, and
\* the sub-channel a component is on.
Bindings(F) == UNION {{f.bindings[i] : i \in DOMAIN f.bindings} :
                      f \in {g \in F : g.type = "0/2"}}
Names(F)    == {<<f.label, f.SId>> : f \in {g \in F : g.type \in {"1/1", "1/4", "1/5"}}}
OnSubCh(F, b, c) ==
  IF b.TMid = 0 THEN b.ref = c
  ELSE \E f \in F : f.type = "0/3" /\ f.SCId = b.ref /\ f.subChId = c

\* An ensemble that keeps its configuration and is coded in order: a label is
\* the label of one service, there are no more labels than slots for services,
\* and FIG 0/8 gives a component the number it has in FIG 0/2.
Consistent(F) ==
  /\ \A f \in F : f.type # "0/0" /\ ("CN" \in DOMAIN f => f.CN = 0)
  /\ \A b \in Bindings(F) : b.CN = 0
  /\ \A n, m \in Names(F) : n[1] = m[1] => n[2] = m[2]
  /\ IsFiniteSet(Names(F)) /\ Cardinality(Names(F)) <= NServices
  /\ \A f \in F : f.type = "0/8" => \A b \in Bindings(F) :
       (IF f.form = "long" THEN b.TMid = 3 /\ b.ref = f.ref
        ELSE b.SId = f.SId /\ OnSubCh(F, b, f.ref))
       => b.compNr = f.SCIds

\* What was announced to the GUI can be resolved as long as the configuration
\* stays the one it was announced in (AnnouncedResolves), unless there were more
\* components than serviceComps has slots; after a change the GUI asks for the
\* whole list again.
AnnouncedResolvesStatic == Consistent(air) /\ ~overrun => AnnouncedResolves

\* A packet component is "used to make service visible" once is_madePublic
\* is set (dab-config.h): its service has been signalled to the GUI.
PublicIsAnnounced ==
  \A c \in Configs, i \in CompSlots :
    serviceComps[c][i].inUse /\ serviceComps[c][i].madePublic
    => \E a \in announced : a[2] = serviceComps[c][i].SId

\* SCIds is the "component within service" (dab-config.h): two components of
\* one service have different ones.
SCIdsIdentify ==
  \A c \in Configs, i, j \in CompSlots :
    /\ i # j /\ serviceComps[c][i].inUse /\ serviceComps[c][j].inUse
    /\ serviceComps[c][i].SId = serviceComps[c][j].SId
    /\ serviceComps[c][i].SCIds # -1
    => serviceComps[c][i].SCIds # serviceComps[c][j].SCIds

\* A component is described to the GUI with the sub-channel it is on: for a
\* packet component "FIG0/3 provides additional data, after that we decide
\* whether it should be visible or not".
AnswerHasSubChannel == gui.answer.defined => gui.answer.subCh \in SubChIds

\* A component of service s in configuration c.
HasComponent(s, c) ==
  \E k \in CompSlots : /\ serviceComps[c][k].inUse
                       /\ serviceComps[c][k].SId = s.SId
                       /\ serviceComps[c][k].SCIds = s.SCIds

\* cleanupServiceList leaves no service behind that has no component in the
\* configuration that is now the current one.
ChangeDropsUnhealthy ==
  [][current' # current
     => \A i \in ServiceSlots : services'[i].inUse => HasComponent(services[i], current')]_vars

\* cleanupServiceList "verifies the services health": a service that has its
\* component in the new configuration stays.
ChangeKeepsHealthy ==
  [][current' # current
     => \A i \in ServiceSlots :
          services[i].inUse /\ HasComponent(services[i], current')
          => services'[i].inUse]_vars

\* An announcement that was started can be stopped: some cluster, of either
\* configuration, with at least five matching FIG 0/19 in a row lists the slot
\* it was started for, so that the next FIG 0/19 of that cluster that does not
\* match stops it, whatever was lost, whichever services joined and whichever
\* other clusters ended meanwhile, and across a reconfiguration, which leaves
\* the clusters alone.  The slots that it gave up are excepted: the label read
\* through them may be that of another service.
OnAirCanEnd ==
  \A a \in onAir :
    a[1] \notin freed /\ a[2] # NoLabel
    => /\ services[a[1]].label = a[2]
       /\ \E c \in Configs, k \in ClusterIds :
            clusterTable[c][k].announcing >= 5 /\ a[1] \in clusterTable[c][k].services

\* A label is on the air only while a cluster of the current configuration
\* with at least five matching FIG 0/19 in a row lists its service.
OnAirAccounted ==
  \A a \in onAir :
    a[2] # NoLabel
    => \E k \in ClusterIds : /\ clusterTable[current][k].announcing >= 5
                            /\ \E i \in clusterTable[current][k].services :
                                 services[i].label = a[2]
=============================================================================
