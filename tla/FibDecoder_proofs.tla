-------------------------- MODULE FibDecoder_proofs --------------------------
(***************************************************************************)
(* Proofs about FibDecoder, for every transmitter and every table size.    *)
(***************************************************************************)
EXTENDS FibDecoder, WellFoundedInduction, FiniteSetTheorems, TLAPS

-----------------------------------------------------------------------------
(* Whatever the receiver is tuned to.                                      *)

\* The FIGs of all ensembles, and a transmitter that sends any of them.
Figs    == UNION Ensembles
AnyNext == Received(Figs)
AnySpec == Init /\ [][AnyNext]_vars

\* What all ensembles send are FIGs of the code.
LEMMA FigsAreFigs == Figs \subseteq Fig
BY EnsemblesAssumption DEF Figs

\* The receiver stays tuned to one ensemble; what it sends, any may send.
LEMMA AirStays ==
  ASSUME air \in Ensembles, [Next]_<<vars, air>>
  PROVE  (air \in Ensembles)' /\ [AnyNext]_vars
<1>1. CASE Next
  <2>1. air' = air /\ Received(air) /\ air \subseteq Figs
    BY <1>1 DEF Next, Figs
  <2> QED
    BY <2>1 DEF AnyNext, Received
<1>2. CASE UNCHANGED <<vars, air>>
  BY <1>2
<1> QED
  BY <1>1, <1>2

\* So what holds for any transmitter holds for the one that is received.
LEMMA AirIsOfFigs == Spec => AnySpec /\ [](air \in Ensembles)
<1>1. Init => air \in Ensembles
  BY DEF Init
<1>2. air \in Ensembles /\ [Next]_<<vars, air>> => (air \in Ensembles)'
  BY AirStays
<1>3. air \in Ensembles /\ [Next]_<<vars, air>> => [AnyNext]_vars
  BY AirStays
<1> QED
  BY <1>1, <1>2, <1>3, PTL DEF Spec, AnySpec

\* The search loops deliver the least index that fits, or -1.
LEMMA FirstIsLeast ==
  ASSUME NEW S \in SUBSET Nat
  PROVE  \/ S = {} /\ First(S) = -1
         \/ S # {} /\ First(S) \in S /\ \A j \in S : First(S) <= j
<1>1. CASE S = {}
  BY <1>1 DEF First
<1>2. CASE S # {}
  <2> DEFINE R == OpToRel(<, Nat)
  <2>0. R = {ss \in Nat \X Nat : ss[1] < ss[2]}
    BY Zenon DEF OpToRel
  <2>w. IsWellFoundedOn(R, Nat)
    BY NatLessThanWellFounded, Zenon
  <2> HIDE DEF R
  <2>1. PICK x \in S : \A y \in S : <<y, x>> \notin R
    BY <1>2, <2>w, WFMin
  <2>2. \A y \in S : x <= y
    <3> SUFFICES ASSUME NEW y \in S
                 PROVE  x <= y
      OBVIOUS
    <3>1. y \in Nat /\ x \in Nat
      OBVIOUS
    <3>2. <<y, x>> \in {ss \in Nat \X Nat : ss[1] < ss[2]} <=> y < x
      BY <3>1
    <3> QED
      BY <2>0, <2>1, <3>1, <3>2
  <2> QED
    BY <1>2, <2>2 DEF First
<1> QED
  BY <1>1, <1>2

-----------------------------------------------------------------------------
(* The fields of a FIG, by its type.                                       *)

\* What the fields of a FIG hold, by its type: process_FIG reads a FIG with
\* the layout its type and extension give.
LEMMA FigFields ==
  ASSUME NEW f \in Figs
  PROVE  /\ f.type = "0/0" => f.change \in 0..3
         /\ f.type = "0/1" => f.CN \in Configs /\ f.subChId \in SubChIds
         /\ f.type = "0/2" => f.bindings \in Seq(Binding)
         /\ f.type = "0/3" => /\ f.CN \in Configs /\ f.SCId \in SCIdSet
                              /\ f.subChId \in SubChIds
         /\ f.type = "0/8" => f.CN \in Configs /\ f.SId \in SIds /\ f.SCIds \in CompNrs
         /\ f.type = "0/18" => /\ f.CN \in Configs /\ f.SId \in SIds
                               /\ f.clusterId \in ClusterIds /\ f.flags \in SUBSET Flags
         /\ f.type = "0/19" => f.CN \in Configs /\ f.clusterId \in ClusterIds
         /\ f.type = "1/1" => f.SId \in SIds /\ f.label \in Labels
         /\ f.type = "1/4" => f.SId \in SIds /\ f.SCIds \in CompNrs /\ f.label \in Labels
         /\ f.type = "1/5" => f.SId \in SIds /\ f.label \in Labels
<1>1. f \in Fig
  BY FigsAreFigs
<1> QED
  BY <1>1 DEF Fig

\* An element of the component list of FIG 0/2 names an audio component by
\* its sub-channel and a packet component by its SCId.
LEMMA BindingFields ==
  ASSUME NEW b \in Binding
  PROVE  /\ b.CN \in Configs /\ b.SId \in SIds /\ b.compNr \in CompNrs
         /\ b.TMid = 0 => b.ref \in SubChIds
         /\ b.TMid = 3 => b.ref \in SCIdSet
         /\ b.TMid \in {0, 3}
BY DEF Binding

\* The slots of the tables are naturals, so that -1 is none of them: the
\* search loops use -1 for 'not found'.
LEMMA Slots ==
  /\ ServiceSlots \in SUBSET Nat /\ CompSlots \in SUBSET Nat
  /\ -1 \notin ServiceSlots /\ -1 \notin CompSlots
  /\ 0 \in CompNrs /\ CompNrs \subseteq SCIdsRange /\ CompNrs \subseteq -1 .. MaxCompNr
BY SizesAssumption DEF ServiceSlots, CompSlots, CompNrs, SCIdsRange

-----------------------------------------------------------------------------
(* What the searches in the tables deliver.                                *)

\* findService (name) delivers a slot in use that carries that name.
LEMMA FoundByName ==
  ASSUME NEW name, FindByName(name) # -1
  PROVE  /\ FindByName(name) \in ServiceSlots
         /\ services[FindByName(name)].inUse /\ services[FindByName(name)].label = name
<1> DEFINE S == {i \in ServiceSlots : services[i].inUse /\ services[i].label = name}
<1>1. S \in SUBSET Nat
  BY Slots
<1> QED
  BY <1>1, FirstIsLeast DEF FindByName

\* findService (SId) delivers a slot in use with that SId.
LEMMA FoundService ==
  ASSUME NEW SId, FindService(SId) # -1
  PROVE  /\ FindService(SId) \in ServiceSlots
         /\ services[FindService(SId)].SId = SId /\ services[FindService(SId)].inUse
<1> DEFINE S == {i \in ServiceSlots : /\ services[i].SId = SId
                                      /\ \A j \in 0 .. i : InUse[j]}
<1>1. S \in SUBSET Nat
  BY Slots
<1>2. FindService(SId) \in S
  BY <1>1, FirstIsLeast DEF FindService, FindBySId
<1>3. FindService(SId) \in 0 .. FindService(SId)
  BY <1>1, <1>2
<1> QED
  BY <1>2, <1>3 DEF InUse

\* findServiceComponent (db, SCId) delivers a component in use.
LEMMA FoundBySCId ==
  ASSUME NEW db, NEW SCId, FindBySCId(db, SCId) # -1
  PROVE  /\ FindBySCId(db, SCId) \in CompSlots
         /\ serviceComps[db][FindBySCId(db, SCId)].inUse
<1> DEFINE S == {i \in CompSlots : serviceComps[db][i].inUse /\ serviceComps[db][i].SCId = SCId}
<1>1. S \in SUBSET Nat
  BY Slots
<1> QED
  BY <1>1, FirstIsLeast DEF FindBySCId

\* findComponent delivers a slot of serviceComps.
LEMMA FoundBySubCh ==
  ASSUME NEW db, NEW SId, NEW c, FindBySubCh(db, SId, c) # -1
  PROVE  FindBySubCh(db, SId, c) \in CompSlots
<1> DEFINE S == {i \in CompSlots : /\ Reached(db, i) /\ serviceComps[db][i].SId = SId
                                   /\ serviceComps[db][i].subCh = c}
<1>1. S \in SUBSET Nat
  BY Slots
<1> QED
  BY <1>1, FirstIsLeast DEF FindBySubCh

\* findServiceComponent (db, SId, SCIds) delivers a slot of serviceComps.
LEMMA FoundComp ==
  ASSUME NEW db, NEW SId, NEW SCIds, FindComp(db, SId, SCIds) # -1
  PROVE  FindComp(db, SId, SCIds) \in CompSlots
<1> DEFINE S == {i \in CompSlots : /\ Reached(db, i) /\ serviceComps[db][i].SCIds = SCIds
                                   /\ serviceComps[db][i].SId = SId}
<1>1. S \in SUBSET Nat
  BY Slots
<1> QED
  BY <1>1, FirstIsLeast DEF FindComp

\* createService takes the lowest slot that is not in use.
LEMMA FreeServiceIsFree ==
  ASSUME FreeService # -1
  PROVE  /\ FreeService \in ServiceSlots /\ ~services[FreeService].inUse
         /\ \A j \in ServiceSlots : j < FreeService => services[j].inUse
<1> DEFINE S == {i \in ServiceSlots : ~services[i].inUse}
<1>1. S \in SUBSET Nat
  BY Slots
<1>2. FreeService = First(S)
  BY DEF FreeService
<1>3. FreeService \in S /\ \A j \in S : FreeService <= j
  BY <1>1, <1>2, FirstIsLeast
<1>4. ASSUME NEW j \in ServiceSlots, j < FreeService
      PROVE  services[j].inUse
  BY <1>1, <1>3, <1>4, Slots
<1> QED
  BY <1>3, <1>4

\* The slot the bind functions fill is the lowest one that is not in use.
LEMMA FreeCompIsLeast ==
  ASSUME NEW db, FreeComp(db) # -1
  PROVE  /\ FreeComp(db) \in CompSlots /\ ~serviceComps[db][FreeComp(db)].inUse
         /\ \A j \in CompSlots : j < FreeComp(db) => serviceComps[db][j].inUse
<1> DEFINE S == {i \in CompSlots : ~serviceComps[db][i].inUse}
<1>1. S \in SUBSET Nat
  BY Slots
<1>2. FreeComp(db) = First(S)
  BY DEF FreeComp
<1>3. FreeComp(db) \in S /\ \A j \in S : FreeComp(db) <= j
  BY <1>1, <1>2, FirstIsLeast
<1>4. ASSUME NEW j \in CompSlots, j < FreeComp(db)
      PROVE  serviceComps[db][j].inUse
  BY <1>1, <1>3, <1>4, Slots
<1> QED
  BY <1>3, <1>4

-----------------------------------------------------------------------------
(* Type correctness.                                                       *)

\* createService leaves a table of services.
LEMMA CreatedType ==
  ASSUME services \in [ServiceSlots -> Service],
         NEW SId \in SIds, NEW SCIds \in CompNrs, NEW label \in Labels
  PROVE  Created(SId, SCIds, label) \in [ServiceSlots -> Service]
<1>1. CASE FreeService = -1
  BY <1>1 DEF Created
<1>2. CASE FreeService # -1
  <2>1. FreeService \in ServiceSlots
    BY <1>2, FreeServiceIsFree
  <2>2. services[FreeService].isShown \in BOOLEAN
    BY <2>1 DEF Service
  <2>3. [inUse |-> TRUE, hasName |-> TRUE, label |-> label, SId |-> SId,
         SCIds |-> SCIds, isShown |-> services[FreeService].isShown] \in Service
    BY <2>2 DEF Service
  <2> QED
    BY <1>2, <2>1, <2>3 DEF Created
<1> QED
  BY <1>1, <1>2

\* dabConfig::reset and ensembleDescriptor::reset leave tables.
LEMMA EmptyTables ==
  /\ NoServices \in [ServiceSlots -> Service]
  /\ NoSubChannels \in [SubChIds -> BOOLEAN]
  /\ NoComps \in [CompSlots -> Comp]
  /\ NoCluster \in Cluster
  /\ Idle \in Query
<1>1. NoService \in Service
  BY Slots DEF NoService, Service
<1>2. NoComp \in Comp
  BY SizesAssumption DEF NoComp, Comp, SCIdsRange, SubChRange, SCIdRange
<1>3. NoCluster \in Cluster
  BY SizesAssumption DEF NoCluster, Cluster
<1>4. NoAnswer \in Answer
  BY DEF NoAnswer, Answer, SubChRange
<1>5. Idle \in Query
  BY <1>4, Slots, SizesAssumption DEF Idle, Query
<1> QED
  BY <1>1, <1>2, <1>3, <1>5 DEF NoServices, NoSubChannels, NoComps

\* The program starts with tables of the right type.
LEMMA InitType == Init => TypeOK
<1> SUFFICES ASSUME Init
             PROVE  TypeOK
  OBVIOUS
<1>1. services \in [ServiceSlots -> Service] /\ gui \in Query
  BY EmptyTables DEF Init
<1>2. subChannels \in [Configs -> [SubChIds -> BOOLEAN]]
  BY EmptyTables DEF Init
<1>3. serviceComps \in [Configs -> [CompSlots -> Comp]]
  BY EmptyTables DEF Init
<1>4. clusterTable \in [Configs -> [ClusterIds -> Cluster]]
  BY EmptyTables DEF Init
<1>5. todo \in Seq(Binding) /\ current \in Configs
  BY DEF Init, Configs
<1>6. running \in BOOLEAN /\ inFib \in BOOLEAN /\ overrun \in BOOLEAN /\ isSynced \in BOOLEAN
  BY DEF Init
<1>7. prevChangeFlag \in 0..3
  BY DEF Init
<1>8. /\ announced \subseteq (Labels \cup {NoLabel}) \X (SIds \cup {NoSId})
      /\ onAir \subseteq ServiceSlots \X (Labels \cup {NoLabel})
  BY DEF Init
<1>9. before \in [ServiceSlots -> Service] /\ freed \subseteq ServiceSlots
  BY EmptyTables DEF Init
<1> QED
  BY <1>1, <1>2, <1>3, <1>4, <1>5, <1>6, <1>7, <1>8, <1>9, Zenon DEF TypeOK

\* What is remembered of a handler is of the right type.
LEMMA RememberType ==
  ASSUME TypeOK, Remember, services' \in [ServiceSlots -> Service]
  PROVE  before' \in [ServiceSlots -> Service] /\ freed' \subseteq ServiceSlots
BY DEF TypeOK, Remember

\* CN_bit selects one of the two configurations.
LEMMA BaseType ==
  ASSUME TypeOK, NEW CN \in Configs
  PROVE  Base(CN) \in Configs
BY DEF TypeOK, Base, next, Configs

\* A reconfiguration (FIG 0/0) leaves tables of the right type.
LEMMA FIG0Extension0Type ==
  ASSUME TypeOK, NEW f \in Figs, FIG0Extension0(f)
  PROVE  /\ prevChangeFlag' \in 0..3 /\ current' \in Configs
         /\ subChannels' \in [Configs -> [SubChIds -> BOOLEAN]]
         /\ serviceComps' \in [Configs -> [CompSlots -> Comp]]
         /\ services' \in [ServiceSlots -> Service]
<1>1. prevChangeFlag' \in 0..3
  BY FigFields DEF FIG0Extension0
<1>2. CASE ~ChangeConfig(f)
  BY <1>1, <1>2 DEF FIG0Extension0, TypeOK
<1>3. CASE ChangeConfig(f)
  <2>1. current' \in Configs /\ current \in Configs
    BY <1>3 DEF FIG0Extension0, TypeOK, next, Configs
  <2>2. subChannels' \in [Configs -> [SubChIds -> BOOLEAN]]
    BY <1>3, <2>1, EmptyTables DEF FIG0Extension0, TypeOK
  <2>3. serviceComps' \in [Configs -> [CompSlots -> Comp]]
    BY <1>3, <2>1, EmptyTables DEF FIG0Extension0, TypeOK
  <2>4. services' \in [ServiceSlots -> Service]
    <3> DEFINE kept == Healthy(next)
    <3>1. services' = [i \in ServiceSlots |->
                         [services[i] EXCEPT !.inUse = services[i].inUse /\ kept[i]]]
      BY <1>3 DEF FIG0Extension0, cleanupServiceList
    <3> HIDE DEF kept
    <3>2. \A i \in ServiceSlots : (services[i].inUse /\ kept[i]) \in BOOLEAN
      OBVIOUS
    <3>3. \A i \in ServiceSlots :
            [services[i] EXCEPT !.inUse = services[i].inUse /\ kept[i]] \in Service
      BY <3>2 DEF TypeOK, Service
    <3> QED
      BY <3>1, <3>3
  <2> QED
    BY <1>1, <2>1, <2>2, <2>3, <2>4
<1> QED
  BY <1>2, <1>3

\* One slot of serviceComps can be given any component.
LEMMA CompChange ==
  ASSUME TypeOK, NEW db \in Configs, NEW k \in CompSlots, NEW c \in Comp
  PROVE  [serviceComps EXCEPT ![db][k] = c] \in [Configs -> [CompSlots -> Comp]]
BY DEF TypeOK

\* What the fields of a service hold.
LEMMA ServiceFields ==
  ASSUME TypeOK, NEW i \in ServiceSlots
  PROVE  /\ services[i].inUse \in BOOLEAN /\ services[i].SId \in SIds \cup {NoSId}
         /\ services[i].SCIds \in CompNrs /\ services[i].isShown \in BOOLEAN
         /\ services[i].label \in Labels \cup {NoLabel}
BY DEF TypeOK, Service

\* A slot of serviceComps holds a component.
LEMMA CompFields ==
  ASSUME TypeOK, NEW c \in Configs, NEW i \in CompSlots
  PROVE  serviceComps[c][i] \in Comp
BY DEF TypeOK

\* A service that is marked as shown is still a service.
LEMMA ServiceShown ==
  ASSUME TypeOK, NEW s \in ServiceSlots
  PROVE  /\ [services EXCEPT ![s].isShown = TRUE] \in [ServiceSlots -> Service]
         /\ [services EXCEPT ![s].SCIds = 0, ![s].isShown = TRUE] \in [ServiceSlots -> Service]
<1>1. services[s] \in Service
  BY DEF TypeOK
<1>2. [services[s] EXCEPT !.isShown = TRUE] \in Service
  BY <1>1 DEF Service
<1>3. [services[s] EXCEPT !.SCIds = 0, !.isShown = TRUE] \in Service
  BY <1>1, Slots DEF Service
<1>4. [services EXCEPT ![s].isShown = TRUE]
        = [services EXCEPT ![s] = [services[s] EXCEPT !.isShown = TRUE]]
  BY DEF TypeOK
<1>5. [services EXCEPT ![s].SCIds = 0, ![s].isShown = TRUE]
        = [services EXCEPT ![s] = [services[s] EXCEPT !.SCIds = 0, !.isShown = TRUE]]
  BY DEF TypeOK
<1> QED
  BY <1>2, <1>3, <1>4, <1>5 DEF TypeOK

\* bind_audioService and bind_packetService leave tables of the right type.
LEMMA BindType ==
  ASSUME TypeOK, BindNext
  PROVE  TypeOK'
<1> DEFINE b == Head(todo)
           db == Base(b.CN)
           k  == FreeComp(db)
           s  == FindService(b.SId)
<1>1. b \in Binding /\ todo' \in Seq(Binding)
  BY DEF TypeOK, BindNext
<1>2. db \in Configs
  BY <1>1, BaseType, BindingFields
<1>3. s # -1 => s \in ServiceSlots
  BY FoundService
<1>4. k # -1 => k \in CompSlots
  BY <1>2, FreeCompIsLeast
<1>5. CASE bind_audioService(b)
  <2>1. serviceComps' \in [Configs -> [CompSlots -> Comp]]
    <3>1. CASE k = -1
      BY <1>5, <3>1 DEF bind_audioService, TypeOK
    <3>2. CASE k # -1
      <4>1. serviceComps[db][k] \in Comp
        BY <1>2, <1>4, <3>2, CompFields
      <4>2. [inUse |-> TRUE, TMid |-> 0, SId |-> b.SId, SCIds |-> 0,
             subCh |-> b.ref, compNr |-> b.compNr, SCId |-> serviceComps[db][k].SCId,
             madePublic |-> serviceComps[db][k].madePublic] \in Comp
        BY <1>1, <1>5, <4>1, BindingFields, Slots DEF Comp, bind_audioService, SubChRange
      <4>3. serviceComps' = [serviceComps EXCEPT ![db][k] =
              [inUse |-> TRUE, TMid |-> 0, SId |-> b.SId, SCIds |-> 0,
               subCh |-> b.ref, compNr |-> b.compNr, SCId |-> serviceComps[db][k].SCId,
               madePublic |-> serviceComps[db][k].madePublic]]
        BY <1>5, <3>2 DEF bind_audioService
      <4> HIDE DEF b, db, k, s
      <4> QED
        BY <1>2, <1>4, <3>2, <4>2, <4>3, CompChange
    <3> QED
      BY <3>1, <3>2
  <2>2. services' \in [ServiceSlots -> Service]
    <3>1. services' \in {[services EXCEPT ![s].isShown = TRUE],
                         [services EXCEPT ![s].SCIds = 0, ![s].isShown = TRUE]} /\ s # -1
      BY <1>5, Zenon DEF bind_audioService
    <3> HIDE DEF s
    <3> QED
      BY <1>3, <3>1, ServiceShown
  <2>3. announced' \subseteq (Labels \cup {NoLabel}) \X (SIds \cup {NoSId})
    <3>1. /\ s # -1
          /\ announced' \in {announced, announced \cup {<<services[s].label, b.SId>>}}
      BY <1>5, Zenon DEF bind_audioService
    <3> HIDE DEF s, b
    <3>2. b.SId \in SIds /\ services[s].label \in Labels \cup {NoLabel}
      BY <1>1, <1>3, <3>1, BindingFields, ServiceFields
    <3> QED
      BY <3>1, <3>2 DEF TypeOK
  <2>4. overrun' \in BOOLEAN
    BY <1>5 DEF bind_audioService, TypeOK
  <2>5. before' \in [ServiceSlots -> Service] /\ freed' \subseteq ServiceSlots
    BY <2>2, RememberType DEF BindNext
  <2> QED
    BY <1>1, <2>1, <2>2, <2>3, <2>4, <2>5 DEF BindNext, TypeOK
<1>6. CASE bind_packetService(b)
  <2>1. serviceComps' \in [Configs -> [CompSlots -> Comp]]
    <3>1. CASE k = -1
      BY <1>6, <3>1 DEF bind_packetService, TypeOK
    <3>2. CASE k # -1
      <4>1. serviceComps[db][k] \in Comp
        BY <1>2, <1>4, <3>2, CompFields
      <4>2. [inUse |-> TRUE, TMid |-> 3, SId |-> b.SId,
             SCIds |-> IF b.compNr = 0 THEN 0 ELSE -1,
             subCh |-> serviceComps[db][k].subCh, compNr |-> b.compNr,
             SCId |-> b.ref, madePublic |-> FALSE] \in Comp
        <5>1. (IF b.compNr = 0 THEN 0 ELSE -1) \in SCIdsRange
          BY SizesAssumption DEF SCIdsRange
        <5>2. b.TMid = 3
          BY <1>6 DEF bind_packetService
        <5>3. /\ b.SId \in SIds /\ b.compNr \in -1 .. MaxCompNr /\ b.ref \in SCIdRange
          BY <1>1, <5>2, BindingFields, Slots DEF SCIdRange
        <5>4. serviceComps[db][k].subCh \in SubChRange
          BY <4>1 DEF Comp
        <5> QED
          BY <5>1, <5>3, <5>4 DEF Comp
      <4> QED
        BY <1>2, <1>4, <1>6, <3>2, <4>2, CompChange DEF bind_packetService
    <3> QED
      BY <3>1, <3>2
  <2>2. overrun' \in BOOLEAN
    BY <1>6 DEF bind_packetService, TypeOK
  <2>3. before' \in [ServiceSlots -> Service] /\ freed' \subseteq ServiceSlots
    BY <1>6, RememberType DEF BindNext, bind_packetService, TypeOK
  <2> QED
    BY <1>1, <1>6, <2>1, <2>2, <2>3 DEF BindNext, bind_packetService, TypeOK
<1>7. CASE bind_nothing(b)
  <2>1. before' \in [ServiceSlots -> Service] /\ freed' \subseteq ServiceSlots
    BY <1>7, RememberType DEF BindNext, bind_nothing, TypeOK
  <2> QED
    BY <1>1, <1>7, <2>1 DEF bind_nothing, BindNext, TypeOK
<1> QED
  BY <1>5, <1>6, <1>7 DEF BindNext

\* FIG 0/3 gives a packet component a sub-channel and shows its service.
LEMMA FIG0Extension3Type ==
  ASSUME TypeOK, NEW f \in Figs, FIG0Extension3(f)
  PROVE  /\ serviceComps' \in [Configs -> [CompSlots -> Comp]]
         /\ services' \in [ServiceSlots -> Service]
         /\ announced' \subseteq (Labels \cup {NoLabel}) \X (SIds \cup {NoSId})
<1> DEFINE db == Base(f.CN)
           k  == FindBySCId(db, f.SCId)
           s  == FindService(serviceComps[db][k].SId)
<1>1. db \in Configs /\ f.subChId \in SubChIds
  BY FigFields, BaseType DEF FIG0Extension3
<1>2. CASE k = -1 \/ s = -1
  BY <1>2 DEF FIG0Extension3, TypeOK
<1>3. CASE k # -1 /\ s # -1
  <2>1. k \in CompSlots /\ s \in ServiceSlots
    BY <1>1, <1>3, FoundBySCId, FoundService
  <2>2. [serviceComps[db][k] EXCEPT !.madePublic = TRUE, !.subCh = f.subChId] \in Comp
    <3>1. \A c \in Comp, x \in SubChRange :
            [c EXCEPT !.madePublic = TRUE, !.subCh = x] \in Comp
      BY DEF Comp
    <3>2. serviceComps[db][k] \in Comp /\ f.subChId \in SubChRange
      BY <1>1, <2>1, CompFields DEF SubChRange
    <3> HIDE DEF db, k
    <3> QED
      BY <3>1, <3>2
  <2>3. [serviceComps EXCEPT ![db][k].madePublic = TRUE, ![db][k].subCh = f.subChId]
          = [serviceComps EXCEPT ![db][k] =
               [serviceComps[db][k] EXCEPT !.madePublic = TRUE, !.subCh = f.subChId]]
    BY <1>1, <2>1, ZenonT(30) DEF TypeOK
  <2>4. serviceComps' \in [Configs -> [CompSlots -> Comp]]
    <3>1. serviceComps' \in {serviceComps, [serviceComps EXCEPT ![db][k].madePublic = TRUE,
                                                               ![db][k].subCh = f.subChId]}
      BY Zenon DEF FIG0Extension3
    <3> DEFINE c == [serviceComps[db][k] EXCEPT !.madePublic = TRUE, !.subCh = f.subChId]
    <3>2. serviceComps' = serviceComps \/ serviceComps' = [serviceComps EXCEPT ![db][k] = c]
      BY <2>3, <3>1, Zenon
    <3>3. [serviceComps EXCEPT ![db][k] = c] \in [Configs -> [CompSlots -> Comp]]
      BY <1>1, <2>1, <2>2, CompChange, Zenon
    <3>4. serviceComps \in [Configs -> [CompSlots -> Comp]]
      BY DEF TypeOK
    <3> HIDE DEF db, k, c
    <3> QED
      BY <3>2, <3>3, <3>4, Zenon
  <2>5. services' \in [ServiceSlots -> Service]
    <3>1. services' \in {services, [services EXCEPT ![s].isShown = TRUE]}
      BY Zenon DEF FIG0Extension3
    <3> HIDE DEF s
    <3> QED
      BY <2>1, <3>1, ServiceShown DEF TypeOK
  <2>6. announced' \subseteq (Labels \cup {NoLabel}) \X (SIds \cup {NoSId})
    <3>1. <<services[s].label, services[s].SId>> \in (Labels \cup {NoLabel}) \X (SIds \cup {NoSId})
      BY <2>1, ServiceFields
    <3>2. announced' \in {announced, announced \cup {<<services[s].label, services[s].SId>>}}
      BY Zenon DEF FIG0Extension3
    <3> HIDE DEF s
    <3> QED
      BY <3>1, <3>2 DEF TypeOK
  <2> QED
    BY <2>4, <2>5, <2>6
<1> QED
  BY <1>2, <1>3

\* FIG 0/8 gives a component an SCIds.
LEMMA FIG0Extension8Type ==
  ASSUME TypeOK, NEW f \in Figs, FIG0Extension8(f)
  PROVE  serviceComps' \in [Configs -> [CompSlots -> Comp]]
<1> DEFINE db == Base(f.CN)
           k  == IF f.form = "long" THEN FindBySCId(db, f.ref)
                 ELSE IF subChannels[db][f.ref] THEN FindBySubCh(db, f.SId, f.ref)
                 ELSE -1
<1>1. db \in Configs /\ f.SCIds \in SCIdsRange
  BY FigFields, BaseType, Slots DEF FIG0Extension8
<1>2. k # -1 => k \in CompSlots
  BY FoundBySCId, FoundBySubCh
<1>3. serviceComps' = IF k = -1 THEN serviceComps
                      ELSE [serviceComps EXCEPT ![db][k].SCIds = f.SCIds]
  BY DEF FIG0Extension8
<1> HIDE DEF db, k
<1>4. CASE k = -1
  BY <1>3, <1>4 DEF TypeOK
<1>5. CASE k # -1
  <2>1. [serviceComps[db][k] EXCEPT !.SCIds = f.SCIds] \in Comp
    BY <1>1, <1>2, <1>5, CompFields DEF Comp
  <2> QED
    BY <1>1, <1>2, <1>3, <1>5, <2>1, CompChange DEF TypeOK
<1> QED
  BY <1>4, <1>5

\* A slot of clusterTable holds a cluster.
LEMMA ClusterFields ==
  ASSUME TypeOK, NEW c \in Configs, NEW k \in ClusterIds
  PROVE  clusterTable[c][k] \in Cluster
BY DEF TypeOK

\* FIG 0/18 (setCluster) adds a service to a cluster.
LEMMA FIG0Extension18Type ==
  ASSUME TypeOK, NEW f \in Figs, FIG0Extension18(f)
  PROVE  clusterTable' \in [Configs -> [ClusterIds -> Cluster]]
<1> DEFINE db == Base(f.CN)
           s  == FindService(f.SId)
           c  == clusterTable[db][f.clusterId]
<1>1. db \in Configs /\ f.clusterId \in ClusterIds /\ f.flags \in SUBSET Flags
  BY FigFields, BaseType DEF FIG0Extension18
<1>2. CASE s # -1 /\ services[s].hasName /\ isSynced
  <2>1. s \in ServiceSlots
    BY <1>2, FoundService
  <2>2. [inUse |-> TRUE, flags |-> f.flags, services |-> c.services \cup {s},
         announcing |-> c.announcing] \in Cluster
    BY <1>1, <2>1, ClusterFields DEF Cluster
  <2> QED
    BY <1>1, <1>2, <2>2 DEF FIG0Extension18, TypeOK
<1>3. CASE ~(s # -1 /\ services[s].hasName /\ isSynced)
  BY <1>3 DEF FIG0Extension18, TypeOK
<1> QED
  BY <1>2, <1>3

\* FIG 0/19 counts the announcements of a cluster.
LEMMA FIG0Extension19Type ==
  ASSUME TypeOK, NEW f \in Figs, FIG0Extension19(f)
  PROVE  /\ clusterTable' \in [Configs -> [ClusterIds -> Cluster]]
         /\ onAir' \subseteq ServiceSlots \X (Labels \cup {NoLabel})
<1> DEFINE db == Base(f.CN)
           c  == clusterTable[db][f.clusterId]
           starts == {<<i, services[i].label>> : i \in c.services}
           count == IF c.announcing < AnnounceMax THEN c.announcing + 1 ELSE AnnounceMax
<1>1. db \in Configs /\ f.clusterId \in ClusterIds
  BY FigFields, BaseType DEF FIG0Extension19
<1>2. c \in Cluster
  BY <1>1, ClusterFields
<1>3. starts \subseteq ServiceSlots \X (Labels \cup {NoLabel})
  BY <1>2, ServiceFields DEF Cluster
<1>4. count \in 0 .. AnnounceMax
  BY <1>2, SizesAssumption DEF Cluster
<1>5. onAir' \subseteq ServiceSlots \X (Labels \cup {NoLabel})
  BY <1>3 DEF FIG0Extension19, TypeOK
<1>6. [c EXCEPT !.inUse = TRUE, !.announcing = count] \in Cluster
  BY <1>2, <1>4 DEF Cluster
<1>7. [c EXCEPT !.inUse = TRUE, !.announcing = 0] \in Cluster
  <2>1. 0 \in 0 .. AnnounceMax
    BY SizesAssumption
  <2> HIDE DEF c
  <2> QED
    BY <1>2, <2>1 DEF Cluster
<1>8. \A n : [clusterTable EXCEPT ![db][f.clusterId].inUse = TRUE,
                                  ![db][f.clusterId].announcing = n]
             = [clusterTable EXCEPT ![db][f.clusterId] =
                  [c EXCEPT !.inUse = TRUE, !.announcing = n]]
  BY <1>1 DEF TypeOK
<1>9. clusterTable' \in
        {clusterTable,
         [clusterTable EXCEPT ![db][f.clusterId].inUse = TRUE, ![db][f.clusterId].announcing = count],
         [clusterTable EXCEPT ![db][f.clusterId].inUse = TRUE, ![db][f.clusterId].announcing = 0]}
  BY Zenon DEF FIG0Extension19
<1>10. clusterTable' \in
         {clusterTable,
          [clusterTable EXCEPT ![db][f.clusterId] = [c EXCEPT !.inUse = TRUE, !.announcing = count]],
          [clusterTable EXCEPT ![db][f.clusterId] = [c EXCEPT !.inUse = TRUE, !.announcing = 0]]}
  BY <1>8, <1>9, Zenon
<1>11. \A x \in Cluster : [clusterTable EXCEPT ![db][f.clusterId] = x]
                             \in [Configs -> [ClusterIds -> Cluster]]
  BY <1>1 DEF TypeOK
<1>12. clusterTable \in [Configs -> [ClusterIds -> Cluster]]
  BY DEF TypeOK
<1> HIDE DEF db, c, count
<1> QED
  BY <1>5, <1>6, <1>7, <1>10, <1>11, <1>12

\* FIG 1/1 names a service or creates it.
LEMMA FIG1Extension1Type ==
  ASSUME TypeOK, NEW f \in Figs, FIG1Extension1(f)
  PROVE  services' \in [ServiceSlots -> Service]
<1> DEFINE s == FindByName(f.label)
<1>1. f.SId \in SIds /\ f.label \in Labels
  BY FigFields DEF FIG1Extension1
<1>2. CASE s = -1
  BY <1>1, <1>2, CreatedType, Slots DEF FIG1Extension1, TypeOK
<1>3. CASE s # -1
  <2>1. s \in ServiceSlots
    BY <1>3, FoundByName
  <2>2. [services[s] EXCEPT !.SCIds = 0, !.hasName = TRUE] \in Service
    <3>1. services[s] \in Service
      BY <2>1 DEF TypeOK
    <3> HIDE DEF s
    <3> QED
      BY <3>1, Slots DEF Service
  <2>3. services' = [services EXCEPT ![s] = [services[s] EXCEPT !.SCIds = 0, !.hasName = TRUE]]
    <3>1. services' = [services EXCEPT ![s].SCIds = 0, ![s].hasName = TRUE]
      BY <1>3, Zenon DEF FIG1Extension1
    <3>2. services \in [ServiceSlots -> Service]
      BY DEF TypeOK
    <3> HIDE DEF s
    <3>3. services[s] \in Service
      BY <2>1, <3>2
    <3>4. \A i \in ServiceSlots : services'[i] =
            IF i = s THEN [services[s] EXCEPT !.SCIds = 0, !.hasName = TRUE] ELSE services[i]
      BY <2>1, <3>1, <3>2, <3>3 DEF Service
    <3> QED
      BY <2>1, <3>1, <3>2, <3>4
  <2> HIDE DEF s
  <2> QED
    BY <2>1, <2>2, <2>3 DEF TypeOK
<1> QED
  BY <1>2, <1>3

\* FIG 1/4 makes a service of a labelled component.
LEMMA FIG1Extension4Type ==
  ASSUME TypeOK, NEW f \in Figs, FIG1Extension4(f)
  PROVE  /\ services' \in [ServiceSlots -> Service]
         /\ announced' \subseteq (Labels \cup {NoLabel}) \X (SIds \cup {NoSId})
<1>1. f.SId \in SIds /\ f.SCIds \in CompNrs /\ f.label \in Labels
  BY FigFields DEF FIG1Extension4
<1>2. services' \in {services, Created(f.SId, f.SCIds, f.label)}
  BY DEF FIG1Extension4
<1>3. announced' \in {announced, announced \cup {<<f.label, f.SId>>}}
  BY DEF FIG1Extension4
<1> QED
  BY <1>1, <1>2, <1>3, CreatedType DEF TypeOK

\* FIG 1/5 creates a data service.
LEMMA FIG1Extension5Type ==
  ASSUME TypeOK, NEW f \in Figs, FIG1Extension5(f)
  PROVE  services' \in [ServiceSlots -> Service]
<1>1. f.SId \in SIds /\ f.label \in Labels /\ 0 \in CompNrs
  BY FigFields, Slots DEF FIG1Extension5
<1>2. services' \in {services, Created(f.SId, 0, f.label)}
  BY DEF FIG1Extension5
<1> QED
  BY <1>1, <1>2, CreatedType DEF TypeOK

\* Every FIG handler keeps the types of the tables.
LEMMA ProcessFIGType ==
  ASSUME TypeOK, NEW f \in Figs, process_FIG(f)
  PROVE  TypeOK'
<1> DEFINE TablesOK == /\ services' \in [ServiceSlots -> Service] /\ isSynced' \in BOOLEAN
                       /\ subChannels' \in [Configs -> [SubChIds -> BOOLEAN]]
                       /\ serviceComps' \in [Configs -> [CompSlots -> Comp]]
                       /\ clusterTable' \in [Configs -> [ClusterIds -> Cluster]]
                       /\ current' \in Configs /\ prevChangeFlag' \in 0..3
                       /\ announced' \subseteq (Labels \cup {NoLabel}) \X (SIds \cup {NoSId})
                       /\ onAir' \subseteq ServiceSlots \X (Labels \cup {NoLabel})
                       /\ overrun' \in BOOLEAN /\ gui' \in Query /\ todo' \in Seq(Binding)
<1> SUFFICES TablesOK
  <2> SUFFICES ASSUME TablesOK PROVE TypeOK'
    OBVIOUS
  <2>1. before' \in [ServiceSlots -> Service] /\ freed' \subseteq ServiceSlots
    BY RememberType DEF process_FIG
  <2>2. UNCHANGED <<running, inFib>>
    BY DEF process_FIG
  <2> QED
    BY <2>1, <2>2 DEF TypeOK
<1>1. CASE FIG0Extension0(f)
  BY <1>1, FIG0Extension0Type DEF FIG0Extension0, TypeOK
<1>2. CASE FIG0Extension1(f)
  <2>1. Base(f.CN) \in Configs
    BY <1>2, FigFields, BaseType DEF FIG0Extension1
  <2> QED
    BY <1>2, <2>1 DEF FIG0Extension1, TypeOK
<1>3. CASE FIG0Extension2(f)
  BY <1>3, FigFields DEF FIG0Extension2, TypeOK, dbVars
<1>4. CASE FIG0Extension3(f)
  BY <1>4, FIG0Extension3Type DEF FIG0Extension3, TypeOK
<1>5. CASE FIG0Extension8(f)
  BY <1>5, FIG0Extension8Type DEF FIG0Extension8, TypeOK
<1>6. CASE FIG0Extension18(f)
  BY <1>6, FIG0Extension18Type DEF FIG0Extension18, TypeOK
<1>7. CASE FIG0Extension19(f)
  BY <1>7, FIG0Extension19Type DEF FIG0Extension19, TypeOK
<1>8. CASE FIG1Extension0(f)
  BY <1>8 DEF FIG1Extension0, TypeOK
<1>9. CASE FIG1Extension1(f)
  BY <1>9, FIG1Extension1Type DEF FIG1Extension1, TypeOK
<1>10. CASE FIG1Extension4(f)
  BY <1>10, FIG1Extension4Type DEF FIG1Extension4, TypeOK
<1>11. CASE FIG1Extension5(f)
  BY <1>11, FIG1Extension5Type DEF FIG1Extension5, TypeOK
<1> QED
  BY <1>1, <1>2, <1>3, <1>4, <1>5, <1>6, <1>7, <1>8, <1>9, <1>10, <1>11 DEF process_FIG

\* FicHandler::restart and stop leave tables of the right type.
LEMMA ChannelType ==
  ASSUME TypeOK, Restart \/ Stop
  PROVE  TypeOK'
<1>1. subChannels' \in [Configs -> [SubChIds -> BOOLEAN]]
  BY EmptyTables DEF Restart, Stop, ResetAll
<1>2. serviceComps' \in [Configs -> [CompSlots -> Comp]]
  BY EmptyTables DEF Restart, Stop, ResetAll
<1>3. services' \in [ServiceSlots -> Service]
  BY EmptyTables DEF Restart, Stop, ResetAll
<1>4. before' \in [ServiceSlots -> Service] /\ freed' \subseteq ServiceSlots
  BY EmptyTables DEF Restart, Stop, ResetAll
<1> QED
  BY <1>1, <1>2, <1>3, <1>4 DEF Restart, Stop, ResetAll, TypeOK

\* An answer closes the query of the GUI thread.
LEMMA ReplyType ==
  ASSUME NEW a \in Answer
  PROVE  [Idle EXCEPT !.answer = a] \in Query
BY EmptyTables DEF Query

\* The queries of the GUI thread keep the type of the query.
LEMMA GuiType ==
  ASSUME TypeOK, Gui
  PROVE  gui' \in Query
<1>1. NoAnswer \in Answer
  BY DEF NoAnswer, Answer, SubChRange
<1>2. current \in Configs
  BY DEF TypeOK
<1>3. ASSUME NEW op \in GuiOps, NEW s \in Labels, NEW n \in CompNrs, Lookup(op, s, n)
      PROVE  gui' \in Query
  <2>1. op \in {"subch", "audio", "packet"}
    BY GuiAssumption
  <2> QED
    BY <1>3, <2>1, EmptyTables DEF Lookup, Query
<1>6. CASE LookAt
  <2>1. gui \in Query /\ gui.pos \in 0 .. NServices /\ gui.pos < NServices
    BY <1>6 DEF LookAt, TypeOK, Query
  <2>2. gui.pos \in ServiceSlots /\ gui.pos + 1 \in 0 .. NServices /\ NServices \in 0 .. NServices
    BY <2>1, SizesAssumption DEF ServiceSlots
  <2>3. \/ gui' = [gui EXCEPT !.index = gui.pos, !.pos = NServices]
        \/ gui' = [gui EXCEPT !.pos = gui.pos + 1]
    BY <1>6, <2>1 DEF LookAt, Query
  <2> QED
    BY <2>1, <2>2, <2>3 DEF Query
<1>7. CASE NotFound
  BY <1>1, <1>7, ReplyType DEF NotFound, Reply
<1>4. CASE getSubChId
  <2>1. PICK SId \in SIdAt(gui.index), SCIds \in SCIdsAt(gui.index) :
          LET k == FindComp(current, SId, SCIds)
          IN Reply(IF k = -1 \/ serviceComps[current][k].subCh = -1 THEN NoAnswer
                   ELSE [defined |-> TRUE, SId |-> SId,
                         subCh |-> serviceComps[current][k].subCh])
    BY <1>4 DEF getSubChId
  <2> DEFINE k == FindComp(current, SId, SCIds)
             a == IF k = -1 \/ serviceComps[current][k].subCh = -1 THEN NoAnswer
                  ELSE [defined |-> TRUE, SId |-> SId, subCh |-> serviceComps[current][k].subCh]
  <2>2. SId \in SIds \cup {NoSId}
    BY ServiceFields DEF SIdAt, TypeOK, Query
  <2>3. k # -1 => k \in CompSlots
    BY FoundComp
  <2>4. a \in Answer
    BY <1>1, <1>2, <2>2, <2>3, CompFields DEF Answer, Comp
  <2> QED
    BY <2>1, <2>4, ReplyType DEF Reply
<1>5. CASE dataforAudioService \/ dataforPacketService
  <2> DEFINE sv == services[gui.index]
             k(n) == FindComp(current, sv.SId, n)
             a(n) == [defined |-> TRUE, SId |-> sv.SId, subCh |-> serviceComps[current][k(n)].subCh]
  <2>1. sv.SId \in SIds \cup {NoSId}
    <3>1. gui.index \in ServiceSlots
      BY <1>5 DEF TypeOK, Query, dataforAudioService, dataforPacketService
    <3> QED
      BY <3>1, ServiceFields
  <2>2. ASSUME NEW n, k(n) # -1
        PROVE  a(n) \in Answer
    <3>1. k(n) \in CompSlots
      BY <2>2, FoundComp
    <3> QED
      BY <1>2, <2>1, <3>1, CompFields DEF Answer, Comp
  <2>3. Reply(NoAnswer) \/ \E n : k(n) # -1 /\ Reply(a(n))
    <3>1. CASE dataforAudioService
      BY <3>1 DEF dataforAudioService, Reply
    <3>2. CASE dataforPacketService
      BY <3>2 DEF dataforPacketService, Reply
    <3> QED
      BY <1>5, <3>1, <3>2
  <2> HIDE DEF k, a
  <2> QED
    BY <1>1, <2>2, <2>3, ReplyType DEF Reply
<1> QED
  BY <1>3, <1>4, <1>5, <1>6, <1>7 DEF Gui

-----------------------------------------------------------------------------
(* The tables.                                                             *)

\* Only FIG 0/0, 0/3 and 0/8 change a component (FIG 0/2 starts the bind
\* loop), and only FIG 0/0 and 0/1 a sub-channel.
LEMMA FigKeepsComps ==
  ASSUME NEW f \in Figs, process_FIG(f),
         ~FIG0Extension0(f), ~FIG0Extension3(f), ~FIG0Extension8(f)
  PROVE  UNCHANGED serviceComps /\ (UNCHANGED subChannels \/ FIG0Extension1(f))
BY DEF process_FIG, FIG0Extension1, FIG0Extension2, FIG0Extension18, FIG0Extension19,
       FIG1Extension0, FIG1Extension1, FIG1Extension4, FIG1Extension5, dbVars

\* What a step does to the components: one slot is filled, one component gets
\* an SCIds or a sub-channel, or a whole table is emptied.
Filled(db, k) ==
  /\ db \in Configs /\ k \in CompSlots /\ k = FreeComp(db)
  /\ \E c \in Comp :
       /\ c.inUse /\ ~Bound(db, c)
       /\ c.SId = Head(todo).SId /\ c.compNr = Head(todo).compNr
       /\ c.TMid = 0 => subChannels[db][c.subCh] /\ c.subCh \in SubChIds
       /\ c.TMid = 3 => ~c.madePublic
       /\ serviceComps' = [serviceComps EXCEPT ![db][k] = c]
  /\ todo # <<>> /\ UNCHANGED subChannels

Detailed(db, k) ==
  /\ db \in Configs /\ k \in CompSlots
  /\ \E c \in Comp :
       /\ \A f \in {"inUse", "TMid", "SId", "compNr"} : c[f] = serviceComps[db][k][f]
       /\ \/ c.subCh = serviceComps[db][k].subCh /\ c.madePublic = serviceComps[db][k].madePublic
          \/ c.subCh \in SubChIds /\ subChannels[db][c.subCh]
       /\ serviceComps' = [serviceComps EXCEPT ![db][k] = c]
  /\ UNCHANGED subChannels

Emptied(C) ==
  /\ C \subseteq Configs
  /\ serviceComps' = [c \in Configs |-> IF c \in C THEN NoComps ELSE serviceComps[c]]
  /\ subChannels' = [c \in Configs |-> IF c \in C THEN NoSubChannels ELSE subChannels[c]]

Described ==
  /\ UNCHANGED serviceComps
  /\ \A c \in Configs, s \in SubChIds : subChannels[c][s] => subChannels'[c][s]

\* A bind fills the first free slot, or changes no component.
LEMMA BindFills ==
  ASSUME TypeOK, BindNext
  PROVE  (\E db \in Configs, k \in CompSlots : Filled(db, k)) \/ Described
<1> DEFINE b == Head(todo)
           db == Base(b.CN)
           k  == FreeComp(db)
<1>1. b \in Binding
  BY DEF TypeOK, BindNext
<1>2. db \in Configs
  BY <1>1, BaseType, BindingFields
<1>3. CASE UNCHANGED serviceComps
  BY <1>3 DEF BindNext, Described
<1>4. CASE k # -1 /\ bind_audioService(b)
  <2> DEFINE c == [inUse |-> TRUE, TMid |-> 0, SId |-> b.SId, SCIds |-> 0,
                   subCh |-> b.ref, compNr |-> b.compNr, SCId |-> serviceComps[db][k].SCId,
                   madePublic |-> serviceComps[db][k].madePublic]
  <2>1. k \in CompSlots
    BY <1>4, FreeCompIsLeast
  <2>2. serviceComps[db][k] \in Comp
    BY <1>2, <2>1, CompFields
  <2>3. b.ref \in SubChIds /\ subChannels[db][b.ref]
    BY <1>1, <1>4, BindingFields DEF bind_audioService
  <2>4. c \in Comp
    BY <1>1, <2>2, <2>3, BindingFields, Slots DEF Comp, SubChRange
  <2>5. c.inUse /\ ~Bound(db, c)
    BY <1>4 DEF bind_audioService, Bound
  <2>6. serviceComps' = [serviceComps EXCEPT ![db][k] = c] /\ UNCHANGED subChannels
    BY <1>4 DEF bind_audioService, BindNext
  <2>7. Filled(db, k)
    <3>1. c.TMid # 3 /\ subChannels[db][c.subCh] /\ c.subCh \in SubChIds
      BY <2>3
    <3>2. k = FreeComp(db) /\ c.SId = Head(todo).SId /\ c.compNr = Head(todo).compNr
      OBVIOUS
    <3>3. todo # <<>>
      BY DEF BindNext
    <3> HIDE DEF c, k, db, b
    <3> QED
      BY <1>2, <2>1, <2>4, <2>5, <2>6, <3>1, <3>2, <3>3, Zenon DEF Filled
  <2> QED
    BY <1>2, <2>1, <2>7
<1>5. CASE k # -1 /\ bind_packetService(b)
  <2> DEFINE c == [inUse |-> TRUE, TMid |-> 3, SId |-> b.SId,
                   SCIds |-> IF b.compNr = 0 THEN 0 ELSE -1,
                   subCh |-> serviceComps[db][k].subCh, compNr |-> b.compNr,
                   SCId |-> b.ref, madePublic |-> FALSE]
  <2>1. k \in CompSlots
    BY <1>5, FreeCompIsLeast
  <2>2. serviceComps' = [serviceComps EXCEPT ![db][k] = c] /\ UNCHANGED subChannels
    BY <1>5 DEF bind_packetService, BindNext
  <2>3. c \in Comp
    <3>1. serviceComps'[db][k] = c
      BY <1>2, <2>1, <2>2 DEF TypeOK
    <3>2. serviceComps' \in [Configs -> [CompSlots -> Comp]]
      BY BindType DEF TypeOK
    <3> QED
      BY <1>2, <2>1, <3>1, <3>2
  <2>4. c.inUse /\ ~Bound(db, c)
    BY <1>5 DEF bind_packetService, Bound
  <2>5. Filled(db, k)
    <3>1. c.TMid # 0 /\ ~c.madePublic
      OBVIOUS
    <3>2. k = FreeComp(db) /\ c.SId = Head(todo).SId /\ c.compNr = Head(todo).compNr
      OBVIOUS
    <3>3. todo # <<>>
      BY DEF BindNext
    <3> HIDE DEF c, k, db, b
    <3> QED
      BY <1>2, <2>1, <2>2, <2>3, <2>4, <3>1, <3>2, <3>3, Zenon DEF Filled
  <2> QED
    BY <1>2, <2>1, <2>5
<1> QED
  BY <1>3, <1>4, <1>5 DEF BindNext, bind_audioService, bind_packetService, bind_nothing

\* FIG 0/3 and FIG 0/8 add details to one component, or change none.
LEMMA FigDetails ==
  ASSUME TypeOK, NEW f \in Figs, FIG0Extension3(f) \/ FIG0Extension8(f)
  PROVE  (\E db \in Configs, k \in CompSlots : Detailed(db, k)) \/ Described
<1> DEFINE db == Base(f.CN)
<1>1. CASE UNCHANGED serviceComps
  BY <1>1 DEF FIG0Extension3, FIG0Extension8, Described
<1>2. CASE FIG0Extension3(f) /\ ~UNCHANGED serviceComps
  <2> DEFINE k == FindBySCId(db, f.SCId)
             c == [serviceComps[db][k] EXCEPT !.madePublic = TRUE, !.subCh = f.subChId]
  <2>1. db \in Configs /\ f.subChId \in SubChIds
    BY <1>2, FigFields, BaseType DEF FIG0Extension3
  <2>2. k # -1 /\ subChannels[db][f.subChId] /\ UNCHANGED subChannels
    BY <1>2 DEF FIG0Extension3
  <2>3. k \in CompSlots /\ serviceComps[db][k] \in Comp
    BY <2>1, <2>2, FoundBySCId, CompFields
  <2>4. c \in Comp /\ c.subCh = f.subChId
    <3>1. \A d \in Comp, x \in SubChRange :
            LET e == [d EXCEPT !.madePublic = TRUE, !.subCh = x]
            IN e \in Comp /\ e.subCh = x
      BY DEF Comp
    <3>2. f.subChId \in SubChRange
      BY <2>1 DEF SubChRange
    <3> HIDE DEF db, k
    <3> QED
      BY <2>3, <3>1, <3>2
  <2>5. serviceComps' = [serviceComps EXCEPT ![db][k] = c]
    BY <1>2, <2>1, <2>3 DEF FIG0Extension3, TypeOK
  <2>6. \A x \in {"inUse", "TMid", "SId", "compNr"} : c[x] = serviceComps[db][k][x]
    BY <2>3 DEF Comp
  <2> HIDE DEF c, k, db
  <2>7. Detailed(db, k)
    BY <2>1, <2>2, <2>3, <2>4, <2>5, <2>6, Zenon DEF Detailed
  <2> QED
    BY <2>1, <2>3, <2>7
<1>3. CASE FIG0Extension8(f) /\ ~UNCHANGED serviceComps
  <2> DEFINE k == IF f.form = "long" THEN FindBySCId(db, f.ref)
                  ELSE IF subChannels[db][f.ref] THEN FindBySubCh(db, f.SId, f.ref)
                  ELSE -1
             c == [serviceComps[db][k] EXCEPT !.SCIds = f.SCIds]
  <2>1. db \in Configs /\ f.SCIds \in SCIdsRange
    BY <1>3, FigFields, BaseType, Slots DEF FIG0Extension8
  <2>2. k # -1 /\ UNCHANGED subChannels
    BY <1>3 DEF FIG0Extension8
  <2>3. k \in CompSlots
    BY <2>2, FoundBySCId, FoundBySubCh
  <2>4. serviceComps' = [serviceComps EXCEPT ![db][k].SCIds = f.SCIds]
    BY <2>2, <1>3 DEF FIG0Extension8
  <2> HIDE DEF k, db
  <2>5. serviceComps[db][k] \in Comp
    BY <2>1, <2>3, CompFields
  <2>6. c \in Comp
    BY <2>1, <2>5 DEF Comp
  <2>7. /\ \A x \in {"inUse", "TMid", "SId", "compNr"} : c[x] = serviceComps[db][k][x]
        /\ c.subCh = serviceComps[db][k].subCh /\ c.madePublic = serviceComps[db][k].madePublic
    BY <2>5 DEF Comp
  <2>8. serviceComps' = [serviceComps EXCEPT ![db][k] = c]
    BY <2>1, <2>3, <2>4 DEF TypeOK
  <2> HIDE DEF c
  <2>9. Detailed(db, k)
    BY <2>1, <2>2, <2>3, <2>6, <2>7, <2>8, Zenon DEF Detailed
  <2> QED
    BY <2>1, <2>3, <2>9
<1> QED
  BY <1>1, <1>2, <1>3

\* FIG 0/0 empties the configuration given up, or changes nothing.
LEMMA ChangeEmpties ==
  ASSUME TypeOK, NEW f \in Figs, FIG0Extension0(f)
  PROVE  (\E C \in SUBSET Configs : Emptied(C)) \/ Described
<1>1. CASE ~ChangeConfig(f)
  BY <1>1 DEF FIG0Extension0, Described
<1>2. CASE ChangeConfig(f)
  <2>1. Emptied({current})
    BY <1>2 DEF FIG0Extension0, Emptied, TypeOK
  <2> QED
    BY <2>1 DEF TypeOK
<1> QED
  BY <1>1, <1>2

\* Every step does one of these four things to the component tables.
LEMMA StepOnComps ==
  ASSUME TypeOK, [AnyNext]_vars
  PROVE  \/ \E db \in Configs, k \in CompSlots : Filled(db, k) \/ Detailed(db, k)
         \/ \E C \in SUBSET Configs : Emptied(C)
         \/ Described
<1>1. CASE UNCHANGED <<serviceComps, subChannels>>
  BY <1>1 DEF Described
<1>2. CASE BindNext
  BY <1>2, BindFills
<1>3. ASSUME NEW f \in Figs, process_FIG(f)
      PROVE  \/ \E db \in Configs, k \in CompSlots : Filled(db, k) \/ Detailed(db, k)
             \/ \E C \in SUBSET Configs : Emptied(C)
             \/ Described
  <2>1. CASE FIG0Extension0(f)
    BY <2>1, ChangeEmpties
  <2>2. CASE FIG0Extension3(f) \/ FIG0Extension8(f)
    BY <2>2, FigDetails
  <2>3. CASE FIG0Extension1(f)
    BY <2>3 DEF FIG0Extension1, Described, TypeOK
  <2>4. CASE ~(FIG0Extension0(f) \/ FIG0Extension1(f) \/ FIG0Extension3(f) \/ FIG0Extension8(f))
    BY <1>3, <2>4, FigKeepsComps DEF Described
  <2> QED
    BY <2>1, <2>2, <2>3, <2>4
<1>4. CASE Restart \/ Stop
  <2>1. Emptied(Configs)
    BY <1>4 DEF Restart, Stop, ResetAll, Emptied
  <2> QED
    BY <2>1
<1>5. CASE BeginFIB \/ EndFIB \/ Gui
  BY <1>5, <1>1 DEF BeginFIB, EndFIB, Gui, Lookup, LookAt, NotFound, guiOnly, getSubChId,
     dataforAudioService, dataforPacketService, dbVars
<1> QED
  BY <1>1, <1>2, <1>3, <1>4, <1>5 DEF AnyNext, Received, vars, dbVars

\* The three invariants of the component tables, inductive only together
\* with TypeOK.
Tables == CompsDense /\ CompsUnique /\ CompsHaveSubChannel

\* Filling the first free slot with a component not bound before leaves the
\* table dense, without duplicates and on described sub-channels.
LEMMA FilledKeepsTables ==
  ASSUME TypeOK, Tables, NEW db \in Configs, NEW k \in CompSlots, Filled(db, k)
  PROVE  Tables'
<1>1. PICK c \in Comp :
        /\ c.inUse /\ ~Bound(db, c)
        /\ c.TMid = 0 => subChannels[db][c.subCh] /\ c.subCh \in SubChIds
        /\ c.TMid = 3 => ~c.madePublic
        /\ serviceComps' = [serviceComps EXCEPT ![db][k] = c]
  BY Zenon DEF Filled
<1>2. \A x \in Configs, i \in CompSlots :
        serviceComps'[x][i] = IF x = db /\ i = k THEN c ELSE serviceComps[x][i]
  BY <1>1 DEF TypeOK
<1>3. ~serviceComps[db][k].inUse /\ \A j \in CompSlots : j < k => serviceComps[db][j].inUse
  BY FreeCompIsLeast, Slots DEF Filled
<1>4. UNCHANGED subChannels
  BY DEF Filled
<1>5. CompsDense'
  <2> SUFFICES ASSUME NEW x \in Configs, NEW i \in CompSlots, serviceComps'[x][i].inUse,
                      NEW j \in 0 .. i
               PROVE  serviceComps'[x][j].inUse
    BY DEF CompsDense, Reached
  <2>1. j \in CompSlots /\ j \in Nat /\ i \in Nat /\ k \in Nat
    BY SizesAssumption DEF CompSlots
  <2>2. CASE x = db /\ j = k
    BY <1>1, <1>2, <2>1, <2>2
  <2>3. CASE x = db /\ i = k /\ j # k
    BY <1>2, <1>3, <2>1, <2>3
  <2>4. CASE ~(x = db /\ (i = k \/ j = k))
    BY <1>2, <2>1, <2>4 DEF Tables, CompsDense, Reached
  <2> QED
    BY <2>2, <2>3, <2>4
<1>6. CompsUnique'
  <2>1. \A i \in CompSlots : serviceComps[db][i].inUse
          => serviceComps[db][i].SId # c.SId \/ serviceComps[db][i].compNr # c.compNr
    BY <1>1 DEF Bound, Tables, CompsDense
  <2> SUFFICES ASSUME NEW x \in Configs, NEW i \in CompSlots, NEW j \in CompSlots,
                      serviceComps'[x][i].inUse, serviceComps'[x][j].inUse,
                      serviceComps'[x][i].SId = serviceComps'[x][j].SId,
                      serviceComps'[x][i].compNr = serviceComps'[x][j].compNr
               PROVE  i = j
    BY DEF CompsUnique
  <2>2. CASE x = db /\ i = k /\ j # k
    BY <1>2, <2>1, <2>2
  <2>3. CASE x = db /\ j = k /\ i # k
    BY <1>2, <2>1, <2>3
  <2>4. CASE x # db \/ (i # k /\ j # k)
    BY <1>2, <2>4 DEF Tables, CompsUnique
  <2> QED
    BY <2>2, <2>3, <2>4
<1>7. CompsHaveSubChannel'
  <2> SUFFICES ASSUME NEW x \in Configs, NEW i \in CompSlots, serviceComps'[x][i].inUse,
                      serviceComps'[x][i].TMid = 0 \/ serviceComps'[x][i].madePublic
               PROVE  /\ serviceComps'[x][i].subCh \in SubChIds
                      /\ subChannels[x][serviceComps'[x][i].subCh]
    BY <1>4 DEF CompsHaveSubChannel
  <2>1. CASE x = db /\ i = k
    <3>1. c.TMid \in {0, 3}
      BY DEF Comp
    <3> QED
      BY <1>1, <1>2, <2>1, <3>1
  <2>2. CASE ~(x = db /\ i = k)
    BY <1>2, <2>2 DEF Tables, CompsHaveSubChannel
  <2> QED
    BY <2>1, <2>2
<1> QED
  BY <1>5, <1>6, <1>7 DEF Tables

\* Adding details to a component does not disturb the tables.
LEMMA DetailedKeepsTables ==
  ASSUME TypeOK, Tables, NEW db \in Configs, NEW k \in CompSlots, Detailed(db, k)
  PROVE  Tables'
<1>1. PICK c \in Comp :
        /\ \A f \in {"inUse", "TMid", "SId", "compNr"} : c[f] = serviceComps[db][k][f]
        /\ \/ c.subCh = serviceComps[db][k].subCh /\ c.madePublic = serviceComps[db][k].madePublic
           \/ c.subCh \in SubChIds /\ subChannels[db][c.subCh]
        /\ serviceComps' = [serviceComps EXCEPT ![db][k] = c]
  BY Zenon DEF Detailed
<1>2. \A x \in Configs, i \in CompSlots :
        serviceComps'[x][i] = IF x = db /\ i = k THEN c ELSE serviceComps[x][i]
  BY <1>1 DEF TypeOK
<1>3. /\ c.inUse = serviceComps[db][k].inUse /\ c.TMid = serviceComps[db][k].TMid
      /\ c.SId = serviceComps[db][k].SId /\ c.compNr = serviceComps[db][k].compNr
  BY <1>1
<1>4. \A x \in Configs, i \in CompSlots :
        /\ serviceComps'[x][i].inUse = serviceComps[x][i].inUse
        /\ serviceComps'[x][i].TMid = serviceComps[x][i].TMid
        /\ serviceComps'[x][i].SId = serviceComps[x][i].SId
        /\ serviceComps'[x][i].compNr = serviceComps[x][i].compNr
  BY <1>2, <1>3
<1>5. UNCHANGED subChannels
  BY DEF Detailed
<1>6. \A i \in CompSlots : 0 .. i \subseteq CompSlots
  BY SizesAssumption DEF CompSlots
<1>7. CompsDense'
  BY <1>4, <1>6 DEF Tables, CompsDense, Reached
<1>8. CompsUnique'
  BY <1>4 DEF Tables, CompsUnique
<1>9. CompsHaveSubChannel'
  <2> SUFFICES ASSUME NEW x \in Configs, NEW i \in CompSlots, serviceComps'[x][i].inUse,
                      serviceComps'[x][i].TMid = 0 \/ serviceComps'[x][i].madePublic
               PROVE  /\ serviceComps'[x][i].subCh \in SubChIds
                      /\ subChannels[x][serviceComps'[x][i].subCh]
    BY <1>5 DEF CompsHaveSubChannel
  <2>1. CASE x = db /\ i = k
    BY <1>1, <1>2, <1>3, <2>1 DEF Tables, CompsHaveSubChannel
  <2>2. CASE ~(x = db /\ i = k)
    BY <1>2, <2>2 DEF Tables, CompsHaveSubChannel
  <2> QED
    BY <2>1, <2>2
<1> QED
  BY <1>7, <1>8, <1>9 DEF Tables

\* Emptying a configuration, its sub-channels with its components, does not
\* disturb the tables.
LEMMA EmptiedKeepsTables ==
  ASSUME TypeOK, Tables, NEW C \in SUBSET Configs, Emptied(C)
  PROVE  Tables'
<1>1. \A x \in Configs, i \in CompSlots :
        IF x \in C THEN ~serviceComps'[x][i].inUse
        ELSE serviceComps'[x][i] = serviceComps[x][i] /\ subChannels'[x] = subChannels[x]
  BY DEF Emptied, NoComps, NoComp
<1>2. \A i \in CompSlots : 0 .. i \subseteq CompSlots
  BY SizesAssumption DEF CompSlots
<1>3. CompsDense'
  BY <1>1, <1>2 DEF Tables, CompsDense, Reached
<1>4. CompsUnique'
  BY <1>1 DEF Tables, CompsUnique
<1>5. CompsHaveSubChannel'
  BY <1>1 DEF Tables, CompsHaveSubChannel
<1> QED
  BY <1>3, <1>4, <1>5 DEF Tables

\* Describing a further sub-channel does not disturb the tables.
LEMMA DescribedKeepsTables ==
  ASSUME Tables, Described
  PROVE  Tables'
<1>1. CompsDense' /\ CompsUnique'
  BY DEF Tables, Described, CompsDense, CompsUnique, Reached
<1>2. CompsHaveSubChannel'
  BY DEF Tables, Described, CompsHaveSubChannel
<1> QED
  BY <1>1, <1>2 DEF Tables

\* Whatever the next step is, the component tables stay dense, free of
\* duplicates and tied to described sub-channels.
LEMMA StepKeepsTables ==
  ASSUME TypeOK, Tables, [AnyNext]_vars
  PROVE  Tables'
<1>1. ASSUME NEW db \in Configs, NEW k \in CompSlots, Filled(db, k) \/ Detailed(db, k)
      PROVE  Tables'
  BY <1>1, FilledKeepsTables, DetailedKeepsTables
<1>2. ASSUME NEW C \in SUBSET Configs, Emptied(C)
      PROVE  Tables'
  BY <1>2, EmptiedKeepsTables
<1>3. CASE Described
  BY <1>3, DescribedKeepsTables
<1> QED
  BY <1>1, <1>2, <1>3, StepOnComps

-----------------------------------------------------------------------------
(* The names of the services, and the search of the GUI thread.            *)

\* A slot gets another label only with a new service, when it was free.
LabelsStay ==
  \A i \in ServiceSlots :
    services'[i].label # services[i].label => ~services[i].inUse /\ services'[i].inUse

\* The services in use stay and keep their SIds, and a new one takes a slot with
\* none free in front of it.
ServicesGrow ==
  \A i \in ServiceSlots :
    /\ services[i].inUse => services'[i].inUse /\ services'[i].SId = services[i].SId
    /\ services'[i].inUse /\ ~services[i].inUse
       => \A j \in ServiceSlots : j < i => services[j].inUse

\* createService writes the slot it takes, the first that is free, and no other.
LEMMA CreatedKeepsLabels ==
  ASSUME TypeOK, NEW SId, NEW SCIds, NEW label, services' = Created(SId, SCIds, label)
  PROVE  LabelsStay /\ ServicesGrow
<1>1. CASE FreeService = -1
  BY <1>1 DEF Created, LabelsStay, ServicesGrow
<1>2. CASE FreeService # -1
  <2>1. FreeService \in ServiceSlots /\ ~services[FreeService].inUse
    BY <1>2, FreeServiceIsFree
  <2>2. \A i \in ServiceSlots : i # FreeService => services'[i] = services[i]
    BY <1>2 DEF Created, TypeOK
  <2>3. services'[FreeService].inUse
    BY <1>2, <2>1 DEF Created, TypeOK
  <2>4. \A j \in ServiceSlots : j < FreeService => services[j].inUse
    BY <1>2, FreeServiceIsFree
  <2> QED
    BY <2>1, <2>2, <2>3, <2>4 DEF LabelsStay, ServicesGrow
<1> QED
  BY <1>1, <1>2

\* The bind functions and FIG 0/3 mark a service as shown, FIG 1/1 resets
\* its SCIds: none of them touches its slot or its label.
LEMMA EditKeepsLabels ==
  ASSUME TypeOK, NEW s \in ServiceSlots,
         \/ services' = services
         \/ services' = [services EXCEPT ![s].isShown = TRUE]
         \/ services' = [services EXCEPT ![s].SCIds = 0, ![s].isShown = TRUE]
         \/ services' = [services EXCEPT ![s].SCIds = 0, ![s].hasName = TRUE]
  PROVE  LabelsStay /\ ServicesGrow
<1>1. services \in [ServiceSlots -> Service]
  BY DEF TypeOK
<1>2. \A i \in ServiceSlots : /\ services'[i].label = services[i].label
                               /\ services'[i].SId = services[i].SId
                               /\ services'[i].inUse = services[i].inUse
  BY <1>1 DEF Service
<1> QED
  BY <1>2 DEF LabelsStay, ServicesGrow

\* FIG 0/2 keeps the labels of the services.
LEMMA BindKeepsLabels ==
  ASSUME TypeOK, BindNext
  PROVE  LabelsStay /\ ServicesGrow
<1> DEFINE b == Head(todo)
           s == FindService(b.SId)
<1>1. \/ services' = services
      \/ /\ s # -1
         /\ \/ services' = [services EXCEPT ![s].isShown = TRUE]
            \/ services' = [services EXCEPT ![s].SCIds = 0, ![s].isShown = TRUE]
  BY DEF BindNext, bind_audioService, bind_packetService, bind_nothing
<1>2. s # -1 => s \in ServiceSlots
  BY FoundService
<1> HIDE DEF s
<1>3. CASE services' = services
  BY <1>3 DEF LabelsStay, ServicesGrow
<1> QED
  BY <1>1, <1>2, <1>3, EditKeepsLabels

\* cleanupServiceList gives slots up and leaves their labels there.
LEMMA CleanupKeepsLabels ==
  ASSUME TypeOK, NEW f, FIG0Extension0(f)
  PROVE  LabelsStay
<1>1. CASE UNCHANGED services
  BY <1>1 DEF LabelsStay
<1>2. CASE cleanupServiceList(next)
  <2> DEFINE kept == Healthy(next)
  <2>1. services' = [i \in ServiceSlots |->
                       [services[i] EXCEPT !.inUse = services[i].inUse /\ kept[i]]]
    BY <1>2 DEF cleanupServiceList
  <2> HIDE DEF kept
  <2>2. \A i \in ServiceSlots : services[i] \in Service
    BY DEF TypeOK
  <2>3. \A i \in ServiceSlots : services'[i].label = services[i].label
    BY <2>1, <2>2 DEF Service
  <2> QED
    BY <2>3 DEF LabelsStay
<1> QED
  BY <1>1, <1>2 DEF FIG0Extension0

\* A FIG keeps the labels, whichever it is, and all but FIG 0/0 the services.
LEMMA FigKeepsLabels ==
  ASSUME TypeOK, NEW f \in Figs, process_FIG(f)
  PROVE  LabelsStay /\ (ServicesGrow \/ (FIG0Extension0(f) /\ ChangeConfig(f)))
<1>1. CASE UNCHANGED services
  BY <1>1 DEF LabelsStay, ServicesGrow
<1>2. CASE FIG0Extension0(f)
  BY <1>1, <1>2, CleanupKeepsLabels DEF FIG0Extension0
<1>3. CASE FIG0Extension3(f)
  <2> DEFINE s == FindService(serviceComps[Base(f.CN)][FindBySCId(Base(f.CN), f.SCId)].SId)
  <2>1. services' = services \/ (s # -1 /\ services' = [services EXCEPT ![s].isShown = TRUE])
    BY <1>3 DEF FIG0Extension3
  <2>2. s # -1 => s \in ServiceSlots
    BY FoundService
  <2> HIDE DEF s
  <2> QED
    BY <1>1, <2>1, <2>2, EditKeepsLabels
<1>4. CASE FIG1Extension1(f)
  <2> DEFINE s == FindByName(f.label)
  <2>1. \/ services' = Created(f.SId, 0, f.label)
        \/ s # -1 /\ services' = [services EXCEPT ![s].SCIds = 0, ![s].hasName = TRUE]
    BY <1>4 DEF FIG1Extension1
  <2>2. s # -1 => s \in ServiceSlots
    BY FoundByName
  <2> HIDE DEF s
  <2> QED
    BY <2>1, <2>2, EditKeepsLabels, CreatedKeepsLabels
<1>5. CASE FIG1Extension4(f)
  <2>1. services' = services \/ services' = Created(f.SId, f.SCIds, f.label)
    BY <1>5 DEF FIG1Extension4
  <2> QED
    BY <1>1, <2>1, CreatedKeepsLabels
<1>6. CASE FIG1Extension5(f)
  <2>1. services' = services \/ services' = Created(f.SId, 0, f.label)
    BY <1>6 DEF FIG1Extension5
  <2> QED
    BY <1>1, <2>1, CreatedKeepsLabels
<1>7. CASE ~(\/ FIG0Extension0(f) \/ FIG0Extension3(f) \/ FIG1Extension1(f)
             \/ FIG1Extension4(f) \/ FIG1Extension5(f))
  BY <1>1, <1>7 DEF process_FIG, FIG0Extension1, FIG0Extension2, FIG0Extension8,
                    FIG0Extension18, FIG0Extension19, FIG1Extension0, dbVars
<1> QED
  BY <1>2, <1>3, <1>4, <1>5, <1>6, <1>7

\* Every step within a channel keeps the labels; it is remembered, or it is
\* none of the FIC thread's and leaves the services alone.
LEMMA StepKeepsLabels ==
  ASSUME TypeOK, [AnyNext]_vars
  PROVE  \/ Restart \/ Stop
         \/ /\ LabelsStay
            /\ ServicesGrow \/ cleanupServiceList(next)
            /\ Remember \/ UNCHANGED <<services, before, freed>>
<1>1. ASSUME UNCHANGED services
      PROVE  LabelsStay /\ ServicesGrow
  BY <1>1 DEF LabelsStay, ServicesGrow
<1>2. CASE BeginFIB \/ EndFIB
  BY <1>1, <1>2 DEF BeginFIB, EndFIB, dbVars
<1>3. CASE Gui
  BY <1>1, <1>3 DEF Gui, Lookup, LookAt, NotFound, guiOnly, getSubChId, dataforAudioService,
     dataforPacketService, dbVars
<1>4. CASE BindNext
  BY <1>4, BindKeepsLabels DEF BindNext
<1>5. ASSUME NEW f \in Figs, process_FIG(f)
      PROVE  LabelsStay /\ Remember /\ (ServicesGrow \/ cleanupServiceList(next))
  BY <1>5, FigKeepsLabels DEF process_FIG, FIG0Extension0
<1>6. CASE UNCHANGED vars
  BY <1>1, <1>6 DEF vars, dbVars
<1> QED
  BY <1>2, <1>3, <1>4, <1>5, <1>6 DEF AnyNext, Received

\* A slot that no reconfiguration gave up in this channel: it has no label before
\* it is in use, and a search under way reads there what is true, or nothing.
SlotsFresh ==
  \A i \in ServiceSlots \ freed :
    /\ ~services[i].inUse => services[i].label = NoLabel
    /\ before[i].inUse => services[i].inUse
    /\ before[i].label \in {NoLabel, services[i].label}

\* Every step keeps that.
LEMMA StepKeepsFresh ==
  ASSUME TypeOK, SlotsFresh, [AnyNext]_vars
  PROVE  SlotsFresh'
<1>1. CASE Restart \/ Stop
  BY <1>1 DEF Restart, Stop, ResetAll, SlotsFresh, NoServices, NoService
<1>2. CASE UNCHANGED <<services, before, freed>>
  BY <1>2 DEF SlotsFresh
<1>3. CASE LabelsStay /\ Remember
  <2> SUFFICES ASSUME NEW i \in ServiceSlots, i \notin freed'
               PROVE  /\ ~services'[i].inUse => services'[i].label = NoLabel
                      /\ before'[i].inUse => services'[i].inUse
                      /\ before'[i].label \in {NoLabel, services'[i].label}
    BY DEF SlotsFresh
  <2>1. i \notin freed /\ (services[i].inUse => services'[i].inUse)
    BY <1>3 DEF Remember
  <2>2. ~services[i].inUse => services[i].label = NoLabel
    BY <2>1 DEF SlotsFresh
  <2>3. services'[i].label # services[i].label => ~services[i].inUse /\ services'[i].inUse
    BY <1>3 DEF LabelsStay
  <2>4. before' = services \/ before' = services'
    BY <1>3 DEF Remember
  <2> QED
    BY <2>1, <2>2, <2>3, <2>4
<1> QED
  BY <1>1, <1>2, <1>3, StepKeepsLabels

\* The GUI asks for services that have a name.
Asking == gui.op # "idle" => gui.name # NoLabel

\* What a step does to the query.
Asked    == \E op \in GuiOps, s \in Labels, n \in CompNrs : Lookup(op, s, n)
Answered == gui'.op = "idle"

\* What a step does to the query: nothing, open it, look at a slot, or close it.
LEMMA StepOnGui ==
  ASSUME TypeOK, [AnyNext]_vars
  PROVE  UNCHANGED gui \/ Asked \/ LookAt \/ Answered
<1>1. CASE Gui
  <2>1. ASSUME NEW a, Reply(a)
        PROVE  Answered
    BY <2>1 DEF Reply, Answered, Idle
  <2>2. CASE getSubChId
    BY <2>1, <2>2, Zenon DEF getSubChId
  <2>3. CASE dataforAudioService
    BY <2>1, <2>3 DEF dataforAudioService
  <2>4. CASE dataforPacketService
    BY <2>1, <2>4, Zenon DEF dataforPacketService
  <2>5. CASE NotFound
    BY <2>1, <2>5 DEF NotFound
  <2> QED
    BY <1>1, <2>2, <2>3, <2>4, <2>5 DEF Gui, Asked
<1>2. CASE Restart \/ Stop
  BY <1>2 DEF Restart, Stop, ResetAll
<1>3. CASE BeginFIB \/ EndFIB \/ BindNext
  BY <1>3 DEF BeginFIB, EndFIB, BindNext
<1>4. ASSUME NEW f \in Figs, process_FIG(f)
      PROVE  UNCHANGED gui
  BY <1>4 DEF process_FIG, FIG0Extension0, FIG0Extension1, FIG0Extension2, FIG0Extension3,
       FIG0Extension8, FIG0Extension18, FIG0Extension19, FIG1Extension0, FIG1Extension1,
       FIG1Extension4, FIG1Extension5
<1> QED
  BY <1>1, <1>2, <1>3, <1>4 DEF AnyNext, Received, vars

\* The slot found keeps the name asked for unless it is given up, and the
\* search finds no slot under a label it does not have, or not yet.
LEMMA StepKeepsIndex ==
  ASSUME TypeOK, SlotsFresh, Asking, IndexStable, [AnyNext]_vars
  PROVE  Asking' /\ IndexStable'
<1>1. gui \in Query
  BY DEF TypeOK
<1>2. gui.index # -1 => gui.index \in ServiceSlots
  BY <1>1 DEF Query
<1>3. CASE UNCHANGED gui /\ (Restart \/ Stop)
  BY <1>3 DEF Restart, Stop, Asking, IndexStable
<1>4. CASE UNCHANGED gui /\ UNCHANGED <<services, before, freed>>
  BY <1>4 DEF Asking, IndexStable
<1>5. CASE UNCHANGED gui /\ LabelsStay /\ Remember
  <2> SUFFICES ASSUME gui.op # "idle", gui.index # -1, gui.index \notin freed'
               PROVE  services'[gui.index].inUse /\ services'[gui.index].label = gui.name
    BY <1>5 DEF Asking, IndexStable
  <2>1. services[gui.index].inUse /\ services[gui.index].label = gui.name
    BY <1>5 DEF Remember, IndexStable
  <2>2. services'[gui.index].inUse
    BY <1>2, <1>5, <2>1 DEF Remember
  <2> QED
    BY <1>2, <1>5, <2>1, <2>2 DEF LabelsStay
<1>6. CASE Asked
  <2>1. PICK op \in GuiOps, s \in Labels, n \in CompNrs : Lookup(op, s, n)
    BY <1>6 DEF Asked
  <2>2. gui'.name = s /\ gui'.index = -1
    BY <2>1 DEF Lookup, Idle
  <2> QED
    BY <2>2, NamesAssumption DEF Asking, IndexStable
<1>7. CASE LookAt
  <2>1. UNCHANGED <<services, freed>> /\ gui.pos \in ServiceSlots /\ gui.op # "idle"
    <3>1. gui.pos \in 0 .. NServices /\ gui.pos < NServices
      BY <1>1, <1>7 DEF LookAt, Query
    <3> QED
      BY <1>7, <3>1, SizesAssumption DEF LookAt, guiOnly, dbVars, ServiceSlots
  <2>2. PICK inUse \in SeenInUse(gui.pos), label \in SeenLabel(gui.pos) :
          gui' = IF inUse /\ label = gui.name
                 THEN [gui EXCEPT !.index = gui.pos, !.pos = NServices]
                 ELSE [gui EXCEPT !.pos = gui.pos + 1]
    BY <1>1, <1>7 DEF LookAt, Query
  <2>3. CASE inUse /\ label = gui.name
    <3>1. /\ gui' = [gui EXCEPT !.index = gui.pos, !.pos = NServices]
          /\ gui'.index = gui.pos /\ gui'.name = gui.name /\ gui'.op = gui.op
      BY <1>1, <2>2, <2>3 DEF Query
    <3>2. gui.pos \notin freed => /\ services[gui.pos].inUse
                                  /\ services[gui.pos].label = gui.name
      BY <2>1, <2>3 DEF SlotsFresh, SeenInUse, SeenLabel, Asking
    <3> QED
      BY <2>1, <3>1, <3>2 DEF Asking, IndexStable
  <2>4. CASE ~(inUse /\ label = gui.name)
    <3>1. gui'.index = gui.index /\ gui'.name = gui.name /\ gui'.op = gui.op
      BY <1>1, <2>2, <2>4 DEF Query
    <3> QED
      BY <2>1, <3>1 DEF Asking, IndexStable
  <2> QED
    BY <2>3, <2>4
<1>8. CASE Answered
  BY <1>8 DEF Answered, Asking, IndexStable
<1>9. UNCHANGED gui \/ Asked \/ LookAt \/ Answered
  BY StepOnGui
<1>10. \/ Restart \/ Stop
       \/ /\ LabelsStay
          /\ Remember \/ UNCHANGED <<services, before, freed>>
  BY StepKeepsLabels
<1> QED
  BY <1>3, <1>4, <1>5, <1>6, <1>7, <1>8, <1>9, <1>10

-----------------------------------------------------------------------------
(* The inductive invariant and the theorems.                               *)

\* Of the properties of fib-decoder.cpp proved here only Tables is inductive
\* over the types alone; IndexStable needs SlotsFresh, since the search reads
\* the slots while they are written.
IInv == TypeOK /\ Tables /\ SlotsFresh /\ Asking /\ IndexStable

\* The program starts with empty tables and no query.
LEMMA InitInvariant == Init => IInv
<1> SUFFICES ASSUME Init
             PROVE  IInv
  OBVIOUS
<1>1. TypeOK
  BY InitType
<1>2. Asking /\ IndexStable
  BY DEF Init, Idle, Asking, IndexStable
<1>3. \A c \in Configs, i \in CompSlots : ~serviceComps[c][i].inUse
  BY DEF Init, NoComps, NoComp
<1>4. Tables
  BY <1>3 DEF Tables, CompsDense, CompsUnique, CompsHaveSubChannel
<1>5. SlotsFresh
  BY DEF Init, SlotsFresh, NoServices, NoService
<1> QED
  BY <1>1, <1>2, <1>4, <1>5 DEF IInv

\* Every handler keeps the types of the tables.
LEMMA StepKeepsTypes ==
  ASSUME TypeOK, [AnyNext]_vars
  PROVE  TypeOK'
<1>1. CASE BeginFIB \/ EndFIB
  <2>1. services' = services /\ Remember
    BY <1>1 DEF BeginFIB, EndFIB, dbVars
  <2>2. before' \in [ServiceSlots -> Service] /\ freed' \subseteq ServiceSlots
    BY <2>1, RememberType DEF TypeOK
  <2> QED
    BY <1>1, <2>2 DEF BeginFIB, EndFIB, TypeOK, dbVars
<1>2. CASE Gui
  <2>1. UNCHANGED <<running, inFib, todo, dbVars, before, freed>>
    BY <1>2 DEF Gui, Lookup, LookAt, NotFound, guiOnly, getSubChId, dataforAudioService,
       dataforPacketService
  <2>2. gui' \in Query
    BY <1>2, GuiType
  <2> QED
    BY <2>1, <2>2 DEF TypeOK, dbVars
<1>3. CASE UNCHANGED vars
  BY <1>3 DEF TypeOK, vars, dbVars
<1> QED
  BY <1>1, <1>2, <1>3, BindType, ProcessFIGType, ChannelType DEF AnyNext, Received

\* Every step, of either thread, keeps the invariant.
LEMMA NextInvariant == IInv /\ [AnyNext]_vars => IInv'
BY StepKeepsTypes, StepKeepsTables, StepKeepsFresh, StepKeepsIndex DEF IInv

\* The invariant holds in every state of every execution.
LEMMA InvariantHolds == Spec => []IInv
<1>1. Init => IInv
  BY InitInvariant
<1>2. IInv /\ [AnyNext]_vars => IInv'
  BY NextInvariant
<1> QED
  BY <1>1, <1>2, AirIsOfFigs, PTL DEF AnySpec

\* For every transmitter (any set of FIGs in any order, lost and repeated),
\* any table sizes and any timing of the two threads, every value the
\* handlers of fib-decoder.cpp write is one of its table's.
THEOREM TypeCorrect == Spec => []TypeOK
<1>1. IInv => TypeOK
  BY DEF IInv
<1> QED
  BY <1>1, InvariantHolds, PTL

\* The component tables never have a hole: findServiceComponent,
\* findComponent and the bind functions, which stop at the first free slot,
\* see every component.
THEOREM NoHoles == Spec => []CompsDense
<1>1. IInv => CompsDense
  BY DEF IInv, Tables
<1> QED
  BY <1>1, InvariantHolds, PTL

\* However often FIG 0/2 is repeated, bind_audioService and
\* bind_packetService enter a component once.
THEOREM NoDuplicates == Spec => []CompsUnique
<1>1. IInv => CompsUnique
  BY DEF IInv, Tables
<1> QED
  BY <1>1, InvariantHolds, PTL

\* Every component the GUI can select lies on a sub-channel that FIG 0/1
\* described in the same configuration.
THEOREM SubChannelsInUse == Spec => []CompsHaveSubChannel
<1>1. IInv => CompsHaveSubChannel
  BY DEF IInv, Tables
<1> QED
  BY <1>1, InvariantHolds, PTL

\* The slot that findService (name) delivers to getSubChId, dataforAudioService
\* and dataforPacketService, which call it without fibLocker, names the service
\* asked for, whatever handlers the FIC thread is in the midst of during the
\* search and runs after it, unless a reconfiguration gave that slot up.
THEOREM IndexStays == Spec => []IndexStable
<1>1. IInv => IndexStable
  BY DEF IInv
<1> QED
  BY <1>1, InvariantHolds, PTL

-----------------------------------------------------------------------------
(* cleanupServiceList: the services that a reconfiguration leaves.          *)

\* The slots that cleanupServiceList has seen to, before slot i.
Seen(g, i) == [j \in ServiceSlots |-> IF j < i THEN g[j] ELSE services[j].inUse]

\* Slot i is kept, g being what became of the slots before it.
KeptSlot(cfg, g, i) ==
  /\ services[i].inUse
  /\ FindBySId(Seen(g, i), services[i].SId) # -1
  /\ \E k \in CompSlots : /\ Reached(cfg, k)
                          /\ serviceComps[cfg][k].SCIds = services[i].SCIds
                          /\ serviceComps[cfg][k].SId = services[i].SId

\* What becomes of a slot depends on the slots before it only.
LEMMA KeptSlotDepends ==
  ASSUME NEW cfg, NEW i \in ServiceSlots, NEW g, NEW h,
         \A j \in ServiceSlots : j < i => g[j] = h[j]
  PROVE  KeptSlot(cfg, g, i) = KeptSlot(cfg, h, i)
<1>1. Seen(g, i) = Seen(h, i)
  BY DEF Seen
<1> QED
  BY <1>1 DEF KeptSlot

\* The loop of cleanupServiceList ends with each slot judged by the slots
\* before it (the least slot at which it did not would be a contradiction).
LEMMA HealthyIsJudged ==
  ASSUME NEW cfg
  PROVE  \A i \in ServiceSlots : Healthy(cfg)[i] = KeptSlot(cfg, Healthy(cfg), i)
<1> DEFINE Upto(g, n) == \A i \in ServiceSlots : i < n => g[i] = KeptSlot(cfg, g, i)
           Bad == {n \in 0..NServices : ~ \E g \in [ServiceSlots -> BOOLEAN] : Upto(g, n)}
<1>1. \A g, i : KeptSlot(cfg, g, i) \in BOOLEAN
  BY DEF KeptSlot
<1>2. Bad = {}
  <2> SUFFICES ASSUME Bad # {} PROVE FALSE
    OBVIOUS
  <2>1. Bad \in SUBSET Nat
    BY SizesAssumption
  <2>2. PICK n \in Bad : \A m \in Bad : n <= m
    BY <2>1, FirstIsLeast
  <2>3. n \in 0..NServices /\ ~ \E g \in [ServiceSlots -> BOOLEAN] : Upto(g, n)
    OBVIOUS
  <2>4. n # 0
    <3>1. [i \in ServiceSlots |-> FALSE] \in [ServiceSlots -> BOOLEAN]
      OBVIOUS
    <3>2. \A i \in ServiceSlots : ~(i < 0)
      BY SizesAssumption DEF ServiceSlots
    <3> QED
      BY <2>3, <3>1, <3>2
  <2>5. n - 1 \in 0..NServices /\ n - 1 \in ServiceSlots /\ ~(n <= n - 1)
    BY <2>3, <2>4, SizesAssumption DEF ServiceSlots
  <2>6. PICK g \in [ServiceSlots -> BOOLEAN] : Upto(g, n - 1)
    <3>1. n - 1 \notin Bad
      <4> HIDE DEF Bad
      <4> QED
        BY <2>2, <2>5
    <3> QED
      BY <2>5, <3>1
  <2> DEFINE h == [g EXCEPT ![n - 1] = KeptSlot(cfg, g, n - 1)]
  <2>7. h \in [ServiceSlots -> BOOLEAN]
    BY <1>1
  <2>8. \A j \in ServiceSlots : h[j] = IF j = n - 1 THEN KeptSlot(cfg, g, n - 1) ELSE g[j]
    OBVIOUS
  <2> HIDE DEF h
  <2>9. ASSUME NEW i \in ServiceSlots, i < n
        PROVE  h[i] = KeptSlot(cfg, h, i)
    <3>1. i \in Int /\ n \in Int /\ \A j \in ServiceSlots : j \in Int
      BY <2>3, SizesAssumption DEF ServiceSlots
    <3>2. \A j \in ServiceSlots : j < i => h[j] = g[j]
      BY <2>8, <2>9, <3>1
    <3>3. KeptSlot(cfg, h, i) = KeptSlot(cfg, g, i)
      BY <3>2, KeptSlotDepends
    <3>4. h[i] = KeptSlot(cfg, g, i)
      <4>1. i = n - 1 \/ i < n - 1
        BY <2>9, <3>1
      <4>2. CASE i = n - 1
        BY <2>8, <4>2
      <4>3. CASE i < n - 1
        BY <2>6, <2>8, <3>1, <4>3
      <4> QED
        BY <4>1, <4>2, <4>3
    <3> QED
      BY <3>3, <3>4
  <2> QED
    BY <2>3, <2>7, <2>9
<1>3. \E g : g = [i \in ServiceSlots |-> KeptSlot(cfg, g, i)]
  <2>1. NServices \in 0..NServices /\ \A i \in ServiceSlots : i < NServices
    BY SizesAssumption DEF ServiceSlots
  <2>2. PICK g \in [ServiceSlots -> BOOLEAN] : Upto(g, NServices)
    BY <1>2, <2>1
  <2>3. \A i \in ServiceSlots : g[i] = KeptSlot(cfg, g, i)
    BY <2>1, <2>2
  <2>4. g = [i \in ServiceSlots |-> g[i]]
    OBVIOUS
  <2>5. g = [i \in ServiceSlots |-> KeptSlot(cfg, g, i)]
    BY <2>3, <2>4
  <2> QED
    BY <2>5
<1>4. Healthy(cfg) = CHOOSE g : g = [i \in ServiceSlots |-> KeptSlot(cfg, g, i)]
  BY DEF Healthy, KeptSlot, Seen
<1>5. Healthy(cfg) = [i \in ServiceSlots |-> KeptSlot(cfg, Healthy(cfg), i)]
  BY <1>3, <1>4
<1> QED
  BY <1>5

\* A service that cleanupServiceList keeps has a component.
LEMMA KeptHasComponent ==
  ASSUME NEW cfg, NEW i \in ServiceSlots, Healthy(cfg)[i]
  PROVE  HasComponent(services[i], cfg)
<1>1. KeptSlot(cfg, Healthy(cfg), i)
  BY HealthyIsJudged
<1>2. PICK k \in CompSlots : /\ Reached(cfg, k)
                             /\ serviceComps[cfg][k].SCIds = services[i].SCIds
                             /\ serviceComps[cfg][k].SId = services[i].SId
  BY <1>1 DEF KeptSlot
<1>3. k \in 0 .. k
  BY SizesAssumption DEF CompSlots
<1> QED
  BY <1>2, <1>3 DEF Reached, HasComponent

\* cleanupServiceList: every service left has a component in the
\* configuration that is now the current one, whatever slots were given up.
THEOREM UnhealthyAreDropped == Spec => ChangeDropsUnhealthy
<1> DEFINE Dropped == current' # current
             => \A i \in ServiceSlots : services'[i].inUse => HasComponent(services[i], current')
<1>1. ASSUME TypeOK, [AnyNext]_vars
      PROVE  Dropped
  <2> SUFFICES ASSUME current' # current, NEW i \in ServiceSlots, services'[i].inUse
               PROVE  HasComponent(services[i], current')
    OBVIOUS
  <2>1. PICK f \in Figs : FIG0Extension0(f) /\ ChangeConfig(f)
    <3>1. ~UNCHANGED current
      OBVIOUS
    <3>2. PICK f \in Figs : process_FIG(f)
      BY <1>1, <3>1, Zenon DEF AnyNext, Received, vars, dbVars, BeginFIB, EndFIB, BindNext, Restart, Stop, ResetAll, Gui, Lookup, LookAt, NotFound,
         guiOnly, getSubChId, dataforAudioService, dataforPacketService
    <3>3. FIG0Extension0(f)
      BY <3>1, <3>2, Zenon DEF process_FIG, FIG0Extension1, FIG0Extension2, FIG0Extension3,
         FIG0Extension8, FIG0Extension18, FIG0Extension19, FIG1Extension0, FIG1Extension1,
         FIG1Extension4, FIG1Extension5, dbVars
    <3>4. ChangeConfig(f)
      BY <3>1, <3>3 DEF FIG0Extension0
    <3> QED
      BY <3>3, <3>4
  <2>2. current' = next /\ cleanupServiceList(next)
    BY <2>1 DEF FIG0Extension0
  <2> DEFINE kept == Healthy(next)
  <2>3. services' = [j \in ServiceSlots |->
                       [services[j] EXCEPT !.inUse = services[j].inUse /\ kept[j]]]
    BY <2>2 DEF cleanupServiceList
  <2> HIDE DEF kept
  <2>4. services[i] \in Service
    BY <1>1 DEF TypeOK
  <2>5. services'[i].inUse = (services[i].inUse /\ kept[i])
    BY <2>3, <2>4 DEF Service
  <2>6. kept[i]
    BY <2>5
  <2> QED
    BY <2>2, <2>6, KeptHasComponent DEF kept
<1>2. TypeOK /\ [AnyNext]_vars => [Dropped]_vars
  BY <1>1
<1> QED
  BY <1>2, TypeCorrect, AirIsOfFigs, PTL DEF AnySpec, ChangeDropsUnhealthy

\* A service is found by its SId if one with that SId has no hole in front.
LEMMA FoundIsReached ==
  ASSUME NEW inUse, NEW SId
  PROVE  /\ FindBySId(inUse, SId) # -1 =>
              /\ FindBySId(inUse, SId) \in ServiceSlots
              /\ services[FindBySId(inUse, SId)].SId = SId
              /\ \A j \in 0 .. FindBySId(inUse, SId) : inUse[j]
         /\ \A i \in ServiceSlots :
              services[i].SId = SId /\ (\A j \in 0 .. i : inUse[j])
              => FindBySId(inUse, SId) # -1 /\ FindBySId(inUse, SId) <= i
<1> DEFINE S == {i \in ServiceSlots : services[i].SId = SId /\ \A j \in 0 .. i : inUse[j]}
<1>1. S \in SUBSET Nat
  BY Slots
<1>2. \/ S = {} /\ First(S) = -1
      \/ S # {} /\ First(S) \in S /\ \A j \in S : First(S) <= j
  BY <1>1, FirstIsLeast
<1>3. FindBySId(inUse, SId) = First(S)
  BY DEF FindBySId
<1>4. -1 \notin S
  BY Slots
<1> HIDE DEF S
<1> USE <1>2, <1>3, <1>4
<1>5. FindBySId(inUse, SId) # -1 => FindBySId(inUse, SId) \in S
  OBVIOUS
<1>6. \A i \in S : FindBySId(inUse, SId) # -1 /\ FindBySId(inUse, SId) <= i
  OBVIOUS
<1> QED
  BY <1>5, <1>6 DEF S

\* ServicesFound in terms of the slots.
ServicesReached ==
  \A i \in ServiceSlots :
    services[i].inUse => \E m \in ServiceSlots : /\ services[m].SId = services[i].SId
                                                 /\ \A j \in 0 .. m : services[j].inUse

\* findService (SId) delivers a slot if there is one it gets to.
LEMMA FoundMeansReached ==
  /\ ServicesFound <=> ServicesReached
  /\ ServicesFound' <=> ServicesReached'
<1>1. ASSUME NEW S \in SUBSET ServiceSlots
      PROVE  First(S) # -1 <=> S # {}
  <2>1. S \in SUBSET Nat /\ -1 \notin S
    BY Slots
  <2> QED
    BY <2>1, FirstIsLeast
<1>2. \A m \in ServiceSlots : 0 .. m \subseteq ServiceSlots
  BY SizesAssumption DEF ServiceSlots
<1>3. ASSUME NEW i \in ServiceSlots
      PROVE  FindService(services[i].SId) # -1
             <=> \E m \in ServiceSlots : /\ services[m].SId = services[i].SId
                                         /\ \A j \in 0 .. m : services[j].inUse
  <2> DEFINE T == {m \in ServiceSlots : /\ services[m].SId = services[i].SId
                                        /\ \A j \in 0 .. m : InUse[j]}
  <2>1. FindService(services[i].SId) # -1 <=> T # {}
    BY <1>1 DEF FindService, FindBySId
  <2>2. \A m \in ServiceSlots : \A j \in 0 .. m : InUse[j] = services[j].inUse
    BY <1>2 DEF InUse
  <2> QED
    BY <2>1, <2>2
<1>4. ASSUME NEW i \in ServiceSlots
      PROVE  (FindService(services[i].SId) # -1)'
             <=> \E m \in ServiceSlots : /\ services'[m].SId = services'[i].SId
                                         /\ \A j \in 0 .. m : services'[j].inUse
  <2> DEFINE T == {m \in ServiceSlots : /\ services'[m].SId = services'[i].SId
                                        /\ \A j \in 0 .. m : InUse'[j]}
  <2>1. (FindService(services[i].SId) # -1)' <=> T # {}
    BY <1>1 DEF FindService, FindBySId
  <2>2. \A m \in ServiceSlots : \A j \in 0 .. m : InUse'[j] = services'[j].inUse
    BY <1>2 DEF InUse
  <2> QED
    BY <2>1, <2>2
<1> QED
  BY <1>3, <1>4 DEF ServicesFound, ServicesReached

\* The services are found as long as they grow.
LEMMA GrowKeepsFound ==
  ASSUME ServicesReached, ServicesGrow
  PROVE  ServicesReached'
<1> SUFFICES ASSUME NEW i \in ServiceSlots, services'[i].inUse
             PROVE  \E m \in ServiceSlots : /\ services'[m].SId = services'[i].SId
                                            /\ \A j \in 0 .. m : services'[j].inUse
  BY DEF ServicesReached
<1>1. \A m \in ServiceSlots : \A j \in 0 .. m : j \in ServiceSlots /\ (j = m \/ j < m)
  BY SizesAssumption DEF ServiceSlots
<1>2. CASE services[i].inUse
  <2>1. PICK m \in ServiceSlots : /\ services[m].SId = services[i].SId
                                  /\ \A j \in 0 .. m : services[j].inUse
    BY <1>2 DEF ServicesReached
  <2>2. \A j \in 0 .. m : services'[j].inUse
    BY <1>1, <2>1 DEF ServicesGrow
  <2>3. services[m].inUse
    BY <2>1, SizesAssumption DEF ServiceSlots
  <2>4. services'[m].SId = services'[i].SId
    BY <1>2, <2>1, <2>3 DEF ServicesGrow
  <2> QED
    BY <2>2, <2>4
<1>3. CASE ~services[i].inUse
  <2>1. \A j \in 0 .. i : services'[j].inUse
    BY <1>1, <1>3 DEF ServicesGrow
  <2> QED
    BY <2>1
<1> QED
  BY <1>2, <1>3

\* A service that cleanupServiceList keeps is found in the table it leaves: the
\* search that judged it ended in front of the slot, or at it, and each slot it
\* passed was kept.
LEMMA CleanupKeepsFound ==
  ASSUME TypeOK, cleanupServiceList(next)
  PROVE  ServicesReached'
<1> DEFINE kept == Healthy(next)
<1>1. services' = [i \in ServiceSlots |->
                     [services[i] EXCEPT !.inUse = services[i].inUse /\ kept[i]]]
  BY DEF cleanupServiceList
<1>2. \A i \in ServiceSlots : kept[i] = KeptSlot(next, kept, i)
  BY HealthyIsJudged
<1> HIDE DEF kept
<1>3. \A i \in ServiceSlots : services[i] \in Service
  BY DEF TypeOK
<1>4. \A i \in ServiceSlots : /\ services'[i].inUse = (services[i].inUse /\ kept[i])
                              /\ services'[i].SId = services[i].SId
  BY <1>1, <1>3 DEF Service
<1>5. \A i \in ServiceSlots : kept[i] => services[i].inUse
  BY <1>2 DEF KeptSlot
<1>6. \A m \in ServiceSlots : \A j \in 0 .. m : j \in ServiceSlots /\ (j = m \/ j < m)
  BY SizesAssumption DEF ServiceSlots
<1> SUFFICES ASSUME NEW i \in ServiceSlots, services'[i].inUse
             PROVE  \E m \in ServiceSlots : /\ services'[m].SId = services'[i].SId
                                            /\ \A j \in 0 .. m : services'[j].inUse
  BY DEF ServicesReached
<1> DEFINE seen == Seen(kept, i)
           m == FindBySId(seen, services[i].SId)
<1>7. kept[i] /\ services[i].inUse /\ m # -1
  BY <1>2, <1>4 DEF KeptSlot
<1>8. \A j \in ServiceSlots : seen[j] = IF j < i THEN kept[j] ELSE services[j].inUse
  BY DEF Seen
<1>9. /\ m \in ServiceSlots /\ services[m].SId = services[i].SId
      /\ \A j \in 0 .. m : seen[j]
      /\ (\A j \in 0 .. i : seen[j]) => m <= i
  BY <1>7, FoundIsReached
<1> HIDE DEF m, seen
<1>10. m <= i
  <2> SUFFICES ASSUME ~(m <= i) PROVE FALSE
    OBVIOUS
  <2>1. \A j \in 0 .. i : j \in 0 .. m
    BY <1>9, Slots
  <2> QED
    BY <1>9, <2>1
<1>11. ASSUME NEW j \in 0 .. m
       PROVE  kept[j] /\ j \in ServiceSlots
  <2>1. j \in ServiceSlots /\ seen[j] /\ (j = i \/ j < i)
    BY <1>6, <1>9, <1>10, Slots
  <2> QED
    BY <1>7, <1>8, <2>1
<1> QED
  BY <1>4, <1>5, <1>9, <1>11

\* Each step leaves the services in use found.
LEMMA StepKeepsFound ==
  ASSUME TypeOK, ServicesFound, [AnyNext]_vars
  PROVE  ServicesFound'
<1>1. CASE Restart \/ Stop
  <2>1. \A i \in ServiceSlots : ~services'[i].inUse
    BY <1>1 DEF Restart, Stop, ResetAll, NoServices, NoService
  <2> QED
    BY <2>1 DEF ServicesFound
<1>2. CASE ServicesGrow
  BY <1>2, FoundMeansReached, GrowKeepsFound
<1>3. CASE cleanupServiceList(next)
  BY <1>3, FoundMeansReached, CleanupKeepsFound
<1> QED
  BY <1>1, <1>2, <1>3, StepKeepsLabels

\* Each service in use is found by its SId, in whatever order FIGs, channel
\* changes and reconfigurations come: cleanupServiceList and createService leave
\* no service behind a hole that hides it from findService (SId).
THEOREM ServicesAreFound == Spec => []ServicesFound
<1>1. Init => ServicesFound
  BY DEF Init, NoServices, NoService, ServicesFound
<1>2. TypeOK /\ ServicesFound /\ [AnyNext]_vars => ServicesFound'
  BY StepKeepsFound
<1> QED
  BY <1>1, <1>2, TypeCorrect, AirIsOfFigs, PTL DEF AnySpec

-----------------------------------------------------------------------------
(* An ensemble that fits the tables.                                       *)

\* The components that FIG 0/2 names.
Named == UNION {{<<f.bindings[i].SId, f.bindings[i].compNr>> : i \in DOMAIN f.bindings} :
                f \in {g \in Figs : g.type = "0/2"}}

\* There are no more of them than serviceComps can hold.
EnsembleFits == IsFiniteSet(Named) /\ Cardinality(Named) <= NComps

\* What is to be bound and what was bound was named.
NamedOnly ==
  /\ \A i \in DOMAIN todo : <<todo[i].SId, todo[i].compNr>> \in Named
  /\ \A c \in Configs, i \in CompSlots :
       serviceComps[c][i].inUse => <<serviceComps[c][i].SId, serviceComps[c][i].compNr>> \in Named

\* Each step binds what was named.
LEMMA StepKeepsNamed ==
  ASSUME TypeOK, NamedOnly, [AnyNext]_vars
  PROVE  NamedOnly'
<1>1. \A i \in DOMAIN todo' : <<todo'[i].SId, todo'[i].compNr>> \in Named
  <2>1. CASE UNCHANGED todo
    BY <2>1 DEF NamedOnly
  <2>2. CASE todo # <<>> /\ todo' = Tail(todo)
    <3>1. todo \in Seq(Binding)
      BY DEF TypeOK
    <3>2. \A i \in DOMAIN Tail(todo) : i + 1 \in DOMAIN todo /\ Tail(todo)[i] = todo[i + 1]
      BY <2>2, <3>1
    <3> QED
      BY <2>2, <3>2 DEF NamedOnly
  <2>3. ASSUME NEW f \in Figs, FIG0Extension2(f)
        PROVE  \A i \in DOMAIN todo' : <<todo'[i].SId, todo'[i].compNr>> \in Named
    BY <2>3 DEF FIG0Extension2, Named
  <2>4. UNCHANGED todo \/ (todo # <<>> /\ todo' = Tail(todo)) \/ \E f \in Figs : FIG0Extension2(f)
    <3>1. ASSUME NEW f \in Figs, process_FIG(f), ~FIG0Extension2(f)
          PROVE  UNCHANGED todo
      BY <3>1 DEF process_FIG, FIG0Extension0, FIG0Extension1, FIG0Extension3, FIG0Extension8,
         FIG0Extension18, FIG0Extension19, FIG1Extension0, FIG1Extension1, FIG1Extension4,
         FIG1Extension5
    <3>2. CASE BeginFIB \/ EndFIB \/ BindNext \/ Restart \/ Stop \/ Gui
      BY <3>2 DEF BeginFIB, EndFIB, BindNext, Restart, Stop, ResetAll, Gui, Lookup, LookAt, NotFound,
         guiOnly, getSubChId, dataforAudioService, dataforPacketService
    <3> QED
      BY <3>1, <3>2, Zenon DEF AnyNext, Received, vars
  <2> QED
    BY <2>1, <2>2, <2>3, <2>4
<1>2. ASSUME NEW c \in Configs, NEW i \in CompSlots, serviceComps'[c][i].inUse
      PROVE  <<serviceComps'[c][i].SId, serviceComps'[c][i].compNr>> \in Named
  <2>1. ASSUME NEW db \in Configs, NEW k \in CompSlots, Filled(db, k)
        PROVE  <<serviceComps'[c][i].SId, serviceComps'[c][i].compNr>> \in Named
    <3>1. PICK n \in Comp :
            /\ n.SId = Head(todo).SId /\ n.compNr = Head(todo).compNr
            /\ serviceComps' = [serviceComps EXCEPT ![db][k] = n]
      BY <2>1, Zenon DEF Filled
    <3>2. serviceComps'[c][i] = IF c = db /\ i = k THEN n ELSE serviceComps[c][i]
      BY <3>1 DEF TypeOK
    <3>3. 1 \in DOMAIN todo /\ Head(todo) = todo[1]
      BY <2>1 DEF Filled, TypeOK
    <3> QED
      BY <1>2, <3>1, <3>2, <3>3 DEF NamedOnly
  <2>2. ASSUME NEW db \in Configs, NEW k \in CompSlots, Detailed(db, k)
        PROVE  <<serviceComps'[c][i].SId, serviceComps'[c][i].compNr>> \in Named
    <3>1. PICK n \in Comp :
            /\ \A f \in {"inUse", "TMid", "SId", "compNr"} : n[f] = serviceComps[db][k][f]
            /\ serviceComps' = [serviceComps EXCEPT ![db][k] = n]
      BY <2>2, Zenon DEF Detailed
    <3>2. serviceComps'[c][i] = IF c = db /\ i = k THEN n ELSE serviceComps[c][i]
      BY <3>1 DEF TypeOK
    <3>3. /\ n.inUse = serviceComps[db][k].inUse /\ n.SId = serviceComps[db][k].SId
          /\ n.compNr = serviceComps[db][k].compNr
      BY <3>1
    <3> QED
      BY <1>2, <3>2, <3>3 DEF NamedOnly
  <2>3. ASSUME NEW C \in SUBSET Configs, Emptied(C)
        PROVE  <<serviceComps'[c][i].SId, serviceComps'[c][i].compNr>> \in Named
    <3>1. serviceComps'[c][i] = IF c \in C THEN NoComp ELSE serviceComps[c][i]
      BY <2>3 DEF Emptied, NoComps
    <3> QED
      BY <1>2, <3>1 DEF NoComp, NamedOnly
  <2>4. CASE Described
    BY <1>2, <2>4 DEF Described, NamedOnly
  <2> QED
    BY <2>1, <2>2, <2>3, <2>4, StepOnComps
<1> QED
  BY <1>1, <1>2 DEF NamedOnly

\* A full table holds each component that was named, so that none is left to
\* be bound.
LEMMA FullIsBound ==
  ASSUME EnsembleFits, TypeOK, NamedOnly, Tables, NEW db \in Configs, NEW b,
         <<b.SId, b.compNr>> \in Named, FreeComp(db) = -1
  PROVE  Bound(db, b)
<1>1. \A i \in CompSlots : serviceComps[db][i].inUse
  <2> DEFINE S == {i \in CompSlots : ~serviceComps[db][i].inUse}
  <2>1. S \in SUBSET Nat /\ FreeComp(db) = First(S)
    BY Slots DEF FreeComp
  <2>2. S = {}
    BY <2>1, FirstIsLeast
  <2> QED
    BY <2>2
<1>2. NComps \in Nat /\ NComps > 0
  BY SizesAssumption
<1> DEFINE who(i) == IF i = NComps THEN <<b.SId, b.compNr>>
                     ELSE <<serviceComps[db][i].SId, serviceComps[db][i].compNr>>
           name == [i \in 0 .. NComps |-> who(i)]
<1>3. name \in [0 .. NComps -> Named]
  <2>1. \A i \in 0 .. NComps : i # NComps => i \in CompSlots
    BY <1>2 DEF CompSlots
  <2>2. \A i \in 0 .. NComps : who(i) \in Named
    BY <1>1, <2>1 DEF NamedOnly
  <2> QED
    BY <2>2
<1>4. IsFiniteSet(0 .. NComps) /\ Cardinality(0 .. NComps) = NComps + 1
  BY <1>2, FS_Interval
<1>5. Cardinality(Named) < Cardinality(0 .. NComps)
  BY <1>2, <1>4, FS_CardinalityType DEF EnsembleFits
<1>6. PICK x \in 0 .. NComps, y \in 0 .. NComps : x # y /\ name[x] = name[y]
  <2> HIDE DEF name
  <2> QED
    BY <1>3, <1>4, <1>5, FS_PigeonHole DEF EnsembleFits
<1>7. who(x) = who(y)
  BY <1>6
<1>8. \A i \in CompSlots : Reached(db, i)
  BY <1>1 DEF Tables, CompsDense
<1>9. ASSUME NEW i \in CompSlots, serviceComps[db][i].SId = b.SId,
             serviceComps[db][i].compNr = b.compNr
      PROVE  Bound(db, b)
  BY <1>8, <1>9 DEF Bound
<1>10. CASE x = NComps
  <2>1. y \in CompSlots /\ y # NComps
    BY <1>2, <1>6, <1>10 DEF CompSlots
  <2> QED
    BY <1>7, <1>9, <1>10, <2>1
<1>11. CASE y = NComps
  <2>1. x \in CompSlots /\ x # NComps
    BY <1>2, <1>6, <1>11 DEF CompSlots
  <2> QED
    BY <1>7, <1>9, <1>11, <2>1
<1>12. CASE x # NComps /\ y # NComps
  <2>1. x \in CompSlots /\ y \in CompSlots
    BY <1>2, <1>12 DEF CompSlots
  <2>2. x = y
    BY <1>1, <1>7, <1>12, <2>1 DEF Tables, CompsUnique
  <2> QED
    BY <1>6, <2>2
<1> QED
  BY <1>10, <1>11, <1>12

\* What the last theorems rest on, for an ensemble that fits.
Roomy == IInv /\ NamedOnly /\ NoOverrun

\* No step writes outside serviceComps then.
LEMMA StepKeepsRoom ==
  ASSUME EnsembleFits, Roomy, [AnyNext]_vars
  PROVE  Roomy'
<1>1. IInv' /\ NamedOnly'
  BY NextInvariant, StepKeepsNamed DEF Roomy, IInv
<1>2. NoOverrun'
  <2>1. CASE UNCHANGED overrun
    BY <2>1 DEF Roomy, NoOverrun
  <2>2. CASE BindNext
    <3> DEFINE b == Head(todo)
               db == Base(b.CN)
    <3>1. b \in Binding /\ <<b.SId, b.compNr>> \in Named
      <4>1. todo # <<>> /\ todo \in Seq(Binding)
        BY <2>2 DEF BindNext, Roomy, IInv, TypeOK
      <4>2. 1 \in DOMAIN todo /\ b = todo[1] /\ b \in Binding
        BY <4>1
      <4> QED
        BY <4>2 DEF Roomy, NamedOnly
    <3>2. db \in Configs
      BY <3>1, BaseType, BindingFields DEF Roomy, IInv
    <3>3. Bound(db, b) \/ FreeComp(db) # -1
      <4> HIDE DEF b, db
      <4> QED
        BY <3>1, <3>2, FullIsBound DEF Roomy, IInv
    <3>4. UNCHANGED overrun
      BY <2>2, <3>3 DEF BindNext, bind_audioService, bind_packetService, bind_nothing
    <3> QED
      BY <2>1, <3>4
  <2>3. ASSUME NEW f \in Figs, process_FIG(f)
        PROVE  UNCHANGED overrun
    BY <2>3 DEF process_FIG, FIG0Extension0, FIG0Extension1, FIG0Extension2, FIG0Extension3,
       FIG0Extension8, FIG0Extension18, FIG0Extension19, FIG1Extension0, FIG1Extension1,
       FIG1Extension4, FIG1Extension5, dbVars
  <2>4. CASE BeginFIB \/ EndFIB \/ Restart \/ Stop \/ Gui
    BY <2>1, <2>4 DEF BeginFIB, EndFIB, Restart, Stop, ResetAll, Gui, Lookup, LookAt,
       NotFound, guiOnly, getSubChId, dataforAudioService, dataforPacketService, dbVars
  <2> QED
    BY <2>1, <2>2, <2>3, <2>4 DEF Roomy, AnyNext, Received, vars, dbVars
<1> QED
  BY <1>1, <1>2 DEF Roomy

\* An ensemble that fits leaves room.
LEMMA RoomHolds ==
  ASSUME EnsembleFits
  PROVE  Spec => []Roomy
<1>1. Init => Roomy
  <2> SUFFICES ASSUME Init PROVE Roomy
    OBVIOUS
  <2>1. NamedOnly
    BY DEF Init, NamedOnly, NoComps, NoComp
  <2> QED
    BY <2>1, InitInvariant DEF Init, Roomy, NoOverrun
<1>2. Roomy /\ [AnyNext]_vars => Roomy'
  BY StepKeepsRoom
<1> QED
  BY <1>1, <1>2, AirIsOfFigs, PTL DEF AnySpec

\* While FIG 0/2 names no more components than serviceComps has elements,
\* bind_audioService and bind_packetService write to none outside, whatever
\* was bound before, repeated or reconfigured.
THEOREM RoomForAll ==
  ASSUME EnsembleFits
  PROVE  Spec => []NoOverrun
<1>1. Roomy => NoOverrun
  BY DEF Roomy
<1> QED
  BY <1>1, RoomHolds, PTL

-----------------------------------------------------------------------------
(* Announcements.                                                          *)

\* A slot that was not given up and has a label keeps it within a channel.
LEMMA LabelledStays ==
  ASSUME TypeOK, SlotsFresh, LabelsStay, Remember \/ UNCHANGED <<services, before, freed>>,
         NEW i \in ServiceSlots, i \notin freed', services[i].label # NoLabel
  PROVE  i \notin freed /\ services'[i].label = services[i].label
<1>1. i \notin freed
  BY DEF Remember
<1>2. services[i].inUse
  BY <1>1 DEF SlotsFresh
<1> QED
  BY <1>1, <1>2 DEF LabelsStay

\* Cluster k of configuration c counts an announcement for slot i.
Counts(c, k, i) == clusterTable[c][k].announcing >= 5 /\ i \in clusterTable[c][k].services

\* What was on the air stays accounted for, if the cluster that counts it goes
\* on or takes its label off the air.
LEMMA KeepsAccount ==
  ASSUME TypeOK, SlotsFresh, OnAirCanEnd, LabelsStay,
         Remember \/ UNCHANGED <<services, before, freed>>,
         NEW a \in onAir, a[1] \notin freed', a[2] # NoLabel,
         \A c \in Configs, k \in ClusterIds :
           Counts(c, k, a[1]) => Counts(c, k, a[1])' \/ services[a[1]].label # a[2]
  PROVE  services'[a[1]].label = a[2] /\ \E c \in Configs, k \in ClusterIds : Counts(c, k, a[1])'
<1>1. a[1] \in ServiceSlots /\ a[1] \notin freed
  BY DEF TypeOK, Remember
<1>2. services[a[1]].label = a[2] /\ \E c \in Configs, k \in ClusterIds : Counts(c, k, a[1])
  BY <1>1 DEF OnAirCanEnd, Counts
<1> QED
  BY <1>1, <1>2, LabelledStays

\* FIG 0/18 adds a service to a cluster.
LEMMA SupportKeepsAccount ==
  ASSUME TypeOK, NEW f \in Figs, FIG0Extension18(f)
  PROVE  /\ UNCHANGED onAir
         /\ \A i : \A c \in Configs, k \in ClusterIds : Counts(c, k, i) => Counts(c, k, i)'
<1>1. UNCHANGED onAir
  BY DEF FIG0Extension18
<1>2. CASE UNCHANGED clusterTable
  BY <1>1, <1>2 DEF Counts
<1>3. CASE ~UNCHANGED clusterTable
  <2> DEFINE db  == Base(f.CN)
             s   == FindService(f.SId)
             id  == f.clusterId
             new == [inUse |-> TRUE, flags |-> f.flags,
                     services |-> clusterTable[db][id].services \cup {s},
                     announcing |-> clusterTable[db][id].announcing]
  <2>1. db \in Configs /\ id \in ClusterIds
    BY FigFields, BaseType DEF FIG0Extension18
  <2>2. clusterTable' = [clusterTable EXCEPT ![db][id] = new]
    BY <1>3 DEF FIG0Extension18
  <2>3. /\ new.announcing = clusterTable[db][id].announcing
        /\ clusterTable[db][id].services \subseteq new.services
    OBVIOUS
  <2> HIDE DEF new, db, id
  <2>4. \A c \in Configs, k \in ClusterIds : clusterTable'[c][k] =
          IF c = db /\ k = id THEN new ELSE clusterTable[c][k]
    BY <2>1, <2>2 DEF TypeOK
  <2> QED
    BY <1>1, <2>3, <2>4 DEF Counts
<1> QED
  BY <1>2, <1>3

\* FIG 0/19 puts the slots of a cluster on the air with the fifth match, and
\* takes their labels off the air with the first FIG that does not match.
LEMMA SwitchingKeepsAccount ==
  ASSUME TypeOK, NEW f \in Figs, FIG0Extension19(f)
  PROVE  /\ \A a \in onAir' \ onAir :
              /\ a[1] \in ServiceSlots /\ a[2] = services[a[1]].label
              /\ \E c \in Configs, k \in ClusterIds : Counts(c, k, a[1])'
         /\ \A a \in onAir' \cap onAir, c \in Configs, k \in ClusterIds :
              Counts(c, k, a[1]) => Counts(c, k, a[1])' \/ services[a[1]].label # a[2]
<1> DEFINE db == Base(f.CN)
           id == f.clusterId
           c  == clusterTable[db][id]
           names  == {services[i].label : i \in c.services}
           starts == {<<i, services[i].label>> : i \in c.services}
           count  == IF c.announcing < AnnounceMax THEN c.announcing + 1 ELSE AnnounceMax
<1>1. db \in Configs /\ id \in ClusterIds
  BY FigFields, BaseType DEF FIG0Extension19
<1>2. /\ c \in Cluster /\ c.announcing \in 0 .. AnnounceMax /\ c.services \subseteq ServiceSlots
      /\ AnnounceMax \in Nat /\ AnnounceMax > 5
      /\ clusterTable \in [Configs -> [ClusterIds -> Cluster]]
  BY <1>1, ClusterFields, SizesAssumption DEF TypeOK, Cluster
<1>3. CASE UNCHANGED <<clusterTable, onAir>>
  BY <1>3 DEF Counts
<1>4. ASSUME NEW n, clusterTable' = [clusterTable EXCEPT ![db][id].inUse = TRUE,
                                                         ![db][id].announcing = n]
      PROVE  \A i : \A d \in Configs, k \in ClusterIds :
               Counts(d, k, i)' <=> IF d = db /\ k = id THEN n >= 5 /\ i \in c.services
                                    ELSE Counts(d, k, i)
  <2> DEFINE new == [c EXCEPT !.inUse = TRUE, !.announcing = n]
  <2>1. new.announcing = n /\ new.services = c.services
    BY <1>2 DEF Cluster
  <2>2. clusterTable' = [clusterTable EXCEPT ![db][id] = new]
    BY <1>4
  <2> HIDE DEF new, db, id, c
  <2>3. \A d \in Configs, k \in ClusterIds : clusterTable'[d][k] =
          IF d = db /\ k = id THEN new ELSE clusterTable[d][k]
    BY <1>1, <1>2, <2>2
  <2> QED
    BY <2>1, <2>3 DEF Counts
<1>5. CASE c.flags \cap f.flags # {} /\ isSynced
  <2>1. /\ clusterTable' = [clusterTable EXCEPT ![db][id].inUse = TRUE,
                                                ![db][id].announcing = count]
        /\ onAir' = IF c.announcing + 1 = 5 THEN onAir \cup starts ELSE onAir
    BY <1>5 DEF FIG0Extension19
  <2>2. \A i : \A d \in Configs, k \in ClusterIds :
          Counts(d, k, i)' <=> IF d = db /\ k = id THEN count >= 5 /\ i \in c.services
                               ELSE Counts(d, k, i)
    BY <1>4, <2>1
  <2>3. (c.announcing >= 5 => count >= 5) /\ (c.announcing + 1 = 5 => count >= 5)
    BY <1>2
  <2>4. \A i : Counts(db, id, i) <=> c.announcing >= 5 /\ i \in c.services
    BY DEF Counts
  <2>5. \A a \in onAir' \ onAir : c.announcing + 1 = 5 /\ a \in starts
    BY <2>1
  <2>6. \A a \in starts : a[1] \in c.services /\ a[2] = services[a[1]].label
    OBVIOUS
  <2> HIDE DEF db, id, c, count, starts
  <2> QED
    BY <1>1, <1>2, <2>2, <2>3, <2>4, <2>5, <2>6
<1>6. CASE c.flags \cap f.flags = {} /\ isSynced
  <2>1. /\ clusterTable' = [clusterTable EXCEPT ![db][id].inUse = TRUE,
                                                ![db][id].announcing = 0]
        /\ onAir' = IF c.announcing > 0 THEN {a \in onAir : a[2] \notin names} ELSE onAir
    BY <1>6 DEF FIG0Extension19
  <2>2. \A i : \A d \in Configs, k \in ClusterIds :
          Counts(d, k, i)' <=> IF d = db /\ k = id THEN 0 >= 5 /\ i \in c.services
                               ELSE Counts(d, k, i)
    BY <1>4, <2>1
  <2>3. onAir' \subseteq onAir /\ (c.announcing > 0 => \A a \in onAir' : a[2] \notin names)
    BY <2>1
  <2>4. \A i : Counts(db, id, i) => c.announcing > 0 /\ services[i].label \in names
    BY <1>2 DEF Counts
  <2> HIDE DEF db, id, c, names
  <2> QED
    BY <1>1, <2>2, <2>3, <2>4
<1> QED
  BY <1>3, <1>5, <1>6 DEF FIG0Extension19

\* No other step starts or stops an announcement, or changes a cluster.
LEMMA StepOnClusters ==
  ASSUME [AnyNext]_vars
  PROVE  \/ Restart \/ Stop
         \/ UNCHANGED <<clusterTable, onAir>>
         \/ \E f \in Figs : process_FIG(f) /\ (FIG0Extension18(f) \/ FIG0Extension19(f))
<1>1. ASSUME NEW f \in Figs, process_FIG(f), ~FIG0Extension18(f), ~FIG0Extension19(f)
      PROVE  UNCHANGED <<clusterTable, onAir>>
  BY <1>1 DEF process_FIG, FIG0Extension0, FIG0Extension1, FIG0Extension2, FIG0Extension3,
     FIG0Extension8, FIG1Extension0, FIG1Extension1, FIG1Extension4, FIG1Extension5, dbVars
<1>2. CASE BeginFIB \/ EndFIB \/ BindNext \/ Gui
  BY <1>2 DEF BeginFIB, EndFIB, BindNext, Gui, Lookup, LookAt, NotFound, guiOnly, getSubChId,
     dataforAudioService, dataforPacketService, dbVars
<1> QED
  BY <1>1, <1>2, Zenon DEF AnyNext, Received, vars, dbVars

\* Each step keeps the account.
LEMMA StepKeepsAccount ==
  ASSUME TypeOK, SlotsFresh, OnAirCanEnd, [AnyNext]_vars
  PROVE  OnAirCanEnd'
<1>1. CASE Restart \/ Stop
  BY <1>1 DEF Restart, Stop, ResetAll, OnAirCanEnd
<1>2. CASE ~(Restart \/ Stop)
  <2> SUFFICES ASSUME NEW a \in onAir', a[1] \notin freed', a[2] # NoLabel
               PROVE  /\ services'[a[1]].label = a[2]
                      /\ \E c \in Configs, k \in ClusterIds : Counts(c, k, a[1])'
    BY DEF OnAirCanEnd, Counts
  <2>1. LabelsStay /\ (Remember \/ UNCHANGED <<services, before, freed>>)
    BY <1>2, StepKeepsLabels
  <2>2. CASE a \in onAir /\ \A c \in Configs, k \in ClusterIds :
               Counts(c, k, a[1]) => Counts(c, k, a[1])' \/ services[a[1]].label # a[2]
    BY <2>1, <2>2, KeepsAccount
  <2>3. CASE UNCHANGED <<clusterTable, onAir>>
    BY <2>2, <2>3 DEF Counts
  <2>4. ASSUME NEW f \in Figs, FIG0Extension18(f)
        PROVE  a \in onAir /\ \A c \in Configs, k \in ClusterIds :
                 Counts(c, k, a[1]) => Counts(c, k, a[1])'
    BY <2>4, SupportKeepsAccount
  <2>5. ASSUME NEW f \in Figs, FIG0Extension19(f), a \notin onAir
        PROVE  /\ services'[a[1]].label = a[2]
               /\ \E c \in Configs, k \in ClusterIds : Counts(c, k, a[1])'
    <3>1. UNCHANGED services
      BY <2>5 DEF FIG0Extension19
    <3> QED
      BY <2>5, <3>1, SwitchingKeepsAccount
  <2>6. ASSUME NEW f \in Figs, FIG0Extension19(f), a \in onAir
        PROVE  \A c \in Configs, k \in ClusterIds :
                 Counts(c, k, a[1]) => Counts(c, k, a[1])' \/ services[a[1]].label # a[2]
    BY <2>6, SwitchingKeepsAccount
  <2> QED
    BY <1>2, <2>2, <2>3, <2>4, <2>5, <2>6, StepOnClusters
<1> QED
  BY <1>1, <1>2

\* Every announcement that was started can be stopped: some cluster counts it
\* and lists the slot it was started for, whatever FIGs are lost, whichever
\* services join a cluster, however often the channel is left and the
\* configuration changed, unless a change gave up the slot itself.
THEOREM AnnouncementsCanEnd == Spec => []OnAirCanEnd
<1>1. Init => OnAirCanEnd
  BY DEF Init, OnAirCanEnd
<1>2. IInv /\ OnAirCanEnd /\ [AnyNext]_vars => OnAirCanEnd'
  BY StepKeepsAccount DEF IInv
<1> QED
  BY <1>1, <1>2, InvariantHolds, AirIsOfFigs, PTL DEF AnySpec

-----------------------------------------------------------------------------
(* What was announced can be resolved.                                     *)

\* What an ensemble in order leaves of a component: it is one FIG 0/2 named, on
\* the sub-channel it was sent on, and its SCIds is its number once it is known.
CompSound(c) ==
  IF c.inUse
  THEN /\ \E b \in Bindings(air) :
            /\ b.SId = c.SId /\ b.compNr = c.compNr /\ b.TMid = c.TMid
            /\ IF c.TMid = 0 THEN c.SCId = -1 /\ c.subCh = b.ref
               ELSE c.SCId = b.ref /\ (c.subCh = -1 \/ OnSubCh(air, b, c.subCh))
       /\ c.SCIds \in {0, -1, c.compNr}
       /\ c.compNr = 0 => c.SCIds = 0
  ELSE c.SCId = -1 /\ c.subCh = -1

CompsSound == \A k \in CompSlots : CompSound(serviceComps[current][k])

\* There is a component of service SId.
Provided(SId) ==
  \E k \in CompSlots : serviceComps[current][k].inUse /\ serviceComps[current][k].SId = SId

\* There is the component of service SId that has these SCIds.
ProvidedAs(SId, SCIds) ==
  \E k \in CompSlots : /\ serviceComps[current][k].inUse
                       /\ serviceComps[current][k].SId = SId
                       /\ serviceComps[current][k].SCIds = SCIds

\* The services have no hole, are named as the ensemble names them, no two of
\* them the same, and one that was made of a component has it.
ServicesDense ==
  \A i, j \in ServiceSlots : services[i].inUse /\ j < i => services[j].inUse
ServicesNamed ==
  \A i \in ServiceSlots :
    services[i].inUse => <<services[i].label, services[i].SId>> \in Names(air)
ServicesDiffer ==
  \A i, j \in ServiceSlots :
    services[i].inUse /\ services[j].inUse /\ services[i].label = services[j].label => i = j
ServicesProvided ==
  \A i \in ServiceSlots :
    services[i].inUse /\ services[i].SCIds # 0 => ProvidedAs(services[i].SId, services[i].SCIds)
ServicesSound == ServicesDense /\ ServicesNamed /\ ServicesDiffer /\ ServicesProvided

\* Label a[1] is in the table, and service a[2] has a component.
Known(a) ==
  /\ a \in Names(air)
  /\ \E i \in ServiceSlots : services[i].inUse /\ services[i].label = a[1]
  /\ Provided(a[2])

TodoNamed == \A i \in DOMAIN todo : todo[i] \in Bindings(air)

Resolvable ==
  /\ TodoNamed /\ CompsSound /\ ServicesSound
  /\ \A a \in announced : Known(a)

\* No component goes, and none changes its service or the SCIds it was given.
CompsStay ==
  /\ UNCHANGED <<air, current>>
  /\ \A k \in CompSlots :
       serviceComps[current][k].inUse =>
         /\ serviceComps'[current][k].inUse
         /\ serviceComps'[current][k].SId = serviceComps[current][k].SId
         /\ serviceComps[current][k].SCIds \notin {0, -1} =>
              serviceComps'[current][k].SCIds = serviceComps[current][k].SCIds

\* The services stay what they are, except for an SCIds that becomes 0.
ServicesEdited ==
  \A i \in ServiceSlots :
    /\ services'[i].inUse = services[i].inUse
    /\ services'[i].label = services[i].label
    /\ services'[i].SId = services[i].SId
    /\ services'[i].SCIds \in {services[i].SCIds, 0}

\* A service is entered in the first free slot.
ServiceEntered(SId, SCIds, label) ==
  /\ FreeService # -1 /\ services' = Created(SId, SCIds, label)

\* In a table without a hole, findService (SId) finds each service.
LEMMA DenseIsFound ==
  ASSUME ServicesDense, NEW i \in ServiceSlots, services[i].inUse
  PROVE  FindService(services[i].SId) # -1
<1> DEFINE S == {k \in ServiceSlots : /\ services[k].SId = services[i].SId
                                      /\ \A j \in 0 .. k : InUse[j]}
<1>1. S \in SUBSET Nat
  BY Slots
<1>2. ASSUME NEW j \in 0 .. i
      PROVE  InUse[j]
  <2>1. j \in ServiceSlots /\ (j < i \/ j = i)
    BY SizesAssumption DEF ServiceSlots
  <2>2. services[j].inUse
    BY <2>1 DEF ServicesDense
  <2> QED
    BY <2>1, <2>2 DEF InUse
<1>3. i \in S
  BY <1>2
<1>4. First(S) \in Nat
  BY <1>1, <1>3, FirstIsLeast
<1> QED
  BY <1>4 DEF FindService, FindBySId

\* findServiceComponent (db, SCId) delivers a component with that SCId.
LEMMA FoundHasSCId ==
  ASSUME NEW db, NEW SCId, FindBySCId(db, SCId) # -1
  PROVE  serviceComps[db][FindBySCId(db, SCId)].SCId = SCId
<1> DEFINE S == {i \in CompSlots : serviceComps[db][i].inUse /\ serviceComps[db][i].SCId = SCId}
<1>1. S \in SUBSET Nat
  BY Slots
<1> QED
  BY <1>1, FirstIsLeast DEF FindBySCId

\* findComponent delivers a component in use of that service and sub-channel.
LEMMA FoundHasSubCh ==
  ASSUME NEW db, NEW SId, NEW c, FindBySubCh(db, SId, c) # -1
  PROVE  LET k == FindBySubCh(db, SId, c)
         IN /\ serviceComps[db][k].inUse
            /\ serviceComps[db][k].SId = SId /\ serviceComps[db][k].subCh = c
<1> DEFINE S == {i \in CompSlots : /\ Reached(db, i) /\ serviceComps[db][i].SId = SId
                                   /\ serviceComps[db][i].subCh = c}
           k == FindBySubCh(db, SId, c)
<1>1. S \in SUBSET Nat
  BY Slots
<1>2. k \in S
  BY <1>1, FirstIsLeast DEF FindBySubCh
<1>3. k \in 0 .. k
  BY <1>1, <1>2
<1> QED
  BY <1>2, <1>3 DEF Reached

\* findServiceComponent (db, SId, SCIds) delivers a component in use of that
\* service with these SCIds.
LEMMA FoundHasSCIds ==
  ASSUME NEW db, NEW SId, NEW SCIds, FindComp(db, SId, SCIds) # -1
  PROVE  LET k == FindComp(db, SId, SCIds)
         IN /\ serviceComps[db][k].inUse
            /\ serviceComps[db][k].SId = SId /\ serviceComps[db][k].SCIds = SCIds
<1> DEFINE S == {i \in CompSlots : /\ Reached(db, i) /\ serviceComps[db][i].SCIds = SCIds
                                   /\ serviceComps[db][i].SId = SId}
           k == FindComp(db, SId, SCIds)
<1>1. S \in SUBSET Nat
  BY Slots
<1>2. k \in S
  BY <1>1, FirstIsLeast DEF FindComp
<1>3. k \in 0 .. k
  BY <1>1, <1>2
<1> QED
  BY <1>2, <1>3 DEF Reached

\* And it delivers one if there is one, of a service that is in the table.
LEMMA ProvidedIsFound ==
  ASSUME CompsDense, current \in Configs, NEW SId, NEW SCIds,
         FindService(SId) # -1, ProvidedAs(SId, SCIds)
  PROVE  FindComp(current, SId, SCIds) # -1
<1> DEFINE S == {i \in CompSlots : /\ Reached(current, i)
                                   /\ serviceComps[current][i].SCIds = SCIds
                                   /\ serviceComps[current][i].SId = SId}
<1>1. S \in SUBSET Nat
  BY Slots
<1>2. PICK k \in CompSlots : /\ serviceComps[current][k].inUse
                             /\ serviceComps[current][k].SId = SId
                             /\ serviceComps[current][k].SCIds = SCIds
  BY DEF ProvidedAs
<1>3. k \in S
  BY <1>2 DEF CompsDense
<1>4. First(S) \in Nat
  BY <1>1, <1>3, FirstIsLeast
<1> QED
  BY <1>4 DEF FindComp

\* findService (name) finds a name that is in the table.
LEMMA NameIsFound ==
  ASSUME NEW i \in ServiceSlots, services[i].inUse
  PROVE  FindByName(services[i].label) # -1
<1> DEFINE S == {j \in ServiceSlots : services[j].inUse /\ services[j].label = services[i].label}
<1>1. S \in SUBSET Nat /\ i \in S
  BY Slots
<1>2. First(S) \in Nat
  BY <1>1, FirstIsLeast
<1> QED
  BY <1>2 DEF FindByName

\* In an ensemble in order, what was announced can be resolved.
LEMMA ResolvableResolves ==
  ASSUME Consistent(air), TypeOK, CompsDense, Resolvable
  PROVE  AnnouncedResolves
<1> SUFFICES ASSUME NEW a \in announced
             PROVE  LET s == FindByName(a[1])
                    IN /\ s # -1
                       /\ Provided(a[2])
                       /\ (\E i \in CompSlots :
                             /\ serviceComps[current][i].inUse
                             /\ serviceComps[current][i].SId = a[2]
                             /\ serviceComps[current][i].compNr = services[s].SCIds)
                          => FindComp(current, services[s].SId, services[s].SCIds) # -1
  BY DEF AnnouncedResolves, Provided
<1> DEFINE s == FindByName(a[1])
<1>1. Known(a)
  BY DEF Resolvable
<1>2. s # -1
  BY <1>1, NameIsFound DEF Known
<1>3. s \in ServiceSlots /\ services[s].inUse /\ services[s].label = a[1]
  BY <1>2, FoundByName
<1>4. services[s].SId = a[2]
  <2>1. a \in Names(air) /\ <<services[s].label, services[s].SId>> \in Names(air)
    BY <1>1, <1>3 DEF Known, Resolvable, ServicesSound, ServicesNamed
  <2>2. \A n, m \in Names(air) : n[1] = m[1] => n[2] = m[2]
    BY DEF Consistent
  <2> QED
    BY <1>3, <2>1, <2>2
<1>5. FindService(services[s].SId) # -1
  BY <1>3, DenseIsFound DEF Resolvable, ServicesSound
<1> HIDE DEF s
<1>6. ASSUME NEW i \in CompSlots,
             serviceComps[current][i].inUse,
             serviceComps[current][i].SId = a[2],
             serviceComps[current][i].compNr = services[s].SCIds
      PROVE  ProvidedAs(services[s].SId, services[s].SCIds)
  <2>1. CASE services[s].SCIds = 0
    <3>1. serviceComps[current][i].SCIds = 0
      BY <1>6, <2>1 DEF Resolvable, CompsSound, CompSound
    <3> QED
      BY <1>4, <1>6, <2>1, <3>1 DEF ProvidedAs
  <2>2. CASE services[s].SCIds # 0
    BY <1>3, <2>2 DEF Resolvable, ServicesSound, ServicesProvided
  <2> QED
    BY <2>1, <2>2
<1>7. current \in Configs
  BY DEF TypeOK
<1> QED
  BY <1>1, <1>2, <1>5, <1>6, <1>7, ProvidedIsFound DEF Known, s

\* A component that stays is still one of its service.
LEMMA StaysProvided ==
  ASSUME CompsStay
  PROVE  /\ \A SId : Provided(SId) => Provided(SId)'
         /\ \A SId, SCIds : SCIds \notin {0, -1} /\ ProvidedAs(SId, SCIds)
                            => ProvidedAs(SId, SCIds)'
BY DEF CompsStay, Provided, ProvidedAs

\* Where the services are edited at most, they stay sound, and what was known
\* stays known.
LEMMA EditedStaySound ==
  ASSUME TypeOK, ServicesSound, CompsStay, ServicesEdited
  PROVE  ServicesSound' /\ \A a : Known(a) => Known(a)'
<1>1. ServicesDense' /\ ServicesNamed' /\ ServicesDiffer'
  BY DEF ServicesSound, ServicesDense, ServicesNamed, ServicesDiffer, ServicesEdited, CompsStay
<1>2. ServicesProvided'
  <2> SUFFICES ASSUME NEW i \in ServiceSlots, services'[i].inUse, services'[i].SCIds # 0
               PROVE  ProvidedAs(services[i].SId, services[i].SCIds)'
    BY DEF ServicesProvided
  <2>1. /\ services[i].inUse /\ services'[i].SId = services[i].SId
        /\ services'[i].SCIds = services[i].SCIds /\ services[i].SCIds # 0
    BY DEF ServicesEdited
  <2>2. services[i].SCIds # -1
    BY DEF TypeOK, Service, CompNrs
  <2>3. ProvidedAs(services[i].SId, services[i].SCIds)
    BY <2>1 DEF ServicesSound, ServicesProvided
  <2>4. PICK k \in CompSlots : /\ serviceComps[current][k].inUse
                               /\ serviceComps[current][k].SId = services[i].SId
                               /\ serviceComps[current][k].SCIds = services[i].SCIds
    BY <2>3 DEF ProvidedAs
  <2>5. /\ current' = current /\ serviceComps'[current][k].inUse
        /\ serviceComps'[current][k].SId = services[i].SId
        /\ serviceComps'[current][k].SCIds = services[i].SCIds
    BY <2>1, <2>2, <2>4 DEF CompsStay
  <2> QED
    BY <2>1, <2>5 DEF ProvidedAs
<1>3. ASSUME NEW a, Known(a) PROVE Known(a)'
  BY <1>3, StaysProvided DEF Known, ServicesEdited, CompsStay
<1> QED
  BY <1>1, <1>2, <1>3 DEF ServicesSound

\* The service that createService enters: a name of the ensemble that is not in
\* the table yet, of a component that is there if it names one.
LEMMA EnteredStaySound ==
  ASSUME TypeOK, ServicesSound, CompsStay, NEW SId, NEW SCIds, NEW label,
         ServiceEntered(SId, SCIds, label),
         <<label, SId>> \in Names(air),
         \A i \in ServiceSlots : services[i].inUse => services[i].label # label,
         SCIds # 0 => SCIds # -1 /\ ProvidedAs(SId, SCIds)
  PROVE  /\ ServicesSound' /\ \A a : Known(a) => Known(a)'
         /\ \E i \in ServiceSlots : services'[i].inUse /\ services'[i].label = label
<1> DEFINE f == FreeService
           new == [inUse |-> TRUE, hasName |-> TRUE, label |-> label, SId |-> SId,
                   SCIds |-> SCIds, isShown |-> services[f].isShown]
<1>1. f \in ServiceSlots /\ ~services[f].inUse /\ \A j \in ServiceSlots : j < f => services[j].inUse
  <2> DEFINE S == {i \in ServiceSlots : ~services[i].inUse}
  <2>1. S \in SUBSET Nat
    BY Slots
  <2>2. f = First(S) /\ f # -1
    BY DEF FreeService, ServiceEntered
  <2> HIDE DEF f
  <2>3. f \in S /\ \A j \in S : f <= j
    BY <2>1, <2>2, FirstIsLeast
  <2>4. ASSUME NEW j \in ServiceSlots, j < f PROVE services[j].inUse
    BY <2>1, <2>3, <2>4, Slots
  <2> QED
    BY <2>3, <2>4
<1>2. services' = [services EXCEPT ![f] = new]
  BY DEF ServiceEntered, Created
<1> HIDE DEF f
<1>3. \A i \in ServiceSlots : services'[i] = IF i = f THEN new ELSE services[i]
  BY <1>1, <1>2 DEF TypeOK
<1>4. /\ services'[f].inUse /\ services'[f].label = label /\ services'[f].SId = SId
      /\ services'[f].SCIds = SCIds
  BY <1>1, <1>3
<1>5. \A i \in ServiceSlots : i # f => services'[i] = services[i]
  BY <1>3
<1> HIDE DEF new
<1>6. ServicesDense'
  <2> SUFFICES ASSUME NEW i \in ServiceSlots, NEW j \in ServiceSlots, services'[i].inUse, j < i
               PROVE  services'[j].inUse
    BY DEF ServicesDense
  <2>1. CASE i = f
    <3>1. j # f
      BY <2>1, Slots
    <3> QED
      BY <1>1, <1>5, <2>1, <3>1
  <2>2. CASE i # f
    BY <1>4, <1>5, <2>2 DEF ServicesSound, ServicesDense
  <2> QED
    BY <2>1, <2>2
<1>7. ServicesNamed'
  BY <1>4, <1>5 DEF ServicesSound, ServicesNamed, CompsStay
<1>8. ServicesDiffer'
  BY <1>4, <1>5 DEF ServicesSound, ServicesDiffer
<1>9. ServicesProvided'
  <2> SUFFICES ASSUME NEW i \in ServiceSlots, services'[i].inUse, services'[i].SCIds # 0
               PROVE  ProvidedAs(services[i].SId, services[i].SCIds)'
    BY DEF ServicesProvided
  <2>1. services'[i].SCIds # -1 /\ ProvidedAs(services'[i].SId, services'[i].SCIds)
    <3>1. CASE i = f
      BY <1>4, <3>1
    <3>2. CASE i # f
      <4>1. services[i].SCIds # -1
        BY DEF TypeOK, Service, CompNrs
      <4> QED
        BY <1>5, <3>2, <4>1 DEF ServicesSound, ServicesProvided
    <3> QED
      BY <3>1, <3>2
  <2>2. PICK k \in CompSlots : /\ serviceComps[current][k].inUse
                               /\ serviceComps[current][k].SId = services'[i].SId
                               /\ serviceComps[current][k].SCIds = services'[i].SCIds
    BY <2>1 DEF ProvidedAs
  <2>3. /\ current' = current /\ serviceComps'[current][k].inUse
        /\ serviceComps'[current][k].SId = services'[i].SId
        /\ serviceComps'[current][k].SCIds = services'[i].SCIds
    BY <2>1, <2>2 DEF CompsStay
  <2> QED
    BY <2>3 DEF ProvidedAs
<1>10. ASSUME NEW a, Known(a) PROVE Known(a)'
  <2>1. PICK i \in ServiceSlots : services[i].inUse /\ services[i].label = a[1]
    BY <1>10 DEF Known
  <2>2. services'[i].inUse /\ services'[i].label = a[1]
    BY <1>1, <1>5, <2>1
  <2> QED
    BY <1>10, <2>2, StaysProvided DEF Known, CompsStay
<1> QED
  BY <1>1, <1>4, <1>6, <1>7, <1>8, <1>9, <1>10 DEF ServicesSound

\* Where nothing of it changes, everything stays as it is.
LEMMA NothingChanges ==
  ASSUME Resolvable, UNCHANGED <<air, services, serviceComps, current, announced>>, TodoNamed'
  PROVE  Resolvable'
BY DEF Resolvable, CompsSound, CompSound, ServicesSound, ServicesDense, ServicesNamed, ServicesDiffer,
       ServicesProvided, Known, Provided, ProvidedAs

\* One component is changed into a sound one.
LEMMA CompChanged ==
  ASSUME TypeOK, CompsSound, UNCHANGED <<air, current>>, NEW k \in CompSlots, NEW c,
         serviceComps' = [serviceComps EXCEPT ![current][k] = c], CompSound(c),
         serviceComps[current][k].inUse =>
           /\ c.inUse /\ c.SId = serviceComps[current][k].SId
           /\ c.SCIds = serviceComps[current][k].SCIds
              \/ serviceComps[current][k].SCIds \in {0, -1}
  PROVE  CompsSound' /\ CompsStay /\ serviceComps'[current][k] = c
<1>1. current \in Configs
  BY DEF TypeOK
<1>2. \A i \in CompSlots :
        serviceComps'[current][i] = IF i = k THEN c ELSE serviceComps[current][i]
  BY <1>1 DEF TypeOK
<1>3. ASSUME NEW i \in CompSlots
      PROVE  CompSound(serviceComps[current][i])'
  <2>1. CompSound(serviceComps'[current][i])
    BY <1>2 DEF CompsSound
  <2> QED
    BY <2>1 DEF CompSound
<1>4. CompsStay
  BY <1>2 DEF CompsStay
<1> QED
  BY <1>2, <1>3, <1>4 DEF CompsSound

\* The fields of a component that was just bound, or changed.
LEMMA CurrentComp ==
  ASSUME TypeOK, NEW k \in CompSlots
  PROVE  serviceComps[current][k] \in Comp
BY CompFields DEF TypeOK

\* Services whose flags are set or whose SCIds is taken back are edited.
LEMMA EditedServices ==
  ASSUME TypeOK, NEW s \in ServiceSlots,
         \/ services' = services
         \/ services' = [services EXCEPT ![s].isShown = TRUE]
         \/ services' = [services EXCEPT ![s].SCIds = 0, ![s].isShown = TRUE]
         \/ services' = [services EXCEPT ![s].SCIds = 0, ![s].hasName = TRUE]
  PROVE  ServicesEdited
<1>1. services \in [ServiceSlots -> Service]
  BY DEF TypeOK
<1> QED
  BY <1>1 DEF Service, ServicesEdited

\* No component changes.
LEMMA CompsUnchanged ==
  ASSUME UNCHANGED <<air, current, serviceComps>>
  PROVE  CompsStay /\ (CompsSound => CompsSound')
BY DEF CompsStay, CompsSound, CompSound

\* FIG 0/2 of an ensemble in order binds to the current configuration.
LEMMA TodoIsCurrent ==
  ASSUME Consistent(air), TypeOK, TodoNamed, BindNext
  PROVE  /\ Head(todo) \in Bindings(air) /\ Head(todo) \in Binding
         /\ Base(Head(todo).CN) = current
         /\ UNCHANGED air => TodoNamed'
<1>1. todo \in Seq(Binding) /\ todo # <<>> /\ todo' = Tail(todo)
  BY DEF TypeOK, BindNext
<1>2. 1 \in DOMAIN todo /\ Head(todo) = todo[1] /\ Head(todo) \in Binding
  BY <1>1
<1>3. Head(todo) \in Bindings(air)
  BY <1>2 DEF TodoNamed
<1>4. Head(todo).CN = 0
  BY <1>3 DEF Consistent
<1>5. \A i \in DOMAIN Tail(todo) : i + 1 \in DOMAIN todo /\ Tail(todo)[i] = todo[i + 1]
  BY <1>1
<1>6. UNCHANGED air => TodoNamed'
  BY <1>1, <1>5 DEF TodoNamed
<1> QED
  BY <1>2, <1>3, <1>4, <1>6 DEF Base

\* A round of the bind loop: bind_audioService announces the service with the
\* component it has just entered.
LEMMA BindResolves ==
  ASSUME Consistent(air), TypeOK, Resolvable, BindNext, ~overrun', UNCHANGED air
  PROVE  Resolvable'
<1> DEFINE b == Head(todo)
           s == FindService(b.SId)
           k == FreeComp(current)
<1>1. b \in Bindings(air) /\ b \in Binding /\ Base(b.CN) = current /\ TodoNamed'
  BY TodoIsCurrent DEF Resolvable
<1>2. UNCHANGED current
  BY DEF BindNext
<1>3. s # -1 => s \in ServiceSlots /\ services[s].SId = b.SId /\ services[s].inUse
  BY FoundService
<1>4. k # -1 => k \in CompSlots /\ ~serviceComps[current][k].inUse
  BY FreeCompIsLeast
<1>5. ASSUME s # -1, k # -1, NEW c, CompSound(c), c.inUse, c.SId = b.SId,
             serviceComps' = [serviceComps EXCEPT ![current][k] = c],
             ServicesEdited, announced' \subseteq announced \cup {<<services[s].label, b.SId>>}
      PROVE  Resolvable'
  <2>1. k \in CompSlots /\ ~serviceComps[current][k].inUse
    BY <1>4, <1>5
  <2> HIDE DEF k
  <2>2. CompsSound' /\ CompsStay /\ serviceComps'[current][k] = c
    BY <1>2, <1>5, <2>1, CompChanged DEF Resolvable
  <2>3. ServicesSound' /\ \A a : Known(a) => Known(a)'
    BY <1>5, <2>2, EditedStaySound DEF Resolvable
  <2> PICK x : x = b.SId
    OBVIOUS
  <2>4. Provided(x)'
    <3>1. current' = current /\ serviceComps'[current][k].inUse /\ serviceComps'[current][k].SId = x
      BY <1>2, <1>5, <2>2
    <3> QED
      BY <2>1, <3>1 DEF Provided
  <2>5. /\ s \in ServiceSlots /\ services'[s].inUse /\ services'[s].label = services[s].label
        /\ <<services[s].label, x>> \in Names(air)
    BY <1>3, <1>5 DEF ServicesEdited, Resolvable, ServicesSound, ServicesNamed
  <2> HIDE DEF s, b
  <2>6. \A a \in announced' : Known(a)'
    <3> SUFFICES ASSUME NEW a \in announced' PROVE Known(a)'
      OBVIOUS
    <3>1. CASE a \in announced
      BY <2>3, <3>1 DEF Resolvable
    <3>2. CASE a = <<services[s].label, x>>
      <4>1. a[1] = services[s].label /\ a[2] = x /\ a \in Names(air)
        BY <2>5, <3>2
      <4>2. \E i \in ServiceSlots : services'[i].inUse /\ services'[i].label = a[1]
        BY <2>5, <4>1
      <4>3. Provided(a[2])'
        BY <2>4, <4>1
      <4> QED
        BY <4>1, <4>2, <4>3 DEF Known
    <3> QED
      BY <1>5, <3>1, <3>2
  <2> QED
    BY <1>1, <2>2, <2>3, <2>6 DEF Resolvable
<1>6. ASSUME UNCHANGED <<serviceComps, announced>>, ServicesEdited
      PROVE  Resolvable'
  <2>1. CompsStay /\ CompsSound'
    BY <1>2, <1>6, CompsUnchanged DEF Resolvable
  <2>2. ServicesSound' /\ \A a : Known(a) => Known(a)'
    BY <1>6, <2>1, EditedStaySound DEF Resolvable
  <2> QED
    BY <1>1, <1>6, <2>1, <2>2 DEF Resolvable
<1>7. k # -1 => CompSound(serviceComps[current][k])
  BY <1>4 DEF Resolvable, CompsSound
<1>8. CASE bind_audioService(b) /\ k # -1
  <2> DEFINE c == [inUse |-> TRUE, TMid |-> 0, SId |-> b.SId, SCIds |-> 0,
                   subCh |-> b.ref, compNr |-> b.compNr,
                   SCId |-> serviceComps[current][k].SCId,
                   madePublic |-> serviceComps[current][k].madePublic]
  <2>1. /\ s # -1 /\ b.TMid = 0 /\ serviceComps' = [serviceComps EXCEPT ![current][k] = c]
        /\ services' = [services EXCEPT ![s].SCIds = 0, ![s].isShown = TRUE]
        /\ announced' = announced \cup {<<services[s].label, b.SId>>}
    BY <1>1, <1>8 DEF bind_audioService
  <2>2. ServicesEdited
    BY <1>3, <2>1, EditedServices
  <2>3. serviceComps[current][k].SCId = -1
    BY <1>4, <1>7, <1>8 DEF CompSound
  <2>4. CompSound(c)
    <3> HIDE DEF k
    <3> QED
      BY <1>1, <2>1, <2>3 DEF CompSound
  <2>5. c.inUse /\ c.SId = b.SId
    OBVIOUS
  <2> HIDE DEF c
  <2> QED
    BY <1>5, <1>8, <2>1, <2>2, <2>4, <2>5
<1>9. CASE bind_packetService(b) /\ k # -1
  <2> DEFINE c == [inUse |-> TRUE, TMid |-> 3, SId |-> b.SId,
                   SCIds |-> IF b.compNr = 0 THEN 0 ELSE -1,
                   subCh |-> serviceComps[current][k].subCh, compNr |-> b.compNr,
                   SCId |-> b.ref, madePublic |-> FALSE]
  <2>1. /\ s # -1 /\ b.TMid = 3 /\ serviceComps' = [serviceComps EXCEPT ![current][k] = c]
        /\ services' = services /\ announced' = announced
    BY <1>1, <1>9 DEF bind_packetService
  <2>2. ServicesEdited
    BY <2>1 DEF ServicesEdited
  <2>3. serviceComps[current][k].subCh = -1
    BY <1>4, <1>7, <1>9 DEF CompSound
  <2>4. CompSound(c)
    <3> HIDE DEF k
    <3> QED
      BY <1>1, <2>1, <2>3 DEF CompSound
  <2>5. c.inUse /\ c.SId = b.SId
    OBVIOUS
  <2> HIDE DEF c
  <2> QED
    BY <1>5, <1>9, <2>1, <2>2, <2>4, <2>5
<1>10. CASE bind_audioService(b) /\ k = -1
  BY <1>1, <1>10 DEF bind_audioService
<1>11. CASE \/ bind_packetService(b) /\ k = -1
            \/ bind_nothing(b)
  <2>1. UNCHANGED <<serviceComps, announced>> /\ services' = services
    BY <1>1, <1>11 DEF bind_packetService, bind_nothing
  <2>2. ServicesEdited
    BY <2>1 DEF ServicesEdited
  <2> QED
    BY <1>6, <2>1, <2>2
<1> QED
  BY <1>8, <1>9, <1>10, <1>11 DEF BindNext

\* FIG 0/3 announces the service of the packet component it gives a sub-channel.
LEMMA PublishResolves ==
  ASSUME Consistent(air), TypeOK, Resolvable, NEW f \in air, f \in Fig, FIG0Extension3(f),
         UNCHANGED air
  PROVE  Resolvable'
<1> DEFINE k == FindBySCId(current, f.SCId)
           s == FindService(serviceComps[current][k].SId)
<1>1. f.CN = 0 /\ f.SCId \in SCIdSet /\ f.type = "0/3"
  BY DEF FIG0Extension3, Fig, Consistent
<1>2. Base(f.CN) = current
  BY <1>1 DEF Base
<1>3. UNCHANGED <<current, todo>>
  BY DEF FIG0Extension3
<1>4. TodoNamed'
  BY <1>3 DEF Resolvable, TodoNamed
<1>5. CASE UNCHANGED <<announced, services, serviceComps>>
  BY <1>3, <1>4, <1>5, NothingChanges
<1>6. CASE ~UNCHANGED <<announced, services, serviceComps>>
  <2>1. /\ k # -1 /\ s # -1
        /\ announced' = IF services[s].isShown THEN announced
                        ELSE announced \cup {<<services[s].label, services[s].SId>>}
        /\ services' = [services EXCEPT ![s].isShown = TRUE]
        /\ serviceComps' = [serviceComps EXCEPT ![current][k].madePublic = TRUE,
                                                ![current][k].subCh = f.subChId]
    BY <1>2, <1>6 DEF FIG0Extension3
  <2>2. /\ k \in CompSlots /\ serviceComps[current][k].inUse
        /\ serviceComps[current][k].SCId = f.SCId
    BY <2>1, FoundBySCId, FoundHasSCId
  <2>3. s \in ServiceSlots /\ services[s].inUse /\ services[s].SId = serviceComps[current][k].SId
    BY <2>1, FoundService
  <2> HIDE DEF s, k
  <2> DEFINE o == serviceComps[current][k]
             c == [o EXCEPT !.madePublic = TRUE, !.subCh = f.subChId]
  <2>4. o \in Comp
    BY <2>2, CurrentComp
  <2>5. /\ c.inUse = o.inUse /\ c.TMid = o.TMid /\ c.SId = o.SId /\ c.SCIds = o.SCIds
        /\ c.compNr = o.compNr /\ c.SCId = o.SCId /\ c.subCh = f.subChId
    BY <2>4 DEF Comp
  <2>6. serviceComps' = [serviceComps EXCEPT ![current][k] = c]
    BY <2>1, <2>2 DEF TypeOK
  <2>7. CompSound(o)
    BY <2>2 DEF Resolvable, CompsSound
  <2> HIDE DEF c
  <2>8. CompSound(c)
    <3>1. o.TMid # 0
      BY <1>1, <2>2, <2>7, SubChAssumption DEF CompSound
    <3>2. PICK b \in Bindings(air) :
            b.SId = o.SId /\ b.compNr = o.compNr /\ b.TMid = o.TMid /\ o.SCId = b.ref
      BY <2>2, <2>7, <3>1 DEF CompSound
    <3>3. OnSubCh(air, b, c.subCh)
      BY <1>1, <2>2, <2>5, <3>1, <3>2 DEF OnSubCh
    <3>4. o.SCIds \in {0, -1, o.compNr} /\ (o.compNr = 0 => o.SCIds = 0)
      BY <2>2, <2>7 DEF CompSound
    <3> HIDE DEF o
    <3> QED
      BY <2>2, <2>5, <3>1, <3>2, <3>3, <3>4 DEF CompSound, o
  <2>9. CompsSound' /\ CompsStay /\ serviceComps'[current][k] = c
    BY <1>3, <2>2, <2>5, <2>6, <2>8, CompChanged DEF Resolvable
  <2>10. ServicesEdited
    BY <2>1, <2>3, EditedServices
  <2>11. ServicesSound' /\ \A a : Known(a) => Known(a)'
    BY <2>9, <2>10, EditedStaySound DEF Resolvable
  <2>12. Provided(services[s].SId)
    BY <2>2, <2>3 DEF Provided
  <2>13. Known(<<services[s].label, services[s].SId>>)
    BY <2>3, <2>12 DEF Known, Resolvable, ServicesSound, ServicesNamed
  <2>14. \A a \in announced' : Known(a)'
    BY <2>1, <2>11, <2>13 DEF Resolvable
  <2> QED
    BY <1>4, <2>9, <2>11, <2>14 DEF Resolvable
<1> QED
  BY <1>5, <1>6

\* FIG 0/8 gives a component the number it has.
LEMMA GlobalResolves ==
  ASSUME Consistent(air), TypeOK, Resolvable, NEW f \in air, f \in Fig, FIG0Extension8(f),
         UNCHANGED air
  PROVE  Resolvable'
<1> DEFINE k == IF f.form = "long" THEN FindBySCId(current, f.ref)
                ELSE IF subChannels[current][f.ref] THEN FindBySubCh(current, f.SId, f.ref)
                ELSE -1
           o == serviceComps[current][k]
           c == [o EXCEPT !.SCIds = f.SCIds]
<1>1. /\ f.type = "0/8" /\ f.CN = 0 /\ f.SCIds \in CompNrs
      /\ f.form = "long" => f.ref \in SCIdSet
      /\ f.form # "long" => f.ref \in SubChIds
  BY DEF FIG0Extension8, Fig, Consistent
<1>2. Base(f.CN) = current
  BY <1>1 DEF Base
<1>3. /\ UNCHANGED <<current, todo, services, announced>>
      /\ serviceComps' = IF k = -1 THEN serviceComps
                         ELSE [serviceComps EXCEPT ![current][k].SCIds = f.SCIds]
  BY <1>2 DEF FIG0Extension8
<1>4. TodoNamed'
  BY <1>3 DEF Resolvable, TodoNamed
<1>5. CASE k = -1
  BY <1>3, <1>4, <1>5, NothingChanges
<1>6. CASE k # -1
  <2>1. /\ k \in CompSlots /\ o.inUse
        /\ f.form = "long" => o.SCId = f.ref
        /\ f.form # "long" => o.SId = f.SId /\ o.subCh = f.ref
    <3>1. CASE f.form = "long"
      BY <1>6, <3>1, FoundBySCId, FoundHasSCId
    <3>2. CASE f.form # "long"
      BY <1>6, <3>2, FoundBySubCh, FoundHasSubCh
    <3> QED
      BY <3>1, <3>2
  <2>2. serviceComps' = [serviceComps EXCEPT ![current][k] = c]
    BY <1>3, <1>6, <2>1 DEF TypeOK
  <2>3. CompSound(o)
    BY <2>1 DEF Resolvable, CompsSound
  <2> HIDE DEF k
  <2>4. o \in Comp
    BY <2>1, CurrentComp
  <2>5. /\ c.inUse = o.inUse /\ c.TMid = o.TMid /\ c.SId = o.SId /\ c.SCIds = f.SCIds
        /\ c.compNr = o.compNr /\ c.SCId = o.SCId /\ c.subCh = o.subCh
    BY <2>4 DEF Comp
  <2> HIDE DEF c, o
  <2>6. o.compNr = f.SCIds
    <3>1. PICK b \in Bindings(air) :
            /\ b.SId = o.SId /\ b.compNr = o.compNr /\ b.TMid = o.TMid
            /\ IF o.TMid = 0 THEN o.SCId = -1 /\ o.subCh = b.ref
               ELSE o.SCId = b.ref /\ (o.subCh = -1 \/ OnSubCh(air, b, o.subCh))
      BY <2>1, <2>3 DEF CompSound
    <3>2. o.TMid \in {0, 3}
      BY <2>4 DEF Comp
    <3>3. CASE f.form = "long"
      <4>1. o.TMid = 3 /\ b.ref = f.ref
        BY <1>1, <2>1, <3>1, <3>2, <3>3, SubChAssumption
      <4> QED
        BY <1>1, <3>1, <3>3, <4>1 DEF Consistent
    <3>4. CASE f.form # "long"
      <4>1. o.subCh # -1
        BY <1>1, <2>1, <3>4, SubChAssumption
      <4>2. OnSubCh(air, b, f.ref)
        BY <2>1, <3>1, <3>4, <4>1 DEF OnSubCh
      <4> QED
        BY <1>1, <2>1, <3>1, <3>4, <4>2 DEF Consistent
    <3> QED
      BY <3>3, <3>4
  <2>7. o.SCIds \in {0, -1, f.SCIds} /\ (f.SCIds = 0 => o.SCIds = 0)
    BY <2>1, <2>3, <2>6 DEF CompSound
  <2>8. CompSound(c)
    BY <2>1, <2>3, <2>5, <2>6 DEF CompSound
  <2>9. CompsSound' /\ CompsStay
    BY <1>3, <2>1, <2>2, <2>5, <2>7, <2>8, CompChanged DEF Resolvable, o
  <2>10. ServicesEdited
    BY <1>3 DEF ServicesEdited
  <2>11. ServicesSound' /\ \A a : Known(a) => Known(a)'
    BY <2>9, <2>10, EditedStaySound DEF Resolvable
  <2> QED
    BY <1>3, <1>4, <2>9, <2>11 DEF Resolvable
<1> QED
  BY <1>5, <1>6

\* A full table has all the labels of an ensemble in order.
LEMMA FullIsNamed ==
  ASSUME Consistent(air), ServicesNamed, ServicesDiffer, FreeService = -1,
         NEW n \in Names(air)
  PROVE  \E i \in ServiceSlots : services[i].inUse /\ services[i].label = n[1]
<1>1. \A i \in ServiceSlots : services[i].inUse
  <2> DEFINE S == {i \in ServiceSlots : ~services[i].inUse}
  <2>1. S \in SUBSET Nat /\ FreeService = First(S)
    BY Slots DEF FreeService
  <2>2. S = {}
    BY <2>1, FirstIsLeast
  <2> QED
    BY <2>2
<1> SUFFICES ASSUME \A i \in ServiceSlots : services[i].label # n[1]
             PROVE  FALSE
  BY <1>1
<1>2. NServices \in Nat /\ NServices > 0
  BY SizesAssumption
<1> DEFINE who(i) == IF i = NServices THEN n ELSE <<services[i].label, services[i].SId>>
           name == [i \in 0 .. NServices |-> who(i)]
<1>3. \A i \in 0 .. NServices : i # NServices => i \in ServiceSlots
  BY <1>2 DEF ServiceSlots
<1>4. name \in [0 .. NServices -> Names(air)]
  <2>1. \A i \in 0 .. NServices : who(i) \in Names(air)
    BY <1>1, <1>3 DEF ServicesNamed
  <2> QED
    BY <2>1
<1>5. IsFiniteSet(0 .. NServices) /\ Cardinality(0 .. NServices) = NServices + 1
  BY <1>2, FS_Interval
<1>6. IsFiniteSet(Names(air)) /\ Cardinality(Names(air)) <= NServices
  BY DEF Consistent
<1>7. Cardinality(Names(air)) < Cardinality(0 .. NServices)
  BY <1>2, <1>5, <1>6, FS_CardinalityType
<1>8. PICK x \in 0 .. NServices, y \in 0 .. NServices : x # y /\ name[x] = name[y]
  <2> HIDE DEF name
  <2> QED
    BY <1>4, <1>5, <1>6, <1>7, FS_PigeonHole
<1>9. who(x) = who(y)
  BY <1>8
<1>10. CASE x = NServices
  <2>1. y \in ServiceSlots /\ y # NServices
    BY <1>3, <1>8, <1>10
  <2>2. n[1] = services[y].label
    BY <1>9, <1>10, <2>1
  <2> QED
    BY <2>1, <2>2
<1>11. CASE y = NServices
  <2>1. x \in ServiceSlots /\ x # NServices
    BY <1>3, <1>8, <1>11
  <2>2. n[1] = services[x].label
    BY <1>9, <1>11, <2>1
  <2> QED
    BY <2>1, <2>2
<1>12. CASE x # NServices /\ y # NServices
  <2>1. x \in ServiceSlots /\ y \in ServiceSlots
    BY <1>3, <1>12
  <2>2. services[x].label = services[y].label
    BY <1>9, <1>12
  <2> QED
    BY <1>1, <1>8, <2>1, <2>2 DEF ServicesDiffer
<1> QED
  BY <1>10, <1>11, <1>12

\* FIG 1/1, 1/4 and 1/5 enter a service that is not there yet; FIG 1/4 has room
\* for the one it announces.
LEMMA NameResolves ==
  ASSUME Consistent(air), TypeOK, Resolvable, NEW f \in air, f \in Fig,
         FIG1Extension1(f) \/ FIG1Extension4(f) \/ FIG1Extension5(f), UNCHANGED air
  PROVE  Resolvable'
<1>1. /\ f.type \in {"1/1", "1/4", "1/5"} /\ f.label \in Labels /\ f.SId \in SIds
      /\ f.type = "1/4" => f.SCIds \in CompNrs
      /\ UNCHANGED <<current, serviceComps, todo>>
  BY DEF FIG1Extension1, FIG1Extension4, FIG1Extension5, Fig
<1>2. <<f.label, f.SId>> \in Names(air)
  BY <1>1 DEF Names
<1>3. TodoNamed' /\ CompsStay /\ CompsSound'
  BY <1>1, CompsUnchanged DEF Resolvable, TodoNamed
<1>4. ASSUME FindByName(f.label) = -1, NEW i \in ServiceSlots, services[i].inUse
      PROVE  services[i].label # f.label
  BY <1>4, NameIsFound
<1>5. ASSUME ServicesEdited, UNCHANGED announced
      PROVE  Resolvable'
  BY <1>3, <1>5, EditedStaySound DEF Resolvable
<1>6. ASSUME FindByName(f.label) = -1, ServiceEntered(f.SId, 0, f.label)
      PROVE  ServicesSound' /\ \A a : Known(a) => Known(a)'
  <2> PICK n : n = 0
    OBVIOUS
  <2>1. ServiceEntered(f.SId, n, f.label) /\ (n # 0 => n # -1 /\ ProvidedAs(f.SId, n))
    BY <1>6
  <2> QED
    BY <1>2, <1>3, <1>4, <1>6, <2>1, EnteredStaySound DEF Resolvable
<1>7. CASE UNCHANGED <<services, announced>>
  BY <1>5, <1>7 DEF ServicesEdited
<1>8. CASE FIG1Extension1(f) /\ FindByName(f.label) # -1
  <2>1. FindByName(f.label) \in ServiceSlots
    BY <1>8, FoundByName
  <2>2. services' = [services EXCEPT ![FindByName(f.label)].SCIds = 0,
                                     ![FindByName(f.label)].hasName = TRUE]
        /\ UNCHANGED announced
    BY <1>8 DEF FIG1Extension1
  <2> QED
    BY <1>5, <2>1, <2>2, EditedServices
<1>9. CASE FIG1Extension1(f) /\ FindByName(f.label) = -1
  <2>1. services' = Created(f.SId, 0, f.label) /\ UNCHANGED announced
    BY <1>9 DEF FIG1Extension1
  <2>2. CASE FreeService = -1
    BY <1>7, <2>1, <2>2 DEF Created
  <2>3. CASE FreeService # -1
    <3>1. ServiceEntered(f.SId, 0, f.label)
      BY <2>1, <2>3 DEF ServiceEntered
    <3>2. ServicesSound' /\ \A a : Known(a) => Known(a)'
      BY <1>6, <1>9, <3>1
    <3> QED
      BY <1>3, <2>1, <3>2 DEF Resolvable
  <2> QED
    BY <2>2, <2>3
<1>10. CASE FIG1Extension5(f) /\ ~UNCHANGED services
  <2>1. FindService(f.SId) = -1 /\ services' = Created(f.SId, 0, f.label) /\ UNCHANGED announced
    BY <1>10 DEF FIG1Extension5
  <2>2. FindByName(f.label) = -1
    <3> SUFFICES ASSUME FindByName(f.label) # -1 PROVE FALSE
      OBVIOUS
    <3> DEFINE i == FindByName(f.label)
    <3>1. i \in ServiceSlots /\ services[i].inUse /\ services[i].label = f.label
      BY FoundByName
    <3> HIDE DEF i
    <3>2. services[i].SId = f.SId
      <4>1. <<services[i].label, services[i].SId>> \in Names(air)
        BY <3>1 DEF Resolvable, ServicesSound, ServicesNamed
      <4>2. \A n, m \in Names(air) : n[1] = m[1] => n[2] = m[2]
        BY DEF Consistent
      <4> QED
        BY <1>2, <3>1, <4>1, <4>2
    <3> QED
      BY <2>1, <3>1, <3>2, DenseIsFound DEF Resolvable, ServicesSound
  <2>3. FreeService # -1
    BY <1>10, <2>1 DEF Created
  <2>4. ServiceEntered(f.SId, 0, f.label)
    BY <2>1, <2>3 DEF ServiceEntered
  <2>5. ServicesSound' /\ \A a : Known(a) => Known(a)'
    BY <1>6, <2>2, <2>4
  <2> QED
    BY <1>3, <2>1, <2>5 DEF Resolvable
<1>11. CASE FIG1Extension4(f) /\ ~UNCHANGED <<services, announced>>
  <2> DEFINE k == FindComp(current, f.SId, f.SCIds)
  <2>1. /\ k > 0 /\ FindByName(f.label) = -1
        /\ services' = Created(f.SId, f.SCIds, f.label)
        /\ announced' = announced \cup {<<f.label, f.SId>>}
    BY <1>11 DEF FIG1Extension4
  <2>2. /\ k \in CompSlots /\ serviceComps[current][k].inUse
        /\ serviceComps[current][k].SId = f.SId /\ serviceComps[current][k].SCIds = f.SCIds
    BY <2>1, FoundComp, FoundHasSCIds
  <2>3. ProvidedAs(f.SId, f.SCIds) /\ Provided(f.SId) /\ f.SCIds # -1
    <3> HIDE DEF k
    <3>1. f.SCIds # -1
      BY <1>1, <1>11 DEF FIG1Extension4, CompNrs
    <3> QED
      BY <2>2, <3>1 DEF ProvidedAs, Provided
  <2>4. FreeService # -1
    <3> SUFFICES ASSUME FreeService = -1 PROVE FALSE
      OBVIOUS
    <3> DEFINE n == <<f.label, f.SId>>
    <3>1. n \in Names(air) /\ n[1] = f.label
      BY <1>2
    <3> HIDE DEF n
    <3>2. \E i \in ServiceSlots : services[i].inUse /\ services[i].label = f.label
      BY <3>1, FullIsNamed DEF Resolvable, ServicesSound
    <3> QED
      BY <1>4, <2>1, <3>2
  <2>5. /\ ServicesSound' /\ \A a : Known(a) => Known(a)'
        /\ \E i \in ServiceSlots : services'[i].inUse /\ services'[i].label = f.label
    <3>1. ServiceEntered(f.SId, f.SCIds, f.label)
      BY <2>1, <2>4 DEF ServiceEntered
    <3> QED
      BY <1>2, <1>3, <1>4, <2>1, <2>3, <3>1, EnteredStaySound DEF Resolvable
  <2>6. Provided(f.SId)'
    BY <1>3, <2>3, StaysProvided
  <2>7. \A a \in announced' : Known(a)'
    <3> SUFFICES ASSUME NEW a \in announced' PROVE Known(a)'
      OBVIOUS
    <3>1. CASE a \in announced
      BY <2>5, <3>1 DEF Resolvable
    <3>2. CASE a = <<f.label, f.SId>>
      <4>1. a[1] = f.label /\ a[2] = f.SId /\ a \in Names(air)
        BY <1>2, <3>2
      <4>2. \E i \in ServiceSlots : services'[i].inUse /\ services'[i].label = a[1]
        BY <2>5, <4>1
      <4>3. Provided(a[2])'
        BY <2>6, <4>1
      <4> QED
        BY <4>1, <4>2, <4>3 DEF Known
    <3> QED
      BY <2>1, <3>1, <3>2
  <2> QED
    BY <1>3, <2>5, <2>7 DEF Resolvable
<1> QED
  BY <1>7, <1>8, <1>9, <1>10, <1>11 DEF FIG1Extension1, FIG1Extension5

\* Each step of an ensemble in order keeps what was announced resolvable.
LEMMA StepKeepsResolvable ==
  ASSUME air \in Ensembles, Consistent(air), TypeOK, Resolvable, [Next]_<<vars, air>>,
         ~overrun'
  PROVE  Resolvable'
<1>1. air' = air
  BY DEF Next
<1>2. CASE Restart \/ Stop
  <2>1. /\ UNCHANGED <<current, todo>> /\ announced' = {} /\ services' = NoServices
        /\ serviceComps' = [c \in Configs |-> NoComps]
    BY <1>2 DEF Restart, Stop, ResetAll
  <2>2. TodoNamed'
    BY <1>1, <2>1 DEF Resolvable, TodoNamed
  <2>3. CompsSound'
    BY <1>1, <2>1 DEF TypeOK, CompsSound, CompSound, NoComps, NoComp
  <2>4. ServicesSound'
    BY <2>1 DEF ServicesSound, ServicesDense, ServicesNamed, ServicesDiffer, ServicesProvided,
       NoServices, NoService
  <2> QED
    BY <2>1, <2>2, <2>3, <2>4 DEF Resolvable
<1>3. CASE BindNext
  BY <1>1, <1>3, BindResolves
<1>4. ASSUME NEW f \in air, process_FIG(f)
      PROVE  Resolvable'
  <2>1. f \in Fig /\ f.type # "0/0"
    BY EnsemblesAssumption DEF Consistent
  <2>2. CASE FIG0Extension2(f)
    <3>1. ASSUME NEW i \in DOMAIN todo' PROVE todo'[i] \in Bindings(air)
      BY <2>2 DEF FIG0Extension2, Bindings
    <3>2. TodoNamed'
      BY <1>1, <3>1 DEF TodoNamed
    <3> QED
      BY <1>1, <2>2, <3>2, NothingChanges DEF FIG0Extension2, dbVars
  <2>3. CASE \/ FIG0Extension1(f) \/ FIG0Extension18(f) \/ FIG0Extension19(f)
             \/ FIG1Extension0(f)
    <3>1. UNCHANGED <<services, serviceComps, current, announced, todo>>
      BY <2>3 DEF FIG0Extension1, FIG0Extension18, FIG0Extension19, FIG1Extension0
    <3>2. TodoNamed'
      BY <1>1, <3>1 DEF Resolvable, TodoNamed
    <3> QED
      BY <1>1, <3>1, <3>2, NothingChanges
  <2>4. CASE FIG0Extension3(f)
    BY <1>1, <2>1, <2>4, PublishResolves
  <2>5. CASE FIG0Extension8(f)
    BY <1>1, <2>1, <2>5, GlobalResolves
  <2>6. CASE FIG1Extension1(f) \/ FIG1Extension4(f) \/ FIG1Extension5(f)
    BY <1>1, <2>1, <2>6, NameResolves
  <2>7. ~FIG0Extension0(f)
    BY <2>1 DEF FIG0Extension0
  <2> QED
    BY <1>4, <2>2, <2>3, <2>4, <2>5, <2>6, <2>7 DEF process_FIG
<1>5. CASE BeginFIB \/ EndFIB \/ Gui \/ UNCHANGED vars
  <2>1. UNCHANGED <<services, serviceComps, current, announced, todo>>
    BY <1>5 DEF BeginFIB, EndFIB, Gui, Lookup, LookAt, NotFound, guiOnly, getSubChId,
     dataforAudioService, dataforPacketService, vars, dbVars
  <2>2. TodoNamed'
    BY <1>1, <2>1 DEF Resolvable, TodoNamed
  <2> QED
    BY <1>1, <2>1, <2>2, NothingChanges
<1> QED
  BY <1>2, <1>3, <1>4, <1>5 DEF Next, Received

\* Initially nothing is announced and the tables are empty.
LEMMA InitResolvable == Init => Resolvable
BY DEF Init, Resolvable, TodoNamed, CompsSound, CompSound, ServicesSound, ServicesDense,
   ServicesNamed, ServicesDiffer, ServicesProvided, NoServices, NoService, NoComps, NoComp, Configs

\* What was written outside serviceComps stays written.
LEMMA OverrunStays ==
  ASSUME overrun \in BOOLEAN, [AnyNext]_vars
  PROVE  overrun => overrun'
<1>1. CASE BindNext
  BY <1>1 DEF BindNext, bind_audioService, bind_packetService, bind_nothing
<1>2. ASSUME NEW f \in Figs, process_FIG(f)
      PROVE  UNCHANGED overrun
  BY <1>2 DEF process_FIG, FIG0Extension0, FIG0Extension1, FIG0Extension2, FIG0Extension3,
     FIG0Extension8, FIG0Extension18, FIG0Extension19, FIG1Extension0, FIG1Extension1,
     FIG1Extension4, FIG1Extension5, dbVars
<1>3. CASE BeginFIB \/ EndFIB \/ Restart \/ Stop \/ Gui
  BY <1>3 DEF BeginFIB, EndFIB, Restart, Stop, ResetAll, Gui, Lookup, LookAt, NotFound, guiOnly,
     getSubChId, dataforAudioService, dataforPacketService, dbVars
<1> QED
  BY <1>1, <1>2, <1>3, Zenon DEF AnyNext, Received, vars, dbVars

\* In an ensemble that is coded in order and keeps its configuration, what was
\* announced to the GUI can be resolved by the query the GUI makes, whatever
\* FIGs are lost, repeated or come first, and however often the channel is left.
THEOREM AnnouncedAreResolved == Spec => []AnnouncedResolvesStatic
<1> DEFINE RInv == Consistent(air) /\ ~overrun => Resolvable
<1>1. Init => RInv
  BY InitResolvable
<1>2. IInv /\ air \in Ensembles /\ RInv /\ [Next]_<<vars, air>> => RInv'
  <2> SUFFICES ASSUME IInv, air \in Ensembles, RInv, [Next]_<<vars, air>>, Consistent(air)',
                      ~overrun'
               PROVE  Resolvable'
    OBVIOUS
  <2>1. air' = air
    BY DEF Next
  <2>2. Consistent(air)
    BY <2>1 DEF Consistent, Bindings, Names, OnSubCh
  <2>3. ~overrun
    BY AirStays, OverrunStays DEF IInv, TypeOK
  <2> QED
    BY <2>2, <2>3, StepKeepsResolvable DEF IInv
<1>3. IInv /\ RInv => AnnouncedResolvesStatic
  BY ResolvableResolves DEF IInv, Tables, AnnouncedResolvesStatic
<1> QED
  BY <1>1, <1>2, <1>3, InvariantHolds, AirIsOfFigs, PTL DEF Spec
=============================================================================
