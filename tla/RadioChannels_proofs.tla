------------------------- MODULE RadioChannels_proofs -------------------------
(***************************************************************************)
(* Proofs about RadioChannels, for every number of channels and posted     *)
(* events, whatever the user does, but for the clicks inside               *)
(* processEvents () that NestedUser stands for.                            *)
(***************************************************************************)
EXTENDS RadioChannels, SequenceTheorems, WellFoundedInduction, TLAPS

-----------------------------------------------------------------------------
(* The invariant.                                                          *)

\* A suspended slot, with what it will do when it goes on.
OnChannel == {"noSignal", "channel", "button", "reset"}
Frame == [op : OnChannel, arg : Channels, owed : Nat]
         \cup [op : {"select"}, arg : Channels \X Services, owed : Nat]
         \cup [op : {"scan", "device"}, arg : {NoChannel}, owed : Nat]

\* Calls of the channel selector's slot still to make; the user has caused them
\* from the event loop.
Call == [arg : Channels, left : Int, depth : {0}]

\* What the thread of the DAB processor posts.
Event == [type : {"name", "change", "noSignal"}, ch : Channels]
         \cup [type : {"service"}, ch : Channels, s : Services]

\* The types the rest needs.
Types ==
  /\ db \in Channels \cup {NoChannel} /\ channelName \in Channels /\ selected \in Channels
  /\ noSignalOn \in Nat /\ connections \in Int
  /\ posted \in Seq(Event) /\ frames \in Seq(Frame) /\ again \in {<<>>} \cup Call

\* Inside processEvents () only No_Signal_Found calls stopChannel again.
Nested == \A i \in 2 .. Len(frames) : frames[i].op = "noSignal"

\* A slot of the user's that is suspended has disturbed the scan ...
UserFirst == frames # <<>> /\ frames[1].op # "noSignal" => ~undisturbed

\* ... and ended it, where it does so.
ScanOff ==
  frames # <<>> /\ frames[1].op \in {"channel", "button", "reset", "device"} => ~scanning

\* While a signal of the user's calls its slots no scan begins.
CalledAgain ==
  again # <<>> => ~undisturbed /\ (frames # <<>> => frames[1].op # "scan")

\* stopChannel has stopped the preset timer; the slot that starts it again is
\* the last to go on.
PresetOff == frames # <<>> => ~presetTimer

\* A single scan left alone has visited an initial part of the channels
\* without the skip flag, and goes on from a channel that it has visited.
InOrder ==
  Open # {} /\ mode = "single" /\ undisturbed /\ scanning
  => /\ visited \subseteq Open /\ selected \in visited
     /\ \A c \in visited, d \in Open : d <= c => d \in visited
     /\ \A i \in 1 .. Len(frames) : frames[i].op = "noSignal" => frames[i].arg \in visited

\* The inductive invariant.
IInv == /\ Types
        /\ Nested /\ UserFirst /\ ScanOff /\ CalledAgain /\ PresetOff
        /\ ScanShown /\ PresetAwaited
        /\ InOrder

-----------------------------------------------------------------------------
(* The band handler.                                                       *)

\* A set of channels has a first one.
LEMMA FirstOf ==
  ASSUME NEW S \in SUBSET Channels, S # {}
  PROVE  \E c \in S : \A d \in S : c <= d
<1> DEFINE R == OpToRel(<, Nat)
<1>1. R = {ss \in Nat \X Nat : ss[1] < ss[2]}
  BY Zenon DEF OpToRel
<1>2. IsWellFoundedOn(R, Nat)
  BY NatLessThanWellFounded, Zenon
<1>3. S \subseteq Nat
  BY ChannelsAssumption DEF Channels
<1> HIDE DEF R
<1>4. PICK x \in S : \A y \in S : <<y, x>> \notin R
  BY <1>2, <1>3, WFMin
<1>5. \A y \in S : x <= y
  <2> SUFFICES ASSUME NEW y \in S
               PROVE  x <= y
    OBVIOUS
  <2>1. y \in Nat /\ x \in Nat
    BY <1>3
  <2>2. <<y, x>> \in {ss \in Nat \X Nat : ss[1] < ss[2]} <=> y < x
    BY <2>1
  <2> QED
    BY <1>1, <1>4, <2>1, <2>2
<1> QED
  BY <1>4, <1>5

\* The scan begins at the first channel without the skip flag, if there is one.
LEMMA FirstChannel ==
  /\ firstChannel \in Channels
  /\ Open # {} => firstChannel \in Open /\ \A d \in Open : firstChannel <= d
<1>1. Open \in SUBSET Channels
  BY DEF Open
<1>2. CASE Open = {}
  BY <1>2, ChannelsAssumption DEF firstChannel, Channels
<1>3. CASE Open # {}
  <2>1. \E c \in Open : \A d \in Open : c <= d
    BY <1>1, <1>3, FirstOf
  <2> QED
    BY <1>1, <1>3, <2>1 DEF firstChannel
<1> QED
  BY <1>2, <1>3

\* nextChannel is the first one after c, and passes the end after the last one.
LEMMA NextChannel ==
  ASSUME NEW c \in Channels
  PROVE  \/ /\ nextChannel(c) = NrChannels
            /\ \A d \in Open : d <= c
         \/ /\ nextChannel(c) \in Open
            /\ nextChannel(c) < NrChannels
            /\ \A d \in Open : d <= c \/ nextChannel(c) <= d
<1> DEFINE later == {d \in Open : d > c}
<1>1. later \in SUBSET Channels /\ Open \subseteq Int /\ c \in Int
  BY ChannelsAssumption DEF Open, Channels
<1>2. CASE later = {}
  BY <1>1, <1>2 DEF nextChannel
<1>3. CASE later # {}
  <2>1. \E x \in later : \A e \in later : x <= e
    BY <1>1, <1>3, FirstOf
  <2>2. nextChannel(c) = CHOOSE x \in later : \A e \in later : x <= e
    BY <1>3 DEF nextChannel
  <2>3. nextChannel(c) \in later /\ \A e \in later : nextChannel(c) <= e
    BY <2>1, <2>2
  <2> HIDE DEF later
  <2>4. nextChannel(c) \in 0 .. NrChannels - 1
    BY <1>1, <2>3 DEF Channels
  <2>5. nextChannel(c) < NrChannels
    BY <2>4, ChannelsAssumption
  <2> QED
    BY <1>1, <2>3, <2>5 DEF later
<1> QED
  BY <1>2, <1>3

-----------------------------------------------------------------------------
(* The stack of suspended slots.                                           *)

\* Delivering an event changes only how many events a slot still waits for.
LEMMA DeliveredIs ==
  ASSUME frames \in Seq(Frame)
  PROVE  /\ Delivered \in Seq(Frame) /\ Len(Delivered) = Len(frames)
         /\ \A i \in 1 .. Len(frames) : /\ Delivered[i].op = frames[i].op
                                       /\ Delivered[i].arg = frames[i].arg
<1>1. DOMAIN frames = 1 .. Len(frames) /\ Len(frames) \in Nat
  BY LenProperties
<1>2. \A i \in 1 .. Len(frames) : frames[i] \in Frame
  BY ElementOfSeq
<1>3. ASSUME NEW i \in 1 .. Len(frames)
      PROVE  /\ Delivered[i] \in Frame
             /\ Delivered[i].op = frames[i].op /\ Delivered[i].arg = frames[i].arg
  <2>1. frames[i] \in Frame
    BY <1>2
  <2>2. Delivered[i] = [frames[i] EXCEPT !.owed = IF @ = 0 THEN 0 ELSE @ - 1]
    BY <1>1 DEF Delivered
  <2> QED
    BY <2>1, <2>2 DEF Frame
<1>4. Delivered = [i \in 1 .. Len(frames) |-> Delivered[i]]
  BY <1>1 DEF Delivered
<1>5. Delivered \in [1 .. Len(frames) -> Frame]
  BY <1>3, <1>4
<1>6. Delivered \in Seq(Frame) /\ Len(Delivered) = Len(frames)
  BY <1>1, <1>5
<1> QED
  BY <1>3, <1>6

-----------------------------------------------------------------------------
(* The steps of three kinds: a slot runs to its end, or up to              *)
(* processEvents (), or goes on from there.                                *)

\* The types that neither kind of step decides.
RestTyped == (noSignalOn \in Nat /\ posted \in Seq(Event))'

\* Slots that run to their end.
Keeps ==
  /\ frames' = frames \/ frames' = Delivered
  /\ UNCHANGED <<db, channelName, selected, connections, visited>>
  /\ scanning' => scanning
  /\ presetTimer' => presetTimer /\ nextService' = nextService
  /\ (undisturbed' => undisturbed) /\ (mode' = mode \/ ~undisturbed')
  /\ \/ UNCHANGED again
     \/ frames = <<>> /\ ~undisturbed' /\ again' \in {<<>>} \cup Call

\* They keep the invariant.
LEMMA KeepsInv ==
  ASSUME IInv, Keeps, RestTyped
  PROVE  IInv'
<1>1. /\ frames \in Seq(Frame) /\ frames' \in Seq(Frame) /\ Len(frames') = Len(frames)
      /\ \A i \in 1 .. Len(frames) : /\ frames'[i].op = frames[i].op
                                    /\ frames'[i].arg = frames[i].arg
  BY DeliveredIs DEF IInv, Types, Keeps
<1>2. Len(frames) \in Nat /\ (frames = <<>> <=> Len(frames) = 0)
      /\ (frames' = <<>> <=> Len(frames) = 0)
  BY <1>1
<1>3. frames # <<>> => 1 \in 1 .. Len(frames)
  BY <1>2
<1>4. Types'
  BY <1>1 DEF Keeps, RestTyped, IInv, Types
<1>5. Nested'
  <2>1. \A i \in 2 .. Len(frames) : i \in 1 .. Len(frames)
    BY <1>2
  <2> QED
    BY <1>1, <2>1 DEF IInv, Nested
<1>6. UserFirst' /\ ScanOff' /\ PresetOff'
  BY <1>1, <1>2, <1>3 DEF IInv, Keeps, UserFirst, ScanOff, PresetOff
<1>7. CalledAgain'
  BY <1>1, <1>2, <1>3 DEF IInv, Keeps, CalledAgain
<1>8. ScanShown' /\ PresetAwaited'
  BY <1>2 DEF IInv, Keeps, ScanShown, PresetAwaited
<1>9. InOrder'
  BY <1>1 DEF IInv, Keeps, InOrder
<1> QED
  BY <1>4, <1>5, <1>6, <1>7, <1>8, <1>9 DEF IInv

\* Slots that suspend themselves: one of the user's, called from the event
\* loop, or No_Signal_Found, which goes on with the scan, from anywhere.
Suspends(op, arg) ==
  /\ \E fs \in {frames, Delivered}, n \in Nat :
       frames' = Append(fs, [op |-> op, arg |-> arg, owed |-> n])
  /\ UNCHANGED <<channelName, connections, visited>>
  /\ db' = NoChannel /\ ~presetTimer' /\ selected' \in Channels
  /\ scanning' => scanning
  /\ \/ /\ op = "noSignal" /\ arg = selected /\ scanning
        /\ UNCHANGED <<selected, undisturbed, mode, again>>
     \/ /\ frames = <<>> /\ ~undisturbed'
        /\ \/ op \in OnChannel \ {"noSignal"} /\ arg \in Channels /\ ~scanning'
           \/ op = "select" /\ arg \in Channels \X Services
           \/ op \in {"scan", "device"} /\ arg = NoChannel /\ ~scanning' /\ again' = <<>>
        /\ again' \in {<<>>} \cup Call

\* They keep the invariant.
LEMMA SuspendsInv ==
  ASSUME IInv, NEW op, NEW arg, Suspends(op, arg), RestTyped
  PROVE  IInv'
<1>1. PICK fs \in {frames, Delivered}, n \in Nat :
        frames' = Append(fs, [op |-> op, arg |-> arg, owed |-> n])
  BY DEF Suspends
<1> DEFINE f == [op |-> op, arg |-> arg, owed |-> n]
<1>2. f \in Frame
  BY DEF Suspends, Frame, OnChannel, IInv, Types
<1>3. /\ frames \in Seq(Frame) /\ fs \in Seq(Frame) /\ Len(fs) = Len(frames)
      /\ \A i \in 1 .. Len(frames) : fs[i].op = frames[i].op /\ fs[i].arg = frames[i].arg
  BY DeliveredIs DEF IInv, Types
<1>4. /\ frames' \in Seq(Frame) /\ Len(frames') = Len(frames) + 1
      /\ \A i \in 1 .. Len(frames) : frames'[i] = fs[i]
      /\ frames'[Len(frames) + 1] = f
  <2> HIDE DEF f
  <2> QED
    BY <1>1, <1>2, <1>3, AppendProperties DEF f
<1>5. /\ Len(frames) \in Nat /\ (frames = <<>> <=> Len(frames) = 0) /\ frames' # <<>>
  BY <1>3, <1>4
<1>6. /\ frames # <<>> => /\ frames'[1].op = frames[1].op
                          /\ 1 \in 1 .. Len(frames)
      /\ frames = <<>> => frames'[1].op = op
  BY <1>3, <1>4, <1>5
<1>7. \A i \in 1 .. Len(frames) + 1 :
        \/ i \in 1 .. Len(frames) /\ frames'[i].op = frames[i].op /\ frames'[i].arg = frames[i].arg
        \/ i = Len(frames) + 1 /\ frames'[i].op = op /\ frames'[i].arg = arg
  BY <1>3, <1>4, <1>5
<1> HIDE DEF f
<1>8. Types'
  BY <1>4 DEF Suspends, RestTyped, IInv, Types
<1>9. Nested'
  <2> SUFFICES ASSUME NEW i \in 2 .. Len(frames')
               PROVE  frames'[i].op = "noSignal"
    BY DEF Nested
  <2>1. CASE i \in 1 .. Len(frames)
    BY <1>5, <1>7, <2>1 DEF IInv, Nested
  <2>2. CASE i = Len(frames) + 1
    BY <1>4, <1>5, <1>7, <2>2 DEF Suspends
  <2> QED
    BY <1>4, <1>5, <2>1, <2>2
<1>10. UserFirst' /\ PresetOff'
  BY <1>5, <1>6 DEF IInv, Suspends, UserFirst, PresetOff
<1>11. ScanOff'
  BY <1>5, <1>6 DEF IInv, Suspends, ScanOff, OnChannel
<1>12. CalledAgain'
  BY <1>5, <1>6 DEF IInv, Suspends, CalledAgain, OnChannel
<1>13. ScanShown' /\ PresetAwaited'
  BY <1>5 DEF ScanShown, PresetAwaited
<1>14. InOrder'
  BY <1>4, <1>7 DEF IInv, Suspends, InOrder
<1> QED
  BY <1>8, <1>9, <1>10, <1>11, <1>12, <1>13, <1>14 DEF IInv

-----------------------------------------------------------------------------
(* What the slots are.                                                     *)

\* stopChannel up to processEvents suspends the slot that calls it.
LEMMA BeginStopSuspends ==
  ASSUME NEW fs \in {frames, Delivered}, NEW op, NEW arg, BeginStop(fs, op, arg),
         posted' \in Seq(Event)
  PROVE  /\ \E gs \in {frames, Delivered}, n \in Nat :
              frames' = Append(gs, [op |-> op, arg |-> arg, owed |-> n])
         /\ channelName' = channelName /\ db' = NoChannel /\ ~presetTimer'
<1>1. Len(posted') \in Nat
  OBVIOUS
<1> QED
  BY <1>1 DEF BeginStop, StopTimers

\* handle_channelSelector.
LEMMA SelectorSuspends ==
  ASSUME IInv, NEW c \in Channels, handle_channelSelector(c), frames = <<>>, ~undisturbed',
         UNCHANGED <<connections, visited, posted>>, again' \in {<<>>} \cup Call
  PROVE  Suspends("channel", c) /\ RestTyped
<1>1. posted' \in Seq(Event)
  BY DEF IInv, Types
<1>2. BeginStop(frames, "channel", c)
  BY DEF handle_channelSelector
<1>3. /\ \E fs \in {frames, Delivered}, n \in Nat :
           frames' = Append(fs, [op |-> "channel", arg |-> c, owed |-> n])
      /\ channelName' = channelName /\ db' = NoChannel /\ ~presetTimer'
  BY <1>1, <1>2, BeginStopSuspends
<1> QED
  BY <1>1, <1>3 DEF handle_channelSelector, stopScanning, Suspends, RestTyped, OnChannel

\* localSelect runs to its end for a service of the channel in hand, and
\* suspends itself for another one.
LEMMA SelectKeepsOrSuspends ==
  ASSUME IInv, NEW c \in Channels, NEW s \in Services, localSelect(c, s), frames = <<>>,
         ~undisturbed', UNCHANGED <<connections, visited, posted, mode>>,
         again' \in {<<>>} \cup Call
  PROVE  RestTyped /\ (Keeps \/ Suspends("select", <<c, s>>))
<1>1. posted' \in Seq(Event)
  BY DEF IInv, Types
<1>2. CASE localSelectHere(s)
  BY <1>1, <1>2 DEF localSelectHere, Keeps, RestTyped, IInv, Types, scan, back
<1>3. CASE localSelectThere(c, s)
  <2>1. BeginStop(frames, "select", <<c, s>>)
    BY <1>3 DEF localSelectThere
  <2>2. /\ \E fs \in {frames, Delivered}, n \in Nat :
             frames' = Append(fs, [op |-> "select", arg |-> <<c, s>>, owed |-> n])
        /\ channelName' = channelName /\ db' = NoChannel /\ ~presetTimer'
    BY <1>1, <2>1, BeginStopSuspends
  <2> QED
    BY <1>1, <1>3, <2>2 DEF localSelectThere, Suspends, RestTyped, IInv, Types, scan
<1> QED
  BY <1>2, <1>3 DEF localSelect

\* No_Signal_Found suspends itself in a scan, and has nothing to do otherwise.
LEMMA NoSignalKeepsOrSuspends ==
  ASSUME IInv, NEW fs \in {frames, Delivered}, No_Signal_Found(fs), posted' \in Seq(Event),
         UNCHANGED <<gui, mode, history>>
  PROVE  RestTyped /\ (Keeps \/ Suspends("noSignal", selected))
<1>1. CASE scanning
  <2>1. BeginStop(fs, "noSignal", selected)
    BY <1>1 DEF No_Signal_Found
  <2>2. /\ \E gs \in {frames, Delivered}, n \in Nat :
             frames' = Append(gs, [op |-> "noSignal", arg |-> selected, owed |-> n])
        /\ channelName' = channelName /\ db' = NoChannel /\ ~presetTimer'
    BY <2>1, BeginStopSuspends
  <2> QED
    BY <1>1, <2>2 DEF No_Signal_Found, Suspends, RestTyped, IInv, Types, scan, gui, history
<1>2. CASE ~scanning
  BY <1>2 DEF No_Signal_Found, Keeps, RestTyped, scan, services, gui, history
<1> QED
  BY <1>1, <1>2

-----------------------------------------------------------------------------
(* The event loop.                                                         *)

\* That there is no signal is posted once for each connection.
LEMMA NoSignalsPosted ==
  ASSUME Types, NEW n \in Nat, db \in Channels
  PROVE  posted \o NoSignals(n) \in Seq(Event)
<1>1. [type |-> "noSignal", ch |-> db] \in Event
  BY DEF Event
<1>2. NoSignals(n) \in Seq(Event)
  BY <1>1 DEF NoSignals
<1> QED
  BY <1>2, ConcatProperties DEF Types

\* The processor's thread posts events of the channel it is on.
LEMMA PostInv ==
  ASSUME IInv, Post
  PROVE  IInv'
<1>1. db \in Channels /\ noSignalOn \in Nat /\ posted \in Seq(Event)
  BY DEF IInv, Types, Post
<1>2. ASSUME NEW e \in Named \cup Changed, posted' = Append(posted, e)
      PROVE  posted' \in Seq(Event)
  <2>1. e \in Event
    BY <1>1 DEF Event, Named, Changed
  <2> QED
    BY <1>1, <1>2, <2>1
<1>3. posted \o NoSignals(noSignalOn) \in Seq(Event)
  BY <1>1, NoSignalsPosted DEF IInv
<1>4. posted' \in Seq(Event)
  BY <1>2, <1>3 DEF Post
<1>5. Keeps /\ RestTyped
  BY <1>1, <1>4 DEF Post, Keeps, RestTyped, services, scan, timers, gui, history
<1> QED
  BY <1>5, KeepsInv

\* An event is delivered.
LEMMA DeliverInv ==
  ASSUME IInv, Deliver
  PROVE  IInv'
<1> DEFINE e == Head(posted)
<1>1. posted' \in Seq(Event) /\ noSignalOn \in Nat
  BY DEF Deliver, IInv, Types
<1>2. CASE No_Signal_Found(Delivered)
  BY <1>1, <1>2, NoSignalKeepsOrSuspends, KeepsInv, SuspendsInv DEF Deliver
<1>3. ASSUME frames' = Delivered, nameofEnsemble(e.ch)
      PROVE  Keeps /\ RestTyped
  BY <1>1, <1>3 DEF Deliver, nameofEnsemble, stopScanning, Keeps, RestTyped, scan, services, gui,
     history
<1>4. ASSUME frames' = Delivered, addtoEnsemble(e.ch, e.s)
      PROVE  Keeps /\ RestTyped
  BY <1>1, <1>4 DEF Deliver, addtoEnsemble, setPresetService, stopScanning, Keeps, RestTyped,
     scan, back, gui, history
<1>5. ASSUME frames' = Delivered, changeinConfiguration
      PROVE  Keeps /\ RestTyped
  BY <1>1, <1>5 DEF Deliver, changeinConfiguration, stopScanning, Keeps, RestTyped, gui, history
<1>6. ASSUME frames' = Delivered,
             UNCHANGED <<db, channelName, selected, Eid, services, scan, timers, timeoutOn,
                         noSignalOn>>
      PROVE  Keeps /\ RestTyped
  BY <1>1, <1>6 DEF Deliver, Keeps, RestTyped, scan, services, timers, gui, history
<1> QED
  BY <1>2, <1>3, <1>4, <1>5, <1>6, KeepsInv DEF Deliver

\* The timers end between two slots.
LEMMA TimerInv ==
  ASSUME IInv, PresetTimer \/ ChannelTimer \/ EpgTimer
  PROVE  IInv'
<1>1. noSignalOn \in Nat /\ posted \in Seq(Event)
  BY DEF IInv, Types
<1>2. CASE PresetTimer
  <2>1. Keeps /\ RestTyped
    BY <1>1, <1>2 DEF PresetTimer, setPresetService, stopScanning, Keeps, RestTyped, scan, gui,
       history
  <2> QED
    BY <2>1, KeepsInv
<1>3. CASE ChannelTimer /\ timeoutOn
  <2>1. No_Signal_Found(frames) /\ UNCHANGED <<gui, mode, posted, history>>
    BY <1>3 DEF ChannelTimer
  <2>2. posted' \in Seq(Event)
    BY <1>1, <2>1
  <2> QED
    BY <2>1, <2>2, NoSignalKeepsOrSuspends, KeepsInv, SuspendsInv
<1>4. CASE ChannelTimer /\ ~timeoutOn
  <2>1. Keeps /\ RestTyped
    BY <1>1, <1>4 DEF ChannelTimer, Keeps, RestTyped, scan, services, gui, history
  <2> QED
    BY <2>1, KeepsInv
<1>5. CASE EpgTimer
  <2>1. Keeps /\ RestTyped
    BY <1>1, <1>5 DEF EpgTimer, Keeps, RestTyped, scan, gui, history
  <2> QED
    BY <2>1, KeepsInv
<1> QED
  BY <1>2, <1>3, <1>4, <1>5

\* A signal calls its slot once more, from the event loop.
LEMMA AgainInv ==
  ASSUME IInv, Again
  PROVE  IInv'
<1>1. again \in Call /\ ~undisturbed
  BY DEF Again, Pending, IInv, Types, CalledAgain
<1>2. frames = <<>>
  BY <1>1 DEF Again, Pending, IInv, Types, Call
<1>3. again' \in {<<>>} \cup Call
  BY <1>1 DEF Again, Call
<1>4. ~undisturbed' /\ UNCHANGED <<connections, visited, posted, mode>>
  BY <1>1 DEF Again, history
<1>5. again.arg \in Channels /\ handle_channelSelector(again.arg)
  BY <1>1 DEF Again, Call
<1> QED
  BY <1>2, <1>3, <1>4, <1>5, SelectorSuspends, SuspendsInv

\* The buttons and the list, connected while there is a device.
ButtonPressed ==
  \/ set_channelButton
  \/ handle_resetButton
  \/ \E s \in serviceList : localSelect(channelName, s)
  \/ \E s \in serviceList : eventFilter(s)
  \/ handle_serviceButton

\* They suspend themselves to change the channel, or run to their end.
LEMMA ButtonInv ==
  ASSUME IInv, ButtonPressed, frames = <<>>, again = <<>>, ~undisturbed',
         UNCHANGED <<connections, posted, visited, again, mode>>
  PROVE  IInv'
<1>1. /\ noSignalOn \in Nat /\ posted' \in Seq(Event) /\ selected \in Channels
      /\ channelName \in Channels
  BY DEF IInv, Types
<1>2. CASE set_channelButton
  <2>1. PICK c \in {(selected + 1) % NrChannels, (selected - 1) % NrChannels} :
          BeginStop(frames, "button", c)
    BY <1>2 DEF set_channelButton
  <2>2. c \in Channels
    BY <1>1, ChannelsAssumption DEF Channels
  <2>3. /\ \E gs \in {frames, Delivered}, n \in Nat :
             frames' = Append(gs, [op |-> "button", arg |-> c, owed |-> n])
        /\ channelName' = channelName /\ db' = NoChannel /\ ~presetTimer'
    BY <1>1, <2>1, BeginStopSuspends
  <2>4. ~scanning' /\ selected' \in Channels /\ noSignalOn' \in Nat /\ again' = <<>>
    BY <1>1, <1>2, <2>2 DEF set_channelButton, stopScanning
  <2>5. Suspends("button", c) /\ RestTyped
    BY <1>1, <2>2, <2>3, <2>4 DEF Suspends, RestTyped, OnChannel
  <2> QED
    BY <2>5, SuspendsInv
<1>3. CASE handle_resetButton
  <2>1. BeginStop(frames, "reset", channelName)
    BY <1>3 DEF handle_resetButton
  <2>2. /\ \E gs \in {frames, Delivered}, n \in Nat :
             frames' = Append(gs, [op |-> "reset", arg |-> channelName, owed |-> n])
        /\ channelName' = channelName /\ db' = NoChannel /\ ~presetTimer'
    BY <1>1, <2>1, BeginStopSuspends
  <2>3. Suspends("reset", channelName) /\ RestTyped
    BY <1>1, <1>3, <2>2 DEF handle_resetButton, stopScanning, Suspends, RestTyped, OnChannel
  <2> QED
    BY <2>3, SuspendsInv
<1>4. ASSUME NEW s \in serviceList, localSelect(channelName, s)
      PROVE  IInv'
  <2>1. Keeps /\ RestTyped
    BY <1>1, <1>4 DEF localSelect, localSelectHere, Keeps, RestTyped, scan, back
  <2> QED
    BY <2>1, KeepsInv
<1>5. ASSUME NEW s \in serviceList, eventFilter(s)
      PROVE  IInv'
  <2>1. Keeps /\ RestTyped
    BY <1>1, <1>5 DEF eventFilter, Keeps, RestTyped, scan, timers
  <2> QED
    BY <2>1, KeepsInv
<1>6. CASE handle_serviceButton
  <2>1. Keeps /\ RestTyped
    BY <1>1, <1>6 DEF handle_serviceButton, stopScanning, Keeps, RestTyped, back
  <2> QED
    BY <2>1, KeepsInv
<1> QED
  BY <1>2, <1>3, <1>4, <1>5, <1>6 DEF ButtonPressed

\* The button that starts a scan, and ends it.
LEMMA ScanButtonInv ==
  ASSUME IInv, handle_scanButton, frames = <<>>, again = <<>>, ~undisturbed',
         UNCHANGED <<connections, visited, again, mode>>
  PROVE  IInv'
<1>1. Types /\ noSignalOn \in Nat /\ posted \in Seq(Event) /\ selected \in Channels
  BY DEF IInv, Types
<1>2. CASE ~scanning /\ startScanning
  <2>1. noSignalOn' \in Nat
    BY <1>1, <1>2 DEF startScanning
  <2>2. posted' \in Seq(Event)
    <3>1. CASE UNCHANGED posted
      BY <1>1, <3>1
    <3>2. CASE db \in Channels \ Live /\ posted' = posted \o NoSignals(noSignalOn')
      BY <1>1, <2>1, <3>2, NoSignalsPosted
    <3> QED
      BY <1>2, <3>1, <3>2 DEF startScanning
  <2>3. BeginStop(frames, "scan", NoChannel)
    BY <1>2 DEF startScanning
  <2>4. /\ \E gs \in {frames, Delivered}, n \in Nat :
             frames' = Append(gs, [op |-> "scan", arg |-> NoChannel, owed |-> n])
        /\ channelName' = channelName /\ db' = NoChannel /\ ~presetTimer'
    BY <2>2, <2>3, BeginStopSuspends
  <2>5. ~scanning' /\ selected' \in Channels /\ again' = <<>>
    BY <1>1, <1>2 DEF startScanning, scan
  <2>6. Suspends("scan", NoChannel) /\ RestTyped
    BY <2>1, <2>2, <2>4, <2>5 DEF Suspends, RestTyped
  <2> QED
    BY <2>6, SuspendsInv
<1>3. CASE scanning /\ ~(~scanning /\ startScanning)
  <2>1. Keeps /\ RestTyped
    BY <1>1, <1>3 DEF handle_scanButton, stopScanning, Keeps, RestTyped, services
  <2> QED
    BY <2>1, KeepsInv
<1> QED
  BY <1>2, <1>3 DEF handle_scanButton

\* What the channel selector still has to call after its first slot.
LEMMA ActivatedIs ==
  ASSUME Types, frames = <<>>, NEW c \in Channels, Activated(c)
  PROVE  again' \in {<<>>} \cup Call
<1>1. Len(frames) = 0 /\ connections \in Int
  BY DEF Types
<1> QED
  BY <1>1 DEF Activated, Call

\* The user chooses something else, from the event loop.
LEMMA ChooseInv ==
  ASSUME IInv, Choose, frames = <<>>, again = <<>>, ~undisturbed',
         UNCHANGED <<connections, visited, posted>>
  PROVE  IInv'
<1>1. /\ frames = <<>> /\ again = <<>> /\ ~undisturbed'
      /\ UNCHANGED <<connections, posted, visited>>
  OBVIOUS
<1>2. Types /\ noSignalOn \in Nat /\ posted' \in Seq(Event)
  BY <1>1 DEF IInv, Types
<1>3. CASE UNCHANGED <<again, mode>> /\ ButtonPressed
  BY <1>1, <1>3, ButtonInv
<1>4. ASSUME NEW c \in Channels, handle_channelSelector(c),
             Activated(c), UNCHANGED mode
      PROVE  IInv'
  <2>1. again' \in {<<>>} \cup Call
    BY <1>1, <1>2, <1>4, ActivatedIs
  <2> QED
    BY <1>1, <1>4, <2>1, SelectorSuspends, SuspendsInv
<1>5. ASSUME NEW c \in Live, NEW s \in Services, localSelect(c, s), UNCHANGED <<again, mode>>
      PROVE  IInv'
  <2>1. c \in Channels /\ again' \in {<<>>} \cup Call
    BY <1>1, <1>5, ChannelsAssumption DEF Channels
  <2> QED
    BY <1>1, <1>5, <2>1, SelectKeepsOrSuspends, KeepsInv, SuspendsInv
<1>6. CASE newDevice /\ UNCHANGED <<again, mode>>
  <2>1. BeginStop(frames, "device", NoChannel)
    BY <1>6 DEF newDevice
  <2>2. /\ \E gs \in {frames, Delivered}, n \in Nat :
             frames' = Append(gs, [op |-> "device", arg |-> NoChannel, owed |-> n])
        /\ channelName' = channelName /\ db' = NoChannel /\ ~presetTimer'
    BY <1>2, <2>1, BeginStopSuspends
  <2>3. Suspends("device", NoChannel) /\ RestTyped
    BY <1>1, <1>2, <1>6, <2>2 DEF newDevice, stopScanning, Suspends, RestTyped, Types
  <2> QED
    BY <2>3, SuspendsInv
<1>7. CASE UNCHANGED <<db, channelName, selected, Eid, services, scan, timers, timeoutOn,
                       noSignalOn, running, again, frames>>
  <2>1. Keeps /\ RestTyped
    BY <1>1, <1>2, <1>7 DEF Keeps, RestTyped, services, scan, timers
  <2> QED
    BY <2>1, KeepsInv
<1> QED
  BY <1>3, <1>4, <1>5, <1>6, <1>7 DEF Choose, ButtonPressed

\* The user acts, from the event loop.
LEMMA UserInv ==
  ASSUME ~NestedUser, IInv, User
  PROVE  IInv'
<1>1. /\ frames = <<>> /\ again = <<>> /\ ~undisturbed'
      /\ UNCHANGED <<connections, visited>>
  BY DEF User
<1>2. CASE handle_scanButton /\ UNCHANGED <<again, mode>>
  BY <1>1, <1>2, ScanButtonInv
<1>3. CASE UNCHANGED posted /\ Choose
  BY <1>1, <1>3, ChooseInv
<1> QED
  BY <1>2, <1>3 DEF User

-----------------------------------------------------------------------------
(* The slots after processEvents ().                                       *)

\* The slot that goes on, and those that stay suspended.
Top == frames[Len(frames)]
Popped == frames # <<>> /\ frames' = SubSeq(frames, 1, Len(frames) - 1)

\* They are as they were.
LEMMA PoppedIs ==
  ASSUME Types, Popped
  PROVE  /\ Top \in Frame /\ frames' \in Seq(Frame) /\ Len(frames) \in Nat \ {0}
         /\ Len(frames') = Len(frames) - 1
         /\ \A i \in 1 .. Len(frames) - 1 : frames'[i] = frames[i]
<1>1. frames \in Seq(Frame) /\ Len(frames) \in Nat \ {0}
  BY EmptySeq DEF Types, Popped
<1>2. Len(frames) \in 1 .. Len(frames)
  BY <1>1
<1>3. Top \in Frame
  BY <1>1, <1>2, ElementOfSeq DEF Top
<1>4. /\ frames' \in Seq(Frame) /\ Len(frames') = Len(frames) - 1
      /\ \A i \in 1 .. Len(frames) - 1 : frames'[i] = frames[i]
  <2> DEFINE n == Len(frames) - 1
  <2>1. 1 \in Int /\ n \in Nat /\ \A i \in 1 .. n : i \in 1 .. Len(frames)
    BY <1>1
  <2>2. \A i \in 1 .. n : frames[i] \in Frame
    BY <1>1, <2>1, ElementOfSeq
  <2>3. frames' = SubSeq(frames, 1, n)
    BY DEF Popped
  <2> HIDE DEF n
  <2>4. /\ SubSeq(frames, 1, n) \in Seq(Frame)
        /\ Len(SubSeq(frames, 1, n)) = IF 1 <= n THEN n - 1 + 1 ELSE 0
        /\ \A i \in 1 .. n - 1 + 1 : SubSeq(frames, 1, n)[i] = frames[1 + i - 1]
    BY <2>1, <2>2, SubSeqProperties
  <2>5. \A i \in 1 .. n : i \in 1 .. n - 1 + 1 /\ 1 + i - 1 = i
    BY <2>1
  <2>6. /\ frames' \in Seq(Frame) /\ Len(frames') = n
        /\ \A i \in 1 .. n : frames'[i] = frames[i]
    BY <2>1, <2>3, <2>4, <2>5
  <2> QED
    BY <2>6 DEF n
<1> QED
  BY <1>1, <1>3, <1>4

\* A slot that is not No_Signal_Found was the first.
LEMMA UsersIsFirst ==
  ASSUME IInv, Popped, Top.op # "noSignal"
  PROVE  frames' = <<>> /\ Top = frames[1]
<1>1. Len(frames) \in Nat \ {0} /\ frames' \in Seq(Frame) /\ Len(frames') = Len(frames) - 1
  BY PoppedIs DEF IInv
<1>2. Len(frames) \notin 2 .. Len(frames)
  BY DEF IInv, Nested, Top
<1>3. Len(frames) = 1
  BY <1>1, <1>2
<1> QED
  BY <1>1, <1>3 DEF Top

\* Types after a slot has gone on.
ResumeTyped ==
  /\ db' \in Channels \cup {NoChannel} /\ channelName' \in Channels /\ selected' \in Channels
  /\ noSignalOn' \in Nat /\ connections' \in Int
  /\ UNCHANGED <<posted, again>>

\* The user's slot goes on, and no other is suspended.
LEMMA LastGoesOn ==
  ASSUME IInv, Popped, frames' = <<>>, ResumeTyped, ScanShown', PresetAwaited', InOrder',
         again # <<>> => ~undisturbed'
  PROVE  IInv'
<1>1. Types'
  BY PoppedIs DEF IInv, Types, ResumeTyped
<1>2. Len(frames') = 0
  OBVIOUS
<1> QED
  BY <1>1, <1>2 DEF IInv, ResumeTyped, Nested, UserFirst, ScanOff, CalledAgain, PresetOff

\* new_channelIndex has its connections.
LEMMA IndexTyped ==
  ASSUME Types, NEW c \in Channels, new_channelIndex(c)
  PROVE  selected' = c /\ connections' \in Int
  BY DEF Types, new_channelIndex

\* handle_channelSelector and the buttons: the scan is over.
LEMMA ResumeChannelInv ==
  ASSUME IInv, Popped, ResumeChannel(Top), UNCHANGED <<posted, again, mode>>
  PROVE  IInv'
<1>1. Top \in Frame /\ Top.op \in {"channel", "button", "reset"} /\ Top.op # "noSignal"
  BY PoppedIs DEF IInv, ResumeChannel
<1>2. frames' = <<>> /\ frames # <<>> /\ Top = frames[1]
  BY <1>1, UsersIsFirst DEF Popped
<1>3. Top.arg \in Channels
  BY <1>1 DEF Frame
<1>4. ~scanning' /\ ~presetTimer' /\ ~undisturbed'
  BY <1>1, <1>2 DEF IInv, ScanOff, PresetOff, UserFirst, ResumeChannel, scan
<1>5. selected' \in Channels /\ connections' \in Int
  BY <1>3, IndexTyped DEF ResumeChannel, IInv, Types
<1>6. ResumeTyped
  BY <1>3, <1>5 DEF ResumeTyped, ResumeChannel, Restart, startChannel, IInv, Types
<1>7. ScanShown' /\ PresetAwaited' /\ InOrder'
  BY <1>4 DEF ScanShown, PresetAwaited, InOrder
<1> QED
  BY <1>2, <1>4, <1>6, <1>7, LastGoesOn

\* localSelect: the service waits on the channel that is started.
LEMMA ResumeSelectInv ==
  ASSUME IInv, Popped, ResumeSelect(Top), UNCHANGED <<posted, again, mode>>
  PROVE  IInv'
<1>1. Top \in Frame /\ Top.op = "select" /\ Top.op # "noSignal"
  BY PoppedIs DEF IInv, ResumeSelect
<1>2. frames' = <<>> /\ frames # <<>> /\ Top = frames[1]
  BY <1>1, UsersIsFirst DEF Popped
<1>3. Top.arg \in Channels \X Services /\ Top.arg[1] \in Channels
  BY <1>1 DEF Frame, OnChannel
<1>4. ~undisturbed'
  BY <1>1, <1>2 DEF IInv, UserFirst, ResumeSelect
<1>5. selected' = Top.arg[1] /\ connections' \in Int
  BY <1>3, IndexTyped DEF ResumeSelect, IInv
<1>6. db' = Top.arg[1] /\ channelName' = Top.arg[1] /\ nextService' = Top.arg
  BY DEF ResumeSelect, Restart, startChannel
<1>7. ResumeTyped
  BY <1>3, <1>5, <1>6 DEF ResumeTyped, ResumeSelect, IInv, Types
<1>8. Top.arg # <<>> /\ Top.arg[1] # NoChannel
  BY <1>3, ChannelsAssumption DEF Channels
<1>9. ScanShown' /\ PresetAwaited' /\ InOrder'
  BY <1>4, <1>5, <1>6, <1>8 DEF ScanShown, PresetAwaited, InOrder
<1> QED
  BY <1>2, <1>4, <1>7, <1>9, LastGoesOn

\* startScanning: the scan begins with the first channel.
LEMMA ResumeScanInv ==
  ASSUME IInv, Popped, ResumeScan(Top), UNCHANGED <<posted, again, mode>>
  PROVE  IInv'
<1>1. Top \in Frame /\ Top.op = "scan" /\ Top.op # "noSignal"
  BY PoppedIs DEF IInv, ResumeScan
<1>2. frames' = <<>> /\ frames # <<>> /\ Top = frames[1]
  BY <1>1, UsersIsFirst DEF Popped
<1>3. ~presetTimer' /\ again = <<>>
  BY <1>1, <1>2 DEF IInv, PresetOff, CalledAgain, ResumeScan
<1> DEFINE c == IF mode = "data" THEN (selected + 1) % NrChannels ELSE firstChannel
<1>4. c \in Channels
  BY FirstChannel, ChannelsAssumption DEF Channels, IInv, Types
<1>5. new_channelIndex(c)
  BY DEF ResumeScan
<1> HIDE DEF c
<1>6. selected' = c /\ connections' \in Int
  BY <1>4, <1>5, IndexTyped DEF IInv
<1>7. db' = selected' /\ channelName' = selected' /\ visited' = {selected'}
  BY DEF ResumeScan
<1>8. ResumeTyped
  BY <1>4, <1>6, <1>7 DEF ResumeTyped, ResumeScan, IInv, Types
<1>9. InOrder'
  <2> SUFFICES ASSUME Open # {}, mode = "single"
               PROVE  /\ visited' \subseteq Open /\ selected' \in visited'
                      /\ \A x \in visited', d \in Open : d <= x => d \in visited'
    BY <1>2 DEF InOrder
  <2>1. c = firstChannel /\ c \in Open /\ \A d \in Open : c <= d
    BY FirstChannel DEF c
  <2>2. Open \subseteq Int
    BY ChannelsAssumption DEF Open, Channels
  <2> QED
    BY <1>6, <1>7, <2>1, <2>2
<1> QED
  BY <1>2, <1>3, <1>7, <1>8, <1>9, LastGoesOn DEF ScanShown, PresetAwaited

\* newDevice: the scan was ended.
LEMMA ResumeDeviceInv ==
  ASSUME IInv, Popped, ResumeDevice(Top), UNCHANGED <<posted, again, mode>>
  PROVE  IInv'
<1>1. Top.op = "device" /\ Top.op # "noSignal"
  BY DEF ResumeDevice
<1>2. frames' = <<>> /\ frames # <<>> /\ Top = frames[1]
  BY <1>1, UsersIsFirst DEF Popped
<1>3. ~scanning' /\ ~presetTimer' /\ ~undisturbed'
  BY <1>1, <1>2 DEF IInv, ScanOff, PresetOff, UserFirst, ResumeDevice
<1>4. {0, selected} \cup Live \cup (Saved \ {NoChannel}) \subseteq Channels
  <2>1. {0, selected} \subseteq Channels
    BY ChannelsAssumption DEF Channels, IInv, Types
  <2>2. Live \subseteq Channels
    BY ChannelsAssumption DEF Channels
  <2>3. Saved \ {NoChannel} \subseteq Channels
    BY ChannelsAssumption DEF Channels
  <2> QED
    BY <2>1, <2>2, <2>3
<1>5. ResumeTyped
  <2>1. /\ selected' \in Channels /\ db' \in Channels \cup {NoChannel} /\ channelName' \in Channels
        /\ noSignalOn' \in Nat
    BY <1>4 DEF ResumeDevice, Restart, startChannel, IInv, Types
  <2>2. connections' \in Int
    BY DEF ResumeDevice, IInv, Types
  <2> QED
    BY <2>1, <2>2 DEF ResumeTyped
<1>6. ScanShown' /\ PresetAwaited' /\ InOrder'
  BY <1>3 DEF ScanShown, PresetAwaited, InOrder
<1> QED
  BY <1>2, <1>3, <1>5, <1>6, LastGoesOn

\* No_Signal_Found keeps the order of the scan: the channel after one that was
\* visited is the first one that was not, or was visited before.
LEMMA NextInOrder ==
  ASSUME NEW V \in SUBSET Open, \A c \in V, d \in Open : d <= c => d \in V,
         NEW x \in V, nextChannel(x) < NrChannels
  PROVE  LET n == nextChannel(x)
         IN  n \in Open /\ \A c \in V \cup {n}, d \in Open : d <= c => d \in V \cup {n}
<1> DEFINE n == nextChannel(x)
<1>1. Open \subseteq Channels /\ Open \subseteq Int /\ NrChannels \in Int
  BY ChannelsAssumption DEF Open, Channels
<1>2. n \in Open /\ \A d \in Open : d <= x \/ n <= d
  BY <1>1, NextChannel
<1> HIDE DEF n
<1>3. ASSUME NEW c \in V \cup {n}, NEW d \in Open, d <= c
      PROVE  d \in V \cup {n}
  <2>1. CASE c \in V
    BY <1>3, <2>1
  <2>2. CASE c = n /\ d <= x
    BY <2>2
  <2>3. CASE c = n /\ n <= d
    BY <1>1, <1>2, <1>3, <2>3
  <2> QED
    BY <1>2, <2>1, <2>2, <2>3
<1> QED
  BY <1>2, <1>3 DEF n

\* No_Signal_Found in a scan: the next channel is started, or the scan ends.
LEMMA ResumeNoSignalInv ==
  ASSUME IInv, Popped, ResumeNoSignal(Top), UNCHANGED <<posted, again, mode>>
  PROVE  IInv'
<1> DEFINE cc == nextChannel(Top.arg)
<1>1. Top \in Frame /\ Top.op = "noSignal"
  BY PoppedIs DEF IInv, ResumeNoSignal
<1>2. Top.arg \in Channels
  BY <1>1 DEF Frame, OnChannel
<1>3. /\ frames' \in Seq(Frame) /\ Len(frames) \in Nat \ {0} /\ Len(frames') = Len(frames) - 1
      /\ \A i \in 1 .. Len(frames) - 1 : frames'[i] = frames[i]
  BY PoppedIs DEF IInv
<1>4. frames' # <<>> => 1 \in 1 .. Len(frames) - 1 /\ frames # <<>>
  BY <1>3 DEF Popped
<1>5. /\ (scanning' => scanning) /\ undisturbed' = undisturbed /\ ~presetTimer'
      /\ \/ /\ ~scanning' /\ noSignalOn' = 0
            /\ UNCHANGED <<db, channelName, selected, connections>>
         \/ /\ ~(cc >= NrChannels /\ mode = "single")
            /\ scanning' = scanning /\ noSignalOn' = noSignalOn + 1
            /\ new_channelIndex(Wrapped(cc))
            /\ db' = selected' /\ channelName' = selected'
            /\ visited' = IF scanning' THEN visited \cup {selected'} ELSE visited
  BY DEF ResumeNoSignal, stopScanning, Reconnect, Restart, startChannel, scan, IInv, PresetOff,
     Popped
<1>6. Wrapped(cc) \in Channels
  <2>1. \/ cc = NrChannels
        \/ cc \in Open /\ cc < NrChannels
    BY <1>2, NextChannel
  <2> HIDE DEF cc
  <2>2. firstChannel \in Channels /\ NrChannels \in Int
    BY FirstChannel, ChannelsAssumption
  <2>3. CASE cc = NrChannels
    BY <2>2, <2>3 DEF Wrapped
  <2>4. CASE cc \in Open /\ cc < NrChannels
    <3>1. cc \in Channels /\ cc \in Int
      BY <2>4, ChannelsAssumption DEF Open, Channels
    <3> QED
      BY <2>2, <2>4, <3>1 DEF Wrapped
  <2> QED
    BY <2>1, <2>3, <2>4
<1>7. new_channelIndex(Wrapped(cc)) => /\ selected' = Wrapped(cc)
                                      /\ connections' \in Int
  BY <1>6, IndexTyped DEF IInv
<1>8. InOrder'
  <2> SUFFICES ASSUME Open # {}, mode = "single", undisturbed, scanning'
               PROVE  /\ visited' \subseteq Open /\ selected' \in visited'
                      /\ \A c \in visited', d \in Open : d <= c => d \in visited'
                      /\ \A i \in 1 .. Len(frames') : frames'[i].op = "noSignal"
                                                     => frames'[i].arg \in visited'
    BY <1>5 DEF InOrder
  <2>1. /\ visited \subseteq Open /\ \A c \in visited, d \in Open : d <= c => d \in visited
        /\ \A i \in 1 .. Len(frames) : frames[i].op = "noSignal" => frames[i].arg \in visited
    BY <1>5 DEF IInv, InOrder
  <2>2. Len(frames) \in 1 .. Len(frames)
    BY <1>3
  <2>3. Top.arg \in visited
    BY <1>1, <2>1, <2>2 DEF Top
  <2>4. cc < NrChannels
    <3>1. cc = NrChannels \/ cc < NrChannels
      BY <1>2, NextChannel
    <3>2. ~(cc >= NrChannels)
      BY <1>5
    <3> HIDE DEF cc
    <3> QED
      BY <3>1, <3>2, ChannelsAssumption
  <2>5. cc \in Open /\ \A c \in visited \cup {cc}, d \in Open : d <= c => d \in visited \cup {cc}
    BY <2>1, <2>3, <2>4, NextInOrder
  <2>6. Wrapped(cc) = cc
    <3>1. cc \in Int /\ NrChannels \in Int
      BY <2>5, ChannelsAssumption DEF Open, Channels
    <3> HIDE DEF cc
    <3> QED
      BY <2>4, <3>1 DEF Wrapped
  <2> HIDE DEF cc
  <2>7. selected' = cc /\ visited' = visited \cup {cc}
    BY <1>5, <1>7, <2>6
  <2>8. \A i \in 1 .. Len(frames') : i \in 1 .. Len(frames) /\ frames'[i] = frames[i]
    BY <1>3
  <2> QED
    BY <2>1, <2>5, <2>7, <2>8
<1> HIDE DEF cc
<1>9. Types'
  BY <1>3, <1>5, <1>6, <1>7 DEF IInv, Types
<1>10. Nested'
  <2>1. \A i \in 2 .. Len(frames') : i \in 1 .. Len(frames) - 1 /\ i \in 2 .. Len(frames)
    BY <1>3
  <2> QED
    BY <1>3, <2>1 DEF IInv, Nested
<1>11. UserFirst' /\ ScanOff' /\ CalledAgain' /\ PresetOff'
  BY <1>3, <1>4, <1>5 DEF IInv, UserFirst, ScanOff, CalledAgain, PresetOff
<1>12. ScanShown' /\ PresetAwaited'
  BY <1>5 DEF ScanShown, PresetAwaited
<1> QED
  BY <1>8, <1>9, <1>10, <1>11, <1>12 DEF IInv

\* A suspended slot goes on.
LEMMA ResumeInv ==
  ASSUME IInv, Resume
  PROVE  IInv'
<1>1. Popped /\ UNCHANGED <<posted, again, mode>>
  BY DEF Resume, Popped
<1>2. \/ ResumeChannel(Top) \/ ResumeSelect(Top) \/ ResumeScan(Top) \/ ResumeNoSignal(Top)
      \/ ResumeDevice(Top)
  BY DEF Resume, Top
<1> QED
  BY <1>1, <1>2, ResumeChannelInv, ResumeSelectInv, ResumeScanInv, ResumeNoSignalInv,
     ResumeDeviceInv

\* A step that changes nothing.
LEMMA StutterInv ==
  ASSUME IInv, UNCHANGED vars
  PROVE  IInv'
<1>1. Keeps /\ RestTyped
  BY DEF vars, services, scan, timers, gui, history, Keeps, RestTyped, IInv, Types
<1> QED
  BY <1>1, KeepsInv

\* doStart has started a channel, that of the saved preset where there is one
\* in the selector, and nothing is suspended.
LEMMA InitInv == Init => IInv
<1> SUFFICES ASSUME Init
             PROVE  IInv
  OBVIOUS
<1>1. /\ selected \in Channels
      /\ presetTimer => /\ nextService # <<>>
                        /\ selected = IF nextService[1] = NoChannel THEN 0 ELSE nextService[1]
  <2>1. 0 \in Channels /\ Saved \subseteq Channels \cup {NoChannel}
    BY ChannelsAssumption DEF Channels
  <2>2. CASE nextService \in Saved \X Services /\ presetTimer
    <3>1. nextService # <<>> /\ nextService[1] \in Saved
      BY <2>2
    <3> QED
      BY <2>1, <3>1 DEF Init
  <2>3. CASE presetTimer = FALSE
    BY <2>1, <2>3 DEF Init
  <2> QED
    BY <2>2, <2>3 DEF Init, Preset
<1>2. Types
  BY <1>1 DEF Init, Types
<1>3. Len(frames) = 0
  BY DEF Init
<1> QED
  BY <1>1, <1>2, <1>3 DEF Init, IInv, Nested, UserFirst, ScanOff, CalledAgain, PresetOff,
     ScanShown, PresetAwaited, InOrder

\* Every step keeps the invariant, the user being no quicker than processEvents ().
LEMMA NextInv == ~NestedUser /\ IInv /\ [Next]_vars => IInv'
  BY PostInv, DeliverInv, TimerInv, AgainInv, UserInv, ResumeInv, StutterInv DEF Next

-----------------------------------------------------------------------------
(* Theorems.                                                               *)

\* The inductive invariant holds, as long as the user does not click inside
\* processEvents ().
THEOREM Invariance == ~NestedUser => (Spec => []IInv)
<1> SUFFICES ASSUME ~NestedUser
             PROVE  Spec => []IInv
  OBVIOUS
<1>1. IInv /\ [Next]_vars => IInv'
  BY NextInv
<1> QED
  BY <1>1, InitInv, PTL DEF Spec, Safe

\* Between two slots a scan is on the channel that the selector shows: the
\* slots that run inside stopChannel start channels too, but the slot that goes
\* on last sets both, or has ended the scan.
THEOREM ScanIsShown ==
  ASSUME ~NestedUser
  PROVE  Spec => []ScanShown
<1>1. IInv => ScanShown
  BY DEF IInv
<1> QED
  BY <1>1, Invariance, PTL

\* Between two slots the preset timer runs only for a service that waits on
\* the channel in hand, from doStart on: the saved preset whose channel the
\* selector does not have waits on the first channel and on no other.
THEOREM PresetIsAwaited ==
  ASSUME ~NestedUser
  PROVE  Spec => []PresetAwaited
<1>1. IInv => PresetAwaited
  BY DEF IInv
<1> QED
  BY <1>1, Invariance, PTL

\* No slot goes on in a step other than Resume: slots are suspended, or stay.
Stay == \/ frames' = frames \/ frames' = Delivered
        \/ \E fs \in {frames, Delivered} : \E f : frames' = Append(fs, f)

\* That is what the others do.
LEMMA OthersStay ==
  ASSUME [Next]_vars, ~Resume
  PROVE  Stay
<1>1. ASSUME NEW fs \in {frames, Delivered}, NEW op, NEW arg, BeginStop(fs, op, arg)
      PROVE  Stay
  BY <1>1 DEF BeginStop, Stay
<1>2. ASSUME NEW fs \in {frames, Delivered}, No_Signal_Found(fs)
      PROVE  Stay
  BY <1>1, <1>2 DEF No_Signal_Found, Stay
<1>3. ASSUME NEW c, NEW s, localSelect(c, s)
      PROVE  Stay
  BY <1>1, <1>3 DEF localSelect, localSelectHere, localSelectThere, Stay
<1>4. ASSUME NEW c, handle_channelSelector(c)
      PROVE  Stay
  BY <1>1, <1>4 DEF handle_channelSelector
<1>5. CASE Post \/ PresetTimer \/ EpgTimer \/ UNCHANGED vars
  BY <1>5 DEF Post, PresetTimer, EpgTimer, vars, Stay
<1>6. CASE Deliver \/ ChannelTimer
  BY <1>2, <1>6 DEF Deliver, ChannelTimer, Stay
<1>7. CASE Again
  BY <1>4, <1>7 DEF Again
<1>8. CASE User
  <2>1. CASE ButtonPressed
    BY <1>1, <1>3, <2>1 DEF ButtonPressed, set_channelButton, handle_resetButton, eventFilter,
       handle_serviceButton, Stay
  <2>2. CASE newDevice
    BY <1>1, <2>2 DEF newDevice
  <2>3. CASE UNCHANGED frames
    BY <2>3 DEF Stay
  <2>4. CASE handle_scanButton
    BY <1>1, <2>4 DEF handle_scanButton, startScanning, Stay
  <2>5. CASE Choose
    BY <1>3, <1>4, <2>1, <2>2, <2>3, <2>5 DEF Choose, ButtonPressed
  <2> QED
    BY <1>8, <2>4, <2>5 DEF User
<1> QED
  BY <1>5, <1>6, <1>7, <1>8 DEF Next

\* The stack is no shorter then.
LEMMA StaySuspended ==
  ASSUME Types, Stay
  PROVE  ~(Len(frames') < Len(frames))
<1>1. /\ frames \in Seq(Frame) /\ Len(frames) \in Nat
      /\ Delivered \in Seq(Frame) /\ Len(Delivered) = Len(frames)
  BY DeliveredIs DEF Types
<1>2. ASSUME NEW fs \in {frames, Delivered}, NEW f, frames' = Append(fs, f)
      PROVE  Len(frames') = Len(frames) + 1
  <2>1. fs \in Seq(Frame \cup {f}) /\ Len(fs) = Len(frames)
    BY <1>1, SeqMonotonic
  <2> QED
    BY <1>2, <2>1, AppendProperties
<1> QED
  BY <1>1, <1>2 DEF Stay

\* A single scan that comes to its end undisturbed has been on every channel
\* without the skip flag, for every band and however many signals and time outs
\* overlap.  There has to be such a channel: with the skip flag on all of them
\* the scan is on channel 0 all the same.
THEOREM ScanVisitsAll ==
  ASSUME ~NestedUser, Open # {}
  PROVE  Spec => ScanIsComplete
<1> DEFINE Ended == mode = "single" /\ undisturbed /\ scanning /\ ~scanning'
                    /\ Len(frames') < Len(frames)
<1>1. IInv /\ [Next]_vars => (Ended => visited = Open)
  <2> SUFFICES ASSUME IInv, [Next]_vars, Ended
               PROVE  visited = Open
    OBVIOUS
  <2> DEFINE cc == nextChannel(Top.arg)
  <2>1. Resume
    BY OthersStay, StaySuspended DEF IInv
  <2>2. Popped /\ ResumeNoSignal(Top) /\ cc >= NrChannels
    <3>1. Popped
      BY <2>1 DEF Resume, Popped
    <3>2. \/ ResumeChannel(Top) \/ ResumeSelect(Top) \/ ResumeScan(Top) \/ ResumeNoSignal(Top)
          \/ ResumeDevice(Top)
      BY <2>1 DEF Resume, Top
    <3> QED
      BY <3>1, <3>2 DEF ResumeChannel, ResumeSelect, ResumeScan, ResumeNoSignal,
         ResumeDevice, scan
  <2>3. Top \in Frame /\ Top.op = "noSignal" /\ Len(frames) \in 1 .. Len(frames)
    BY <2>2, PoppedIs DEF IInv, ResumeNoSignal
  <2>4. /\ Top.arg \in visited /\ visited \subseteq Open
        /\ \A c \in visited, d \in Open : d <= c => d \in visited
    BY <2>3 DEF IInv, InOrder, Top
  <2>5. Top.arg \in Channels
    BY <2>3 DEF Frame, OnChannel
  <2>6. \A d \in Open : d <= Top.arg
    <3>1. \/ /\ cc = NrChannels
             /\ \A d \in Open : d <= Top.arg
          \/ cc \in Open /\ cc < NrChannels
      BY <2>5, NextChannel
    <3>2. cc \in Open /\ cc < NrChannels => ~(cc >= NrChannels)
      BY ChannelsAssumption DEF Open, Channels
    <3> QED
      BY <2>2, <3>1, <3>2
  <2> QED
    BY <2>4, <2>6
<1> QED
  BY <1>1, Invariance, PTL DEF ScanIsComplete, Spec, Safe
=============================================================================
