----------------------------- MODULE RadioChannels -----------------------------
(***************************************************************************)
(* The GUI thread of src/code/radio.cpp: selecting channels and services,  *)
(* presets and scans, with the choice of the next channel in               *)
(* src/code/support/band-handler.cpp.                                      *)
(*                                                                         *)
(* All of it runs in one thread, as slots called from the event loop: by   *)
(* the user, by two timers, and by events the thread of the DAB processor  *)
(* posted.  But stopChannel () calls processEvents () in its middle, so    *)
(* that slots run inside a slot: the stack frames holds the slots that     *)
(* are suspended there, each with what it will do when it goes on.  An     *)
(* event that is posted is delivered also when its signal was disconnected *)
(* in the meantime.                                                        *)
(*                                                                         *)
(* Services run in the foreground, or in the background: those whose audio *)
(* is dumped to a file, and programme guides.                              *)
(*                                                                         *)
(* Channels are numbered as in the channel selector.  Services of          *)
(* different channels have different names; an audio service stands for    *)
(* the service with its sub-service.                                       *)
(***************************************************************************)
EXTENDS Integers, FiniteSets, SequencesExt

CONSTANTS
  NrChannels,  \* channelSelector->count ()
  Skip,        \* channels with the skip flag of the band handler
  Live,        \* channels with an ensemble
  Services,    \* the services of an ensemble
  Guides,      \* those that are programme guides (epgTimer_timeOut)
  Saved,       \* channels of the presets the settings may hold; NoChannel is none
               \* of the selector, or no channel at all
  ScanModes,   \* of "single", "continuous" and "data", those the user may choose
  UserOps,     \* what the user does
  NestedUser,  \* the user may be quick enough for processEvents ()
  MaxPosted,   \* bound on the posted events
  MaxClicks,   \* bound on the user's actions
  NoChannel, NoService

ASSUME ChannelsAssumption ==
  /\ NrChannels \in Nat \ {0}
  /\ Skip \subseteq 0 .. NrChannels - 1 /\ Live \subseteq 0 .. NrChannels - 1
  /\ NoChannel \notin Nat /\ NoService \notin Services /\ Guides \subseteq Services
  /\ Saved \subseteq (0 .. NrChannels - 1) \cup {NoChannel}
ASSUME ScanAssumption ==
  /\ ScanModes \subseteq {"single", "continuous", "data"} /\ NestedUser \in BOOLEAN
  /\ MaxPosted \in Nat /\ MaxClicks \in Nat

Channels == 0 .. NrChannels - 1

VARIABLES
  db,            \* the channel the DAB processor runs on, or NoChannel
  channelName,   \* channel.channelName, the channel started last
  selected,      \* channelSelector->currentIndex ()
  Eid,           \* the channel channel.Eid was received on, or NoChannel
  serviceList,   \* services in the list
  currentService,\* channel.currentService where valid, or NoService
  playing,       \* [service] : backends of it in the foreground
  nextService,   \* channel.nextService where valid, or <<>>
  background,    \* channel.backgroundServices: the name, and the service of subChId
  behind,        \* [service] : backends of it in the background
  mode,          \* scanmodeSelector->currentIndex ()
  scanning,
  scanMode,      \* mScanMode of the DAB processor
  presetTimer, channelTimer, epgTimer, \* active
  timeoutOn,     \* timeout () of channelTimer is connected
  noSignalOn,    \* number of connections of No_Signal_Found ()
  running,
  connections,   \* of the channel selector to its slot
  again,         \* the calls of it an activation still has to make, or <<>>
  posted,        \* events posted to the GUI thread
  frames,        \* slots suspended in processEvents ()
  clicks,        \* history: actions of the user
  visited,       \* history: channels this scan has started
  undisturbed    \* history: the user has done nothing since this scan began

timers   == <<presetTimer, channelTimer, epgTimer>>
back     == <<background, behind>>
services == <<serviceList, currentService, playing, nextService, back>>
gui      == <<running, connections, again>>
scan     == <<scanning, scanMode>>
history  == <<clicks, visited, undisturbed>>
vars == <<db, channelName, selected, Eid, services, mode, scan, timers, timeoutOn, noSignalOn,
          gui, posted, frames, history>>

-----------------------------------------------------------------------------
(* The band handler.                                                       *)

Open == Channels \ Skip

\* The first channel without the skip flag, or 0.
firstChannel ==
  IF Open = {} THEN 0 ELSE CHOOSE c \in Open : \A d \in Open : c <= d

\* (fault) the flag is not looked at.
nextChannelAny(c) == c + 1

\* The next channel without the skip flag, or the end of the table.
nextChannel(c) ==
  LET later == {d \in Open : d > c}
  IN  IF later = {} THEN NrChannels ELSE CHOOSE d \in later : \A e \in later : d <= e

-----------------------------------------------------------------------------
(* Parts of the slots.                                                     *)

Silence == [s \in Services |-> 0]

\* stop_service of the MSC handler: it erases while it iterates, so that one
\* of two backends stays; nothing is done in scan mode.
Stopped(p, s, quiet) == IF s = NoService \/ quiet THEN p ELSE [p EXCEPT ![s] = @ \div 2]
Started(p, s, quiet) == IF quiet THEN p ELSE [p EXCEPT ![s] = @ + 1]

\* stop_service for all the entries of the background, one after the other.
EntriesOn(s) == Cardinality({i \in DOMAIN background : background[i].sub = s})
BehindStopped(quiet) ==
  IF quiet THEN behind ELSE [s \in Services |-> behind[s] \div 2 ^ EntriesOn(s)]

\* new_channelIndex, whose disconnect removes all the connections.
new_channelIndex(c) ==
  /\ selected' = c
  /\ connections' = IF c = selected THEN connections ELSE 1

stopScanning ==
  /\ noSignalOn' = 0
  /\ scanning' = FALSE
  /\ scanMode' = (scanMode /\ ~scanning)

\* startService, with what was playing before: the decoder knows an audio or
\* packet service of that name, or there are insufficient data.
startService(s, p) ==
  \/ currentService' = s /\ playing' = Started(p, s, scanMode')
  \/ currentService' = NoService /\ playing' = p

\* The events of the queue, the first one taken out, and the frames that
\* waited for it.
Delivered == [i \in DOMAIN frames |->
                [frames[i] EXCEPT !.owed = IF @ = 0 THEN 0 ELSE @ - 1]]

\* (fault) the preset timer goes on.
StopTimersNotPreset == presetTimer' = presetTimer /\ channelTimer' = FALSE /\ epgTimer' = FALSE

StopTimers == presetTimer' = FALSE /\ channelTimer' = FALSE /\ epgTimer' = FALSE

\* stopChannel up to processEvents, called by slot op, which has arg at hand.
BeginStop(fs, op, arg) ==
  /\ playing' = Stopped(playing, currentService, scanMode')
  /\ behind' = BehindStopped(scanMode') /\ background' = <<>>
  /\ currentService' = NoService
  /\ db' = NoChannel /\ Eid' = NoChannel
  /\ StopTimers
  /\ frames' = Append(fs, [op |-> op, arg |-> arg, owed |-> Len(posted')])
  /\ UNCHANGED <<channelName, serviceList, nextService>>

\* startChannel.
startChannel(c) ==
  /\ db' = c /\ channelName' = c
  /\ Eid' = NoChannel /\ serviceList' = {}
  /\ playing' = IF scanMode' THEN playing ELSE Silence
  /\ behind' = IF scanMode' THEN behind ELSE Silence
  /\ epgTimer' = (epgTimer \/ ~scanning')
  /\ visited' = IF scanning' THEN visited \cup {c} ELSE visited

-----------------------------------------------------------------------------
(* The slots.  Each takes the posted events and the frames it starts from. *)

\* (fault) the scan is not stopped.
handle_channelSelectorScanning(c) ==
  /\ selected' = c
  /\ UNCHANGED <<scan, noSignalOn, timeoutOn>>
  /\ BeginStop(frames, "channel", c)

\* handle_channelSelector: the user has turned the selector to c.
handle_channelSelector(c) ==
  /\ selected' = c
  /\ stopScanning
  /\ BeginStop(frames, "channel", c)
  /\ UNCHANGED timeoutOn

\* set_channelButton, from the next and the previous channel button.
set_channelButton ==
  /\ stopScanning
  /\ \E c \in {(selected + 1) % NrChannels, (selected - 1) % NrChannels} :
       BeginStop(frames, "button", c)
  /\ UNCHANGED <<selected, timeoutOn>>

handle_resetButton ==
  /\ stopScanning
  /\ BeginStop(frames, "reset", channelName)
  /\ UNCHANGED <<selected, timeoutOn>>

\* What the DAB processor posts when it finds no signal, n connections being there.
NoSignals(n) == [i \in 1 .. n |-> [type |-> "noSignal", ch |-> db]]

\* It is connected before stopChannel stops the processor, which may find no
\* signal in between.
startScanning ==
  /\ noSignalOn' = noSignalOn + 1
  /\ \/ UNCHANGED posted
     \/ /\ db \in Channels \ Live
        /\ posted' = posted \o NoSignals(noSignalOn')
        /\ Len(posted') <= MaxPosted
  /\ UNCHANGED <<selected, scan, timeoutOn>>
  /\ BeginStop(frames, "scan", NoChannel)

handle_scanButton ==
  \/ ~scanning /\ startScanning
  \/ /\ scanning
     /\ stopScanning /\ channelTimer' = FALSE
     /\ UNCHANGED <<db, channelName, selected, Eid, services, presetTimer, epgTimer, timeoutOn,
                    posted, frames>>

\* localSelect of a service of the channel in hand ...
localSelectHere(s) ==
  /\ presetTimer' = FALSE /\ channelTimer' = FALSE
  /\ UNCHANGED scan
  /\ LET p == Stopped(playing, currentService, scanMode)
     IN  \/ db \in Live /\ startService(s, p)
         \/ currentService' = NoService /\ playing' = p  \* SId == 0
  /\ UNCHANGED <<db, channelName, selected, Eid, serviceList, nextService, back, epgTimer,
                 timeoutOn, noSignalOn, frames>>

\* ... and of another channel.
localSelectThere(c, s) ==
  /\ UNCHANGED <<scan, selected, timeoutOn, noSignalOn>>
  /\ BeginStop(frames, "select", <<c, s>>)

localSelect(c, s) == IF c = channelName THEN localSelectHere(s) ELSE localSelectThere(c, s)

\* handle_serviceButton: next or previous service of the list.
handle_serviceButton ==
  /\ presetTimer' = FALSE
  /\ stopScanning
  /\ nextService' = <<>>
  /\ LET p == Stopped(playing, currentService, scanMode')
     IN  IF currentService = NoService
         THEN /\ channelTimer' = (channelTimer /\ ~scanning)
              /\ UNCHANGED <<currentService, playing>>
         ELSE /\ channelTimer' = FALSE
              /\ \/ /\ db \in Live /\ currentService \in serviceList
                    /\ \E s \in serviceList : startService(s, p)
                 \/ currentService' = NoService /\ playing' = p
  /\ UNCHANGED <<db, channelName, selected, Eid, serviceList, back, epgTimer, timeoutOn, frames>>

\* eventFilter: a right click on a service dumps its audio to a file, in the
\* background, and another one ends that.
eventFilter(s) ==
  LET mine == {i \in DOMAIN background : background[i].service = s}
      i    == CHOOSE j \in mine : \A k \in mine : j <= k
  IN /\ s \notin Guides /\ s # currentService /\ db \in Live
     /\ IF mine # {}
        THEN /\ behind' = Stopped(behind, s, scanMode)
             /\ background' = RemoveAt(background, i)
        ELSE /\ behind' = Started(behind, s, scanMode)
             /\ background' = Append(background, [service |-> s, sub |-> s])
     /\ UNCHANGED <<db, channelName, selected, Eid, serviceList, currentService, playing,
                    nextService, scan, timers, timeoutOn, noSignalOn, frames>>

\* newDevice: everything stops.
newDevice ==
  /\ running' = FALSE
  /\ stopScanning
  /\ BeginStop(frames, "device", NoChannel)
  /\ UNCHANGED <<selected, timeoutOn>>

\* No_Signal_Found, from the signal of the DAB processor or channel_timeOut.
No_Signal_Found(fs) ==
  /\ noSignalOn' = 0 /\ timeoutOn' = FALSE
  /\ UNCHANGED <<selected, scan>>
  /\ IF scanning
     THEN BeginStop(fs, "noSignal", selected)
     ELSE /\ channelTimer' = FALSE /\ frames' = fs
          /\ UNCHANGED <<db, channelName, Eid, services, presetTimer, epgTimer>>

\* setPresetService.
setPresetService ==
  /\ presetTimer' = FALSE
  /\ stopScanning
  /\ channelTimer' = (channelTimer /\ ~scanning)
  /\ \/ /\ nextService # <<>> /\ nextService[1] = channelName /\ Eid # NoChannel
        /\ db \in Live       \* getParameters finds the service
        /\ nextService' = <<>>
        /\ startService(nextService[2], playing)
     \/ UNCHANGED <<nextService, currentService, playing>>

\* addtoEnsemble: service s of channel c, which the tables of the decoder
\* know only while it is on c; the list may now be as long as serviceCount.
addtoEnsemble(c, s) ==
  /\ serviceList' = IF db = c THEN serviceList \cup {s} ELSE serviceList
  /\ \/ db = c /\ s \notin serviceList /\ ~scanning /\ setPresetService
     \/ UNCHANGED <<scan, noSignalOn, presetTimer, channelTimer, nextService, currentService,
                    playing>>
  /\ UNCHANGED <<db, channelName, selected, Eid, back, epgTimer, timeoutOn>>

nameofEnsemble(c) ==
  /\ Eid' = c
  /\ IF mode = "data"
     THEN stopScanning /\ channelTimer' = (channelTimer /\ ~scanning)
     ELSE UNCHANGED <<scan, noSignalOn, channelTimer>>
  /\ UNCHANGED <<db, channelName, selected, services, presetTimer, epgTimer, timeoutOn>>

\* Of the entries that are erased while i goes on every other one stays.
EveryOther(entries) == [i \in 1 .. Len(entries) \div 2 |-> entries[2 * i]]

\* changeinConfiguration.  It stops a copy of currentService, and what it does
\* for a valid service later on is never done: stopService has made the copy
\* invalid.  Without a current service the copy is not initialised.  The loop
\* over the background looks for the copy, whatever the entry in hand.
changeinConfiguration ==
  /\ presetTimer' = FALSE /\ channelTimer' = FALSE
  /\ stopScanning
  /\ IF db \in Live THEN serviceList' \in SUBSET Services ELSE serviceList' = {}
  /\ \E s, t \in IF currentService # NoService THEN {currentService}
                ELSE Services \cup {NoService} :
       /\ playing' = Stopped(playing, s, scanMode)
       /\ IF t \in serviceList'
          THEN /\ background' = [i \in DOMAIN background |-> [background[i] EXCEPT !.sub = t]]
               /\ behind' = IF scanMode' THEN behind
                            ELSE [BehindStopped(FALSE) EXCEPT ![t] = @ + Len(background)]
          ELSE /\ background' = EveryOther(background)
               /\ behind' = BehindStopped(scanMode')
  /\ UNCHANGED <<db, channelName, selected, Eid, currentService, nextService, epgTimer,
                 timeoutOn>>

-----------------------------------------------------------------------------
(* The event loop.                                                         *)

\* A signal the user has caused still has a slot to call.
Pending == again # <<>> /\ Len(frames) = again.depth

\* The events of an ensemble: its name, or a service of it, has come ...
Named == [type : {"name"}, ch : {db}] \cup [type : {"service"}, ch : {db}, s : Services]

\* ... or it has taken over a new configuration.
Changed == [type : {"change"}, ch : {db}]

\* The thread of the DAB processor posts an event: of a channel it receives,
\* or that there is no signal, once for every connection.  A processor whose
\* device was deleted is not followed any further.
Post ==
  /\ db # NoChannel /\ running
  /\ \/ /\ db \in Live
        /\ \E e \in Named \cup Changed : posted' = Append(posted, e)
     \/ /\ db \notin Live /\ noSignalOn > 0
        /\ posted' = posted \o NoSignals(noSignalOn)
  /\ UNCHANGED <<db, channelName, selected, Eid, services, scan, timers, timeoutOn, noSignalOn,
                 gui, mode, frames, history>>
  /\ Len(posted') <= MaxPosted

\* The first posted event is delivered; all but No_Signal_Found look whether
\* the radio is running.
Deliver ==
  /\ posted # <<>> /\ ~Pending
  /\ posted' = Tail(posted)
  /\ LET e == Head(posted)
     IN  \/ e.type = "noSignal" /\ No_Signal_Found(Delivered)
         \/ /\ frames' = Delivered /\ running
            /\ \/ e.type = "name" /\ nameofEnsemble(e.ch)
               \/ e.type = "service" /\ addtoEnsemble(e.ch, e.s)
               \/ e.type = "change" /\ changeinConfiguration
         \/ /\ frames' = Delivered /\ ~running /\ e.type # "noSignal"
            /\ UNCHANGED <<db, channelName, selected, Eid, services, scan, timers, timeoutOn,
                           noSignalOn>>
  /\ UNCHANGED <<gui, mode, history>>

\* A timer ends.  In processEvents () none does: the slots run there stop the
\* timers or start them anew, and take less than a second.
Quiet == frames = <<>> /\ ~Pending

PresetTimer ==
  /\ Quiet /\ presetTimer
  /\ IF running THEN setPresetService
     ELSE /\ presetTimer' = FALSE
          /\ UNCHANGED <<scan, noSignalOn, channelTimer, nextService, currentService, playing>>
  /\ UNCHANGED <<db, channelName, selected, Eid, serviceList, back, epgTimer, timeoutOn, gui,
                 posted, mode, frames, history>>

ChannelTimer ==
  /\ Quiet /\ channelTimer
  /\ UNCHANGED <<gui, mode, posted, history>>
  /\ IF timeoutOn
     THEN No_Signal_Found(frames)
     ELSE /\ channelTimer' = FALSE
          /\ UNCHANGED <<db, channelName, selected, Eid, services, scan, presetTimer, epgTimer,
                         timeoutOn, noSignalOn, frames>>

\* The guides in the list, those that are described, run in the background.
EpgTimer ==
  /\ Quiet /\ epgTimer
  /\ epgTimer' = FALSE
  /\ \E G \in SUBSET (IF scanning THEN {} ELSE serviceList \cap Guides) :
       /\ background' = background \o SetToSeq({[service |-> s, sub |-> s] : s \in G})
       /\ behind' = [s \in Services |-> behind[s] + (IF s \in G /\ ~scanMode THEN 1 ELSE 0)]
  /\ UNCHANGED <<db, channelName, selected, Eid, serviceList, currentService, playing,
                 nextService, scan, presetTimer, channelTimer, mode, timeoutOn, noSignalOn,
                 gui, posted, frames, history>>

\* The channel selector calls its slot once for each connection.  The preset
\* selector does so too; but the first call sets it back to its first entry,
\* and the others return at once.
Activated(c) ==
  again' = IF connections = 1 THEN <<>>
           ELSE [arg |-> c, left |-> connections - 1, depth |-> Len(frames)]

Again ==
  /\ Pending
  /\ UNCHANGED <<running, connections, mode, posted, history>>
  /\ handle_channelSelector(again.arg)
  /\ again' = IF again.left = 1 THEN <<>> ELSE [again EXCEPT !.left = @ - 1]

\* What the user does but for a scan.
Choose ==
  \/ /\ running /\ UNCHANGED <<running, again, mode>>
     /\ \/ "button" \in UserOps /\ set_channelButton
        \/ "reset" \in UserOps /\ handle_resetButton
        \/ "service" \in UserOps /\ \E s \in serviceList : localSelect(channelName, s)
        \/ "background" \in UserOps /\ \E s \in serviceList : eventFilter(s)
        \/ "next" \in UserOps /\ handle_serviceButton
  \/ /\ running /\ "channel" \in UserOps
     /\ \E c \in Channels : handle_channelSelector(c) /\ Activated(c)
     /\ UNCHANGED <<running, mode>>
  \/ /\ "preset" \in UserOps
     /\ \E c \in Live, s \in Services : localSelect(c, s)
     /\ UNCHANGED <<running, again, mode>>
  \/ /\ "device" \in UserOps /\ frames = <<>>
     /\ newDevice
     /\ UNCHANGED <<again, mode>>
  \/ /\ "mode" \in UserOps /\ mode' \in ScanModes \ {mode}
     /\ UNCHANGED <<db, channelName, selected, Eid, services, scan, timers, timeoutOn,
                    noSignalOn, running, again, frames>>

\* The user does something.  Without a device the buttons and the list are
\* disconnected, and the slot of the channel selector returns at once.
User ==
  /\ clicks < MaxClicks /\ again = <<>> /\ (frames = <<>> \/ NestedUser)
  /\ clicks' = clicks + 1 /\ undisturbed' = FALSE
  /\ UNCHANGED <<connections, visited>>
  /\ \/ /\ "scan" \in UserOps /\ running /\ handle_scanButton
        /\ UNCHANGED <<running, again, mode>>
     \/ UNCHANGED posted /\ Choose

-----------------------------------------------------------------------------
(* The slots after processEvents (): the end of stopChannel, and the rest. *)

\* The end of stopChannel.
EndStop == currentService' = NoService /\ serviceList' = {}

\* Where startChannel follows, it clears the list once more.
Restart(c) ==
  /\ currentService' = NoService
  /\ startChannel(c)

\* (fault) only the signal is.
ReconnectSignalOnly == noSignalOn' = noSignalOn + 1 /\ timeoutOn' = timeoutOn

\* The signal and the timer are connected again for the next channel.
Reconnect == noSignalOn' = noSignalOn + 1 /\ timeoutOn' = TRUE

\* The channel a scan continues with after cc.
Wrapped(cc) == IF cc >= NrChannels THEN firstChannel ELSE cc

\* handle_channelSelector, set_channelButton, handle_resetButton.
ResumeChannel(f) ==
  /\ f.op \in {"channel", "button", "reset"}
  /\ UNCHANGED undisturbed
  /\ IF f.op = "button" THEN new_channelIndex(f.arg) ELSE UNCHANGED <<selected, connections>>
  /\ nextService' = <<>>
  /\ UNCHANGED <<scan, noSignalOn, timeoutOn, presetTimer, channelTimer>>
  /\ Restart(f.arg)

\* localSelect: the preset timer will start the service.
ResumeSelect(f) ==
  /\ f.op = "select"
  /\ UNCHANGED undisturbed
  /\ new_channelIndex(f.arg[1]) /\ nextService' = f.arg
  /\ presetTimer' = TRUE
  /\ UNCHANGED <<scan, noSignalOn, timeoutOn, channelTimer>>
  /\ Restart(f.arg[1])

\* startScanning.
ResumeScan(f) ==
  /\ f.op = "scan"
  /\ scanning' = TRUE /\ scanMode' = TRUE
  /\ new_channelIndex(IF mode = "data" THEN (selected + 1) % NrChannels ELSE firstChannel)
  /\ nextService' = <<>>
  /\ channelTimer' = TRUE
  /\ UNCHANGED <<noSignalOn, timeoutOn, presetTimer>>
  /\ currentService' = NoService
  /\ db' = selected' /\ channelName' = selected' /\ Eid' = NoChannel /\ serviceList' = {}
  /\ visited' = {selected'} /\ undisturbed' = TRUE
  /\ UNCHANGED <<playing, behind, epgTimer>>

\* No_Signal_Found: the next channel, or the end of a single scan.
ResumeNoSignal(f) ==
  /\ f.op = "noSignal"
  /\ nextService' = <<>>
  /\ UNCHANGED <<presetTimer, undisturbed>>
  /\ LET cc == nextChannel(f.arg)
     IN  IF cc >= NrChannels /\ mode = "single"
         THEN /\ stopScanning /\ channelTimer' = (channelTimer /\ ~scanning)
              /\ EndStop
              /\ UNCHANGED <<db, channelName, selected, connections, Eid, playing, behind,
                             epgTimer, timeoutOn, visited>>
         ELSE /\ new_channelIndex(Wrapped(cc))
              /\ Reconnect
              /\ channelTimer' = TRUE
              /\ UNCHANGED scan
              /\ Restart(selected')

\* newDevice: there is one, and doStart makes a DAB processor for it and starts
\* the channel of the last preset, the one shown if the selector does not have
\* that, or the first one; or there is none.  The slot of the channel selector
\* is connected once more.
ResumeDevice(f) ==
  /\ f.op = "device"
  /\ nextService' = <<>>
  /\ UNCHANGED <<scanning, presetTimer, channelTimer, timeoutOn, undisturbed>>
  /\ \/ /\ running' = TRUE
        /\ connections' = connections + 1
        /\ scanMode' = FALSE /\ noSignalOn' = 0
        /\ selected' \in {0, selected} \cup Live \cup (Saved \ {NoChannel})
        /\ Restart(selected')
     \/ /\ EndStop
        /\ UNCHANGED <<running, connections, scanMode, noSignalOn, db, channelName, selected,
                       Eid, playing, behind, epgTimer, visited>>

\* processEvents () returns when the events posted before it are delivered.
Resume ==
  /\ frames # <<>> /\ ~Pending
  /\ LET f == frames[Len(frames)]
     IN  /\ f.owed = 0
         /\ \/ /\ \/ ResumeChannel(f) \/ ResumeSelect(f) \/ ResumeScan(f) \/ ResumeNoSignal(f)
               /\ UNCHANGED running
            \/ ResumeDevice(f)
  /\ frames' = SubSeq(frames, 1, Len(frames) - 1)
  /\ UNCHANGED <<background, again, mode, posted, clicks>>

-----------------------------------------------------------------------------
\* The preset the constructor finds in the settings, if there is one.
Preset == {<<>>} \cup (Saved \X Services)

\* doStart has started the channel of the preset in the settings, whose service
\* the preset timer will start; or, if there is none or the selector does not
\* have its channel, the first channel.
Init ==
  /\ nextService \in Preset /\ presetTimer = (nextService # <<>>)
  /\ selected = IF presetTimer /\ nextService[1] # NoChannel THEN nextService[1] ELSE 0
  /\ db = selected /\ channelName = selected
  /\ Eid = NoChannel /\ serviceList = {}
  /\ currentService = NoService /\ playing = Silence
  /\ background = <<>> /\ behind = Silence
  /\ running = TRUE /\ connections = 1 /\ again = <<>>
  /\ scanning = FALSE /\ scanMode = FALSE
  /\ channelTimer = FALSE /\ epgTimer = TRUE
  /\ timeoutOn = TRUE /\ noSignalOn = 0
  /\ posted = <<>> /\ frames = <<>>
  /\ mode \in ScanModes
  /\ clicks = 0 /\ visited = {} /\ undisturbed = FALSE

Next == Post \/ Deliver \/ PresetTimer \/ ChannelTimer \/ EpgTimer \/ Again \/ User \/ Resume

Safe == Init /\ [][Next]_vars

\* The event loop serves what is posted and the timers, and a slot goes on.
Fairness == WF_vars(Deliver) /\ WF_vars(ChannelTimer) /\ WF_vars(PresetTimer)
            /\ WF_vars(Again) /\ WF_vars(Resume)
Spec == Safe /\ Fairness

-----------------------------------------------------------------------------
(* Properties.                                                             *)

\* Every variable has its type; the channel selector is never set past the end.
TypeOK ==
  /\ db \in Channels \cup {NoChannel} /\ channelName \in Channels /\ selected \in Channels
  /\ Eid \in Channels \cup {NoChannel} /\ serviceList \subseteq Services
  /\ currentService \in Services \cup {NoService} /\ playing \in [Services -> Nat]
  /\ nextService \in {<<>>} \cup ((Channels \cup {NoChannel}) \X Services) /\ mode \in ScanModes
  /\ background \in Seq([service : Services, sub : Services]) /\ behind \in [Services -> Nat]
  /\ running \in BOOLEAN /\ connections \in Nat \ {0}
  /\ {scanning, scanMode, presetTimer, channelTimer, epgTimer, timeoutOn} \subseteq BOOLEAN
  /\ noSignalOn \in Nat /\ clicks \in Nat /\ visited \subseteq Channels
  /\ undisturbed \in BOOLEAN

\* Between two slots a scan is on the channel the selector shows, also when
\* the signal of a channel left came while the next one was being started.
ScanShown == frames = <<>> /\ scanning => db = selected

\* Between two slots the preset timer runs only for a service that waits, on
\* the channel in hand; for a saved preset whose channel the selector does not
\* have it runs on no channel but the first.
PresetAwaited ==
  frames = <<>> /\ presetTimer
  => /\ nextService # <<>>
     /\ channelName = IF nextService[1] = NoChannel THEN 0 ELSE nextService[1]

\* A single scan the user leaves alone that comes to its end has been on
\* each channel without the skip flag, and on no other, however signals and
\* time outs overlap.
ScanIsComplete ==
  [][mode = "single" /\ undisturbed /\ scanning /\ ~scanning' /\ Len(frames') < Len(frames)
       => visited = Open]_vars

\* A single scan that has its timer, and that the user leaves alone, ends.
UndisturbedScanEnds ==
  mode = "single" /\ undisturbed /\ scanning /\ channelTimer /\ timeoutOn
    ~> ~scanning \/ ~undisturbed

\* "If a change is detected, we have to restart the selected service - if
\* any" (radio.cpp, before changeinConfiguration): a selected service that the
\* new configuration has as well has its backend.  Refuted: it is stopped,
\* and the restart is never done.
CurrentPlays == currentService \in serviceList => playing[currentService] > 0

\* "Precondition: no channel should be active" (radio.cpp, at startChannel): a
\* slot that goes on after stopChannel finds it stopped.  Refuted: a slot that
\* ran inside stopChannel has started a channel.
StartsWhenStopped == [][Len(frames') < Len(frames) => db = NoChannel]_vars

\* The audio buffer has one writer: at most one service is in the foreground.
\* Refuted: setPresetService stops nothing before it starts a service.
OneForeground == \A s, t \in Services : playing[s] > 0 /\ playing[t] > 0 => s = t

\* "Also called as a result of time out on channelTimer" (radio.cpp, at
\* No_Signal_Found): a scan left alone ends, a second one as well as the first.
\* Refuted: after a scan that has ended in No_Signal_Found it is not called.
ScanEnds == mode = "single" /\ undisturbed /\ scanning ~> ~scanning \/ ~undisturbed

\* "we also have to restart all background services" (radio.cpp, in
\* changeinConfiguration): a service that is dumped, and that the new
\* configuration has as well, goes on.  Refuted: the loop looks for the service
\* in the foreground, and starts that one for each entry.
BackgroundRestarted ==
  [][serviceList' # {} /\ background # <<>> /\ posted # <<>> /\ Head(posted).type = "change"
     /\ posted' = Tail(posted)
     => \A i \in DOMAIN background :
          behind[background[i].service] > 0 /\ background[i].service \in serviceList'
          => behind'[background[i].service] > 0]_vars

\* "nothing will happen" (radio.cpp, in newDevice, when there is no new device):
\* without a device no channel is started.  Refuted: localSelect does not look
\* whether the radio is running, and starts the DAB processor of the device that
\* was deleted.
NothingHappens == ~running => db = NoChannel
=============================================================================
