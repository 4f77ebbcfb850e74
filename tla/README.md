# Verification of Qt-DAB

This directory holds TLA+ models of the parts of Qt-DAB that keep state across
threads and calls, TLC configurations that check them on small instances, and
TLAPS proofs. The reference is the source under `src/`, read at one commit.
Where the code and its own comments disagree, a run whose expectation is a
violation shows it (see *Findings*).

## 1. The system

Qt-DAB is a DAB/DAB+ receiver. One *device handler* fills a ring buffer with
samples. The *DabProcessor* thread takes them out, finds the frame
(null symbol, time synchronisation), demodulates the 76 blocks of a frame and
hands blocks 1..3 to the *FIC handler* and blocks 4..75 to the *MSC handler*.
The FIC handler decodes FIBs and gives them to the *FIB decoder*, a
data base of services, components, sub-channels and announcement clusters. The MSC
handler collects CIFs and gives each to every open *backend* (one per
selected sub-channel component); a backend has a thread of its own that
de-interleaves, decodes and passes frames to an audio or data driver: the *superframes* of DAB+
with the *PAD handler* for labels and slides, or the *packet processor* with its
*MOT handler*. The *ETI generator*, when it is on, gets the same blocks. The *radio interface* runs
in the GUI thread: it selects channels and services, scans the band, and
reacts to queued signals from the other threads.

    device --RingBuffer--> SampleReader/DabProcessor thread --FIC--> FicHandler --> FibDecoder
                                         |                                    ^        |
                                         |MSC                     queries by name      | signals (queued)
                                         v                                    |        v
                                     MscHandler --> Backend (thread) --> drivers --RingBuffer--> GUI (RadioInterface)
                                     EtiGenerator             Mp4Processor --> PadHandler --> MotObject
                                                              DataProcessor --> MotHandler --> MotObject, MotDirectory

### Inventory

| component | source (`src/code/`) | state | operations | interacts by |
|---|---|---|---|---|
| FIB decoder | `ofdm/fib-decoder.cpp`, `ofdm/dab-config.h` | services, two configurations of sub-channels, components, clusters; which one is current; `prevChangeFlag` | `process_FIB` with one handler per FIG, `connect_channel`, `disconnect_channel`, queries | called by the FIC handler (lock `fibLocker`) and by the GUI; signals `addtoEnsemble`, `nameofEnsemble`, `startAnnouncement`, `stopAnnouncement` |
| FIC handler | `ofdm/fic-handler.cpp` | collect buffer and index, `ficno`, `running` | `process_ficBlock`, `process_ficInput`, `restart`, `stop` | called by the DabProcessor |
| MSC handler | `backend/msc-handler.cpp` | vector of backends, the CIF being collected, `locker` | `set_Channel`, `stop_service`, `reset_Channel`, `process_mscBlock` | GUI thread opens and closes, DabProcessor thread delivers |
| Backend | `backend/backend.cpp` | slots, two semaphores, de-interleaver, thread | `process`, `run`, `stopRunning` | MSC handler; drivers |
| Ring buffer | `support/ringbuffer.h` | two indices, cells | put, get, skip, available, flush | every producer/consumer pair of threads |
| DAB processor | `dab-processor.cpp`, `ofdm/sample-reader.cpp`, `ofdm/timesyncer.cpp` | thread state machine, attempts, `scanMode`, `running` of the reader | `start`, `stop`, `run`, `set_scanMode` | device, FIC and MSC handlers, signals `No_Signal_Found`, `setSynced` |
| Radio interface | `radio.cpp` | channel record, current/next service, background services, timers, `scanning`, `running` | channel and service selection, scan, presets, change of the device, reconfiguration | everything |
| Band handler, presets | `support/band-handler.cpp`, `support/preset-handler.cpp` | current channel, skip flags | `firstChannel`, `nextChannel` | radio interface |
| Packet data processor | `backend/data/data-processor.cpp` | continuity index, `packetState`, series | `handlePacket` | thread of the backend; calls the MOT handler |
| MOT | `backend/data/mot/mot-handler.cpp`, `mot-object.cpp`, `mot-dir.cpp` | `motTable` (of the file, for all handlers), order numbers, directory, segments | `add_mscDatagroup`, constructor, destructor | packet processor; signal to the slideshow |
| DAB+ superframes | `backend/audio/mp4processor.cpp` | window of five frames, fill index | `addtoFrame` | thread of the backend; calls the PAD handler |
| PAD handler | `backend/data/pad-handler.cpp` | labels (partly in static variables), data groups, the current slide | `processPAD` | superframes or MP2 decoder; signals to the GUI |
| ETI generator | `eti-handler/eti-generator.cpp` | 16 CIFs, FIBs, counts, file | `processBlock`, `start`, `stop`, `reset` | DabProcessor thread writes, GUI thread starts, stops and resets, no lock |
| TCP servers | `output/tcp-streamer.cpp`, `server-thread` | socket, buffer | connect, disconnect, send | GUI thread |

What is hard here:

* the FIGs of an ensemble are repeated for ever, are lost at CRC errors and
  come in any order, while the tables they fill are searched with loops that
  stop at the first unused slot;
* a multiplex reconfiguration exchanges the two configurations under
  services and queries that refer to the old one;
* the GUI looks up a service *before* it takes the lock under which it uses
  the index;
* the MSC handler's vector is used by two threads, one of them partly
  without the lock;
* frames are given up half way, so that CIFs, FIC words and ETI frames could be
  composed of pieces of two frames;
* the ring buffer and the slots of a backend are lock free or guarded by
  counting semaphores only;
* the DabProcessor leaves its loop by an exception thrown out of the sample
  reader, at any sample;
* packets, data groups, labels and slides are put together from pieces some of
  which are lost, with state that outlives the loss, the programme (static
  variables) or the handler (a table of the file);
* a slot of the GUI may process events, and so run other slots (and itself)
  before it has finished; a signal may be connected to a slot twice.

What makes a component correct:

* FIB decoder: the tables stay searchable (no hole, no duplicate), what the GUI
  is told can be resolved, no reference into the wrong configuration, and an
  index found without the lock is still right under it;
* DAB processor and FIC handler: words and CIFs are of one frame, nothing of a
  channel is left after `stop`, and `stop` returns;
* MSC handler and backends: no backend is used after its deletion, none is
  leaked, CIFs are neither mixed, skipped nor repeated, nobody waits for ever;
* ring buffer: order and bounds without a lock;
* data and PAD: what is handed out is what was sent, whole, and after a
  disturbance everything is handed out again;
* ETI generator: data, FIBs and count of an ETI frame belong to one CIF, and
  after a reset frames are written again;
* radio interface: a scan visits every channel and ends, timers and posted
  signals of a channel that was left do no harm, what is shown as selected is
  what plays.

## 2. Plan

Built, in this order, the most important state first:

1. `FibDecoder`, the data base everything else asks, with its proofs;
2. `MscHandler`, `Backend`, `RingBuffer`: the hand-over between threads, with the
   abstract specification `Channel` that the last two implement;
3. `DabProcessor` with the FIC handler's collection, with its proofs;
4. `RadioChannels`, the GUI thread on top; then change of the device and
   background services in it;
5. `DataService`: `DataProcessor`, `MotHandler` and `MotObject` composed under a
   transmitter;
6. `AudioService`: `Mp4Processor`, `PadHandler` and `MotObject` composed under a
   transmitter;
7. `EtiGenerator`.

Proved since: the invariants and refinements of `RingBuffer` and `Backend`, the
invariants of `MscHandler`, `InStep` of `EtiGenerator`, the scan and the preset timer of
`RadioChannels`, whole objects and the oldest one of `DataService`, superframes, slides
and labels of `AudioService`, and the safety of `FibDecoder`: tables, look-ups,
resolution of what was signalled, announcements (section 7).

Still to come, in this order:

1. a composition of `DabProcessor` and `MscHandler` under the calls that
   `RadioChannels` makes, in place of the two models' own environments. What the
   first hands to the second is less than one would like: a frame may be broken off, and
   when the scan mode is cleared inside a frame its first blocks are passed over (`FullCIF` in
   section 6); the environment of `MscHandler` does both;
2. announcements and the end of the program in the GUI thread; `adjustTime` as an
   operator checked against a calendar; the TCP servers.

## 3. Modules

Every variable and action has the name of the code's variable or function
where there is one. Definitions marked *(fault)* are plausible mistakes; no
specification uses them, they serve to test that a property can fail.

| module | models | concurrency in the model |
|---|---|---|
| `FibDecoder` | `fib-decoder.cpp`: FIG 0/0, 0/1, 0/2, 0/3, 0/8, 0/18, 0/19, 1/0, 1/1, 1/4, 1/5, `bind_*`, `createService`, `cleanupServiceList`, `connect_channel`/`disconnect_channel`; `restart`, `stop`, `running` of the FIC handler; the GUI queries | a FIB is processed FIG by FIG under `fibLocker`; a query looks a name up before it has the lock, slot by slot while a handler may be at work, and does the rest under it |
| `MscHandler` | `msc-handler.cpp`: the vector of backends and the CIF; `set_scanMode` of `dab-processor.cpp` | the loop over the vector goes backend by backend, `set_Channel` may come between; the scan mode ends at any block |
| `Backend` | `backend.cpp`, threaded build: slots, semaphores, de-interleaver, `stopRunning` | three threads, one step per semaphore operation, per copy and per loop pass; the end of the wait by its time-out and the test of `running` are apart |
| `RingBuffer` | `ringbuffer.h`: put, get, skip, with regions and index updates | reader and writer, with load and store of an index apart; `skip` reads the count twice |
| `RingBufferFlush` | `RingBuffer` and `FlushRingBuffer`, called by the reader | the two stores apart |
| `Channel` | abstract: a bounded FIFO queue with one producer and one consumer | |
| `DabProcessor` | `dab-processor.cpp`, `sample-reader.cpp`, results of `timesyncer.cpp`, `process_ficBlock` and the positions in `process_mscBlock` | the processor's thread block by block, the GUI between any two steps |
| `RadioChannels` | `radio.cpp`: `startChannel`, `stopChannel`, selectors and buttons, `localSelect`, scan, presets, timers, the slots of the processor's signals, `eventFilter` and `epgTimer_timeOut` for services in the background, `newDevice` and `doStart`, with the preset of the settings; `firstChannel`, `nextChannel` | one thread; a stack of slots suspended in `processEvents`, and a queue of posted events |
| `DataProcessor` | `data-processor.cpp`: `handlePacket` | one step per packet |
| `MotObject` | `mot-object.cpp`: `addBodySegment` and completeness | |
| `MotHandler` | `mot-handler.cpp`, `mot-dir.cpp`: `add_mscDatagroup`, the table, the directory, construction and deletion | handlers of several services on one table |
| `DataService` | the composition: packets into data groups into objects | a transmitter with loss, damage and foreign packets; the GUI selects and leaves |
| `Mp4Processor` | `mp4processor.cpp`: the window of five frames and the access units | one step per frame and per access unit |
| `PadHandler` | `pad-handler.cpp`: short and variable PAD, dynamic labels, data groups, slides | a record, each function an operator on it |
| `AudioService` | the composition: frames into access units into labels and slides | a transmitter with faults; the service is selected anew |
| `EtiGenerator` | `eti-generator.cpp`: `processBlock`, start, stop, reset | `processBlock` in the thread of the processor in up to four steps, the GUI between any two |

The `MC` modules hold the transmitters, carousels and programmes of the runs.

How they correspond to each other: `FibDecoder` is the part of the receiver
`DabProcessor` writes its FIC words to; there a word is only *heard* or not.
`DabProcessor.process_mscBlock` and `MscHandler.Block` are the same function,
once for what the thread hands over and once for who receives it: `LoseFrame`
of the one is `Leave` of the other. A CIF that `MscHandler.Deliver` gives to a
backend is a segment of `Backend.Process`; `locker` is in both. What a backend
decodes is a `Frame` of `AudioService` or a run of packets of `DataService`.
`EtiGenerator.FrameBroken` is `Leave` of `DabProcessor` once more.
`RadioChannels` makes the calls that are the environment of all of them.

Abstractions, by module:

* `FibDecoder`: an identifier is a member of a small set, a label a model value,
  a FIG a record of the fields its handler reads. An ensemble is a set of
  FIGs, `air` the one the receiver is tuned to: any FIG of it may come at any time, so that
  loss, repetition and every order are covered. Attributes that are only displayed
  are left out. A handler is one step for those who take the lock. For the search
  without it `before` keeps the services as they were, and an unlocked read of a slot delivers
  `inUse` and label each from before or after: so a service whose `inUse` is written and whose
  label is not (`createService`) is seen with the label of its predecessor. When a
  `bind` finds a full table the code writes to `serviceComps [-1]`, which is the end of
  `subChannels [63]`; the fields it overwrites there are left out of the model, which notes the
  write in `overrun` (`RoomForAll` excludes it for ensembles that fit).
* `MscHandler`, `DabProcessor`: of soft bits only the frame they are from.
* `Backend`: a segment is its number; bit `i` of it is treated by the class
  `i mod Depth`, as `interleaveMap` does. The build with a thread per backend is an option
  (`__THREADED_BACKEND`), commented out in `CMakeLists.txt:97`; without it
  `process` decodes the segment itself, and the queue and its hazards do not exist.
* `RadioChannels`: services of different channels have different names, so
  that a late `addtoEnsemble` is refused by `getSubChId`; an audio service
  stands for itself and its sub-service; timers fire at any time the event
  loop is idle. A behaviour begins when `doStart` is over: with the preset the settings name
  (`Saved`) waiting for its timer, on its channel if the selector has it and on the first one if
  not. `connections` counts how often the channel selector is connected, once more for
  each device; the slot of the preset selector is connected as often, but its first call sets the
  selector to entry 0, at which the further ones return (`radio.cpp:3053-3060`).
  Between the `connect` of `startScanning` and the stop of the processor in it a
  No_Signal_Found may still be posted, and is delivered by the `processEvents` that follows.
* `DataProcessor`: a packet is the fields of its header, whether its CRC is
  right, and which piece of which data group it carries. Of the bytes collected
  only whether they are the pieces 1..n of one group is kept: any other
  sequence fails the CRC of the group.
* `MotHandler`: a segment is who sent it and whether it is whole. Order numbers
  are compared with each other and with 0 only, so they are moved down
  together; this keeps the model finite and every comparison as it is. With handlers of
  two services at once it is not exact: a new one counts from 0 in the code, among numbers that
  were not moved. Only `MotShared` has two.
* `Mp4Processor`: a frame is its superframe, its place there and the kind of its
  bit errors; a fire code that is right by chance is left out. The number of
  access units is constant.
* `PadHandler`: texts and data groups are runs of units of one label or group, or
  a mixture. Data groups with CRC only; of MOT types those that are handled. The
  list of contents of an X-PAD has room for four entries, so the loop over its fields is
  four calls of `Field`.
* `AudioService`: a programme is a sequence of access units, sent for ever. That it codes
  its labels in order (flags, lengths, one segment after the other) is not built into the
  model; it is `LabelsCoded`, which supposes no more than that what is sent of a label after
  each access unit follows from what was sent before it. A label that is continued in
  variable X-PAD without a content indicator is excluded by it as well: `handle_variablePAD` takes such a
  field for data groups only (`pad-handler.cpp:198-212`).
* `EtiGenerator`: a CIF is its age, counted from the one being received, so that
  CIFs need no numbers that grow. `fig00` says from where the FIB decoder has its count: from
  a FIG 0/0 of this frame, of an earlier one (the FIB in this frame failed its CRC), or from
  none since the decoder was reset, at which `processBlock` returns (line 187) and
  leaves the slot in turn as it is. That `fibBits` are those of the frame rests on the
  FIC handler running whenever blocks come: it is restarted before the thread is
  started and stopped after its end (`dab-processor.cpp:start`, `stop`).

## 4. Runs

Passing runs (number of distinct states):

| run | states | question |
|---|---|---|
| `FibDecoder` | 1,496,568 | an ensemble with two audio components and a data service, a reconfiguration in which one programme leaves and one stays, two announcement clusters, an announcement with a reconfiguration in its midst; FIGs in any order, the GUI querying, the channel left and selected again: do the tables stay consistent, does no component refer to another configuration, is no service hidden behind a hole, is an index found without the lock right under it, can what was signalled be resolved, and can an announcement that was started be ended? |
| `MscHandler` | 1,633,165 | three backends opened and closed during three frames of two CIFs, some of which are broken off, while the scan mode is set and cleared, also half way through a frame |
| `RingBuffer` | 32,082 | batches that wrap, fill and empty a buffer of 4; refinement of `Channel` |
| `Backend` | 878 | 12 segments through three slots and four rows, closed at any time; refinement of `Channel`; `process` returns, `stop_service` ends |
| `DabProcessor` | 33,088 | frames broken off anywhere, scans switched on and off |
| `RadioChannels` | 946,192 | a preset of the settings, with its channel in the selector or not, two actions of the user, all scan modes, background services, change of the device, signals and time outs that overlap |
| `DataService` | 412,344 | three objects, two of them in a directory, in packets that are lost, damaged and mixed with others, until the reception is clean: is only handed out what is whole, does the oldest object give way, and is each object handed out in the end? |
| `AudioService` | 98,563 | a programme with variable and one with short PAD, with two faults of any kind: is no superframe passed over, are labels and slides shown whole, and are all of them shown again and again? |
| `EtiGenerator` | 79,858 | frames broken off, FIBs lost, the generator started, stopped and reset within `processBlock`: do data, FIBs and (when the frame's FIG 0/0 was heard) count of what is written belong together, and is it written again after each reset? |

Runs that find a violation, each of something the repository says of itself:
`FibChangeHealthy`, `DabStop`, `RadioRestart` (section 6).

The type invariants `TypeOK` of `RingBuffer`, `Backend` and `RadioChannels`
are not among the properties of the runs; they hold in the same configurations
with `INVARIANT TypeOK` added.

### Bounds, and why they are enough

* `FibDecoder`: as many slots as services and components are on the
  air, because the 64 of the code are never used up by an ensemble of the standard's
  size; three services, three components and two configurations are the least
  in which a search loop passes one entry, stops at a hole in front of
  another, and refers to the other configuration. The transmitter is one of four
  small ensembles, two of them `Consistent`, the others reconfigured. `MCNext` leaves
  out what shows nothing more: queries while an ensemble with announcements is on the
  air, as they read no cluster; leaving the channel of the one with a reconfiguration within an
  announcement, since that takes everything off the air; packet queries where there is no
  packet service. The proofs of section 7 depend on none of these numbers or restrictions.
* `AnnounceMax = 6`: the counter is compared with 5 only.
* `MscHandler`: three backends on two sub-channels give the neighbours that
  matter to an erase inside the loop (same, other, last); two CIFs of two blocks
  give a CIF broken off in its first and in its second half.
* `RingBuffer`: size 4 with 11 elements passes the end of the double index range;
  batches of up to 5 are larger than the buffer.
* `Backend`: three slots are fewer than the segments under way, four rows with
  the bit-reversed delays of the standard; the indices wrap several times.
* `DabProcessor`: mode I has four units per block, which is what makes words
  span blocks; 10 blocks instead of 76 give two CIFs of three; `Attempts = 3`.
* `RadioChannels`: four channels, one skipped, one without an ensemble between
  two with one; two services, one of them a guide; two posted events, enough for
  a signal that is still queued when the next slot stops the channel and for one
  more; `MaxClicks = 2`; the saved preset is on the last channel, on one the selector does not have,
  or there is none. `NestedUser = FALSE`: the user is not
  taken to be so quick as to click inside `processEvents`, which lasts for
  milliseconds; signals do get in there.
* `DataService`: two slots of the table instead of the 15 that `setHandle` uses fill up with the first
  objects that are not in the directory or come before it, so that every later one
  makes another go; segments of one and of three packets, so that a group may
  lose its first, a middle or its last packet and the index of four values wraps.
* `AudioService`: the loss of a frame and what follows from it are over within two
  superframes; two faults can hit the same label, or a slide and the one after it.
  Two access units per superframe put pieces of a label into different ones. Both
  programmes are what `SlidesWellFormed` and `LabelsCoded` suppose (`MCAudioService`).
* `EtiGenerator`: a matrix of four CIFs with all four delays, frames of two CIFs of
  two blocks: a frame can be broken off inside and between CIFs, and the FIB ring
  holds the FIBs of two frames.

Deadlock is checked except where the system may rest: `MscHandler` and
`Backend` (the bounds on frames and segments are used up), `RadioChannels`
(nothing to receive and a user who does nothing).

## 5. Fairness

* `Backend`: weak fairness of the two threads and of the deletion. Each step is
  either enabled for good or waits on a semaphore the other side releases; the
  threads are the system's and are scheduled.
* `DabProcessor`: weak fairness of `run` (a thread that was created gets to
  run), of `Leave` (with the flag down the wait for samples ends with the
  exception; the wait polls every 100 us) and of `Stopped` (`wait ()` sees the end
  of the thread). No fairness of the samples: a device may stall.
* `RadioChannels`: weak fairness of the delivery of posted events, of the two
  single-shot timers, of the next slot of an activated signal, and of a slot
  going on after `processEvents`, which
  returns when its events are served. None of the user and none of the
  processor's signals: a channel without an ensemble need not say so.
  `UndisturbedScanEnds` supposes that the time-out is connected; `RadioScan` shows a scan
  for which it is not.
* `DataService`: weak fairness of the flow of packets once the reception is
  clean; nothing is promised before. `AudioService`: weak fairness of frames and of
  the loop over access units; the faults are bounded in number. A transmitter does
  not stop, and the thread of the backend is scheduled.
* `EtiGenerator`: weak fairness of `processBlock`: blocks come as long as there
  are samples. `FramesGoOn` promises frames once the reception is clean, which includes that
  FIG 0/0 is received.

## 6. Findings

* `FibChangeHealthy`: `cleanupServiceList` frees the slots of unhealthy services
  while it looks up each service with a loop that ends at the first free slot, so that
  the services after one that was dropped are dropped too, although they
  have their components.
* `DabStop`: a `stop ()` between `start ()` and the first statement of `run ()`
  is undone by that statement, and waits for a thread that does not end. The
  passing run shows the same property from the head of `run ()` on.
* `RadioRestart`: `changeinConfiguration` stops a copy of the current service,
  which clears the copy's `valid`, and then starts it again only `if (s.valid)`. The
  service stays silent after every reconfiguration, and is still shown as selected.

Further counterexamples, kept with their configurations for
`tlc -config X.cfg M` by hand (where one names several invariants, `-continue` finds a
counterexample to each):

| configuration | module | what it shows |
|---|---|---|
| `FibPublic` | `MCFibDecoder` | `createService` reuses a slot without clearing `is_shown`; a data service in the place of a dropped programme is never announced |
| `FibLookup` | `MCFibDecoder` | `IndexNames`: a reconfiguration gives up a slot, and `createService` sets `inUse` there before the label: the search without the lock finds the dropped name, and the query goes on with the service that has the slot now |
| `FibSCIds` | `MCFibDecoder` | two audio components of a service both have SCIds 0 until FIG 0/8 comes |
| `FibSlide` | `MCFibDecoder` | `dataforPacketService` answers before FIG 0/3, with `subChannels [-1]` |
| `MscRace` | `MscHandler` | `set_Channel` pushes to the vector without the lock while `process_mscBlock` runs over it |
| `RingFlush` | `RingBufferFlush` | `FlushRingBuffer` called by the reader between load and store of the writer's index: more elements than cells |
| `DabFaults` | `DabProcessor` | `NoSignalAfterAttempts`: `mTimeSyncAttemptCount` outlives channels and found frames; No_Signal_Found comes after one failed search |
| `DabFaults` | `DabProcessor` | `FullCIF`: scan mode ends inside a frame: a CIF whose first blocks are old is handed out |
| `RadioNested` | `RadioChannels` | time out and No_Signal_Found of one channel: `startChannel` with a channel active, against its precondition |
| `RadioTwice` | `RadioChannels` | a service selected while a preset waits: `setPresetService` starts a second one beside it |
| `RadioScan` | `RadioChannels` | a second scan stays on the first channel with an ensemble: the time out was disconnected by the end of the first and is not connected again |
| `RadioBackground` | `RadioChannels` | the loop of `changeinConfiguration` over the background services looks for the service in the foreground each time: what is dumped is not restarted, or gets the wrong sub-channel |
| `RadioDevice` | `RadioChannels` | after a change of the device that failed, "nothing will happen"; a preset still starts the DAB processor, whose device is deleted |
| `MotShared` | `MCDataService` | two data services on the one `motTable`: the object that gives way is not the oldest |
| `PadLabel` | `MCAudioService` | a label that begins in its middle is shown: the text before the loss is kept, or the first segment was never there |
| `PadShort` | `MCAudioService` | a label of one segment in short PAD is never shown |
| `PadSize` | `MCAudioService` | X-PAD that goes on without a content indicator is not taken when its size was not noted before |
| `EtiFaults` | `MCEtiGenerator` | `Filled`: the first ETI frame has a class of soft bits that was never filled: the matrix counts as full with 15 CIFs |
| `EtiFaults` | `MCEtiGenerator` | `FileOpen`: the file is closed between the test of `etiFile` and `fwrite` |
| `EtiFaults` | `MCEtiGenerator` | `CountOfFrame`: a frame whose FIG 0/0 failed its CRC is written with the count of an earlier one |
| `EtiFaults` | `MCEtiGenerator` | `FibValidInBounds`: after frames broken off, the FIBs of a frame are written past the end of `fibValid` |

### Where code and expectation differ, as the models show it

These are in the models because they are in the code; the properties are stated so as
to hold beside them.

* FIB decoder: `NoOverrun` holds of ensembles that fit the tables only (`RoomForAll`
  proves it of all of them); with 64 components the search for a free one would run past
  the end. The change flag seen last is a static variable: it outlives the channel, so that
  an ensemble left while its flag was 3 makes the first FIG 0/0 of the next one a
  reconfiguration. The clusters are not touched by a reconfiguration, but found anew in the
  configuration that FIG 0/19 names: an announcement goes on in the old one's cluster, and is
  stopped only when that configuration is addressed again (`OnAirAccounted` would say otherwise;
  `OnAirCanEnd` is what holds), and for a slot that was given up it may not be stopped
  at all, as `stopAnnouncement` reads the label of whoever has the slot then.
* DAB processor and MSC handler: the CIF in which the scan mode is cleared is made of blocks of
  this frame and of whatever the buffer held; `CifOfOneFrame` excepts this one.
* MSC handler: `stop_service` erases while it iterates and leaves every other
  one of several backends of a sub-channel.
* Ring buffer: `skipDataInBuffer` tests the count and reads it again; when the writer
  came between it skips more than was asked for.
* Radio: `localSelect` does not end a scan although the comment at `stopScanning`
  lists the user's selection of a service; it stops `channelTimer`, so that the
  scan stays where it is and the service is not heard. The name of an ensemble that
  is delivered inside `stopChannel`, after `cleanChannel`, sets `channel.Eid` again.
  Without a current service `changeinConfiguration` stops and looks for a service
  from an uninitialised record. A No_Signal_Found that is delivered inside `startScanning`'s own
  `stopChannel` finds `scanning` still false, and disconnects the signal and the time-out of
  the scan that is beginning. A saved preset whose channel the selector does not have is waited for on
  the first channel.
* Packets: continuity is checked before CRC and address, so that a packet of
  another address counts as a gap. At a gap the
  expected index becomes 0, so that packets are dropped until one with that index comes, be
  they intact and complete in themselves; the series collected so far is kept.
* MOT: the constructor of a handler wipes the table all handlers share, the
  destructor deletes objects of others and leaks the one with order number 0;
  transport ids of different services are mixed; an object made from a body
  segment without a header hides the header and the directory's object that come later.
* PAD: `moreXPad`, `isLastSegment` and `remainDataLength` are static variables and
  outlive the service; segment numbers of a label are ignored; the first
  continuation without content indicator is dropped when no size is known; a
  short PAD of type 3 takes its flags from the text.
* Superframes: the fire code is checked before Reed-Solomon corrects it, so that a
  correctable error in the first bytes costs the superframe.
* ETI: the count is that of the last FIG 0/0 heard, be it of this frame or not; without
  one `processBlock` returns before it turns to the next slot (`eti-generator.cpp:187`). A frame that is broken off does not refill the matrix, and the frames
  written next mix CIFs from before and after the gap; `reset` deletes protection
  tables that `processBlock` may be using.

## 7. Proofs

Eight modules hold proofs. What is proved holds for every value of the constants that
satisfies the named assumptions (they are evaluated by TLC in the runs), and, where this
is said, under a hypothesis that is a definition of its own:

`FibDecoder_proofs` (assumptions: the sizes are natural numbers, the FIGs are
well formed; nothing about which FIGs come or when):

* `TypeCorrect`, `NoHoles` (`CompsDense`), `NoDuplicates` (`CompsUnique`),
  `SubChannelsInUse` (`CompsHaveSubChannel`), `ServicesAreFound` (`ServicesFound`),
  `IndexStays` (`IndexStable`), `UnhealthyAreDropped` (`ChangeDropsUnhealthy`),
  `AnnouncementsCanEnd` (`OnAirCanEnd`);
* under a hypothesis about the FIGs: `RoomForAll` (`NoOverrun`), `AnnouncedAreResolved`
  (`AnnouncedResolvesStatic`).

  The invariant is `TypeOK /\ Tables /\ SlotsFresh /\ Asking /\ IndexStable`. The three
  properties of `Tables` are proved together: that a `bind` does not enter a
  component twice rests on its search loop reaching every component, that is on
  there being no hole; that no hole appears rests on `FreeComp` being the *first*
  free slot and on tables being emptied only as a whole. A component
  becomes selectable only in `bind_audioService`, which tests the sub-channel, and
  in FIG 0/3, which does so too; sub-channels are forgotten only together with the
  components of their configuration.

  `SlotsFresh` is what the search without the lock rests on: a slot that no reconfiguration of
  this channel gave up has no label before it is in use, so that whatever the search reads there, in the
  midst of a handler or not, is true or nothing. Of the other slots (`freed`) nothing is claimed,
  and `FibLookup` shows that nothing can be.

  `ServicesFound` is about holes in the table of services: a slot is given up where
  the search by SId no longer gets, or where the service has no component, and what `cleanupServiceList`
  keeps it has found itself; `createService` fills the first hole.

  `ChangeDropsUnhealthy` is about one step, but about a function that is recursive over
  the slots: that a slot is kept depends on those before it only, and a slot that is kept was
  judged by the components of the new configuration.

  `OnAirCanEnd`: a label is on the air together with the slot and a cluster that counts it. That
  the cluster's slot still has that label needs `SlotsFresh` and `LabelsStay`, since a slot with a
  label is not given out again unless it was given up.

  `RoomForAll` assumes `EnsembleFits`: FIG 0/2 names no more components than the
  table has room for. Each component in a table is one of those named, and none is there
  twice, so that a full table has all of them and the next search finds its component;
  `FullIsBound` is this counting argument.

  `AnnouncedResolvesStatic` carries its hypothesis itself: the ensemble is `Consistent`. Its
  configuration stays; a label names one service, because `findService` by label stops at the
  first; there are slots for all labels; and FIG 0/8 gives a component the number FIG 0/2
  implies, because a component numbered twice could be described under one number and asked
  for under the other. The invariant `Resolvable` says of each component and each service in
  the tables which FIGs it is from (`CompsSound`, `ServicesSound`), that no label stands in
  two slots and no slot before a service is free, and that each one announced is `Known`: it has a slot
  and a component. That `createService` always finds a slot is a count of labels against slots.

`DabProcessor_proofs` (assumptions: one, two or four units per block, more than
four blocks, at least one attempt):

* `TypeCorrect` (with it, that the word number stays within `fibBits`),
  `FicIsAligned`, `WordsAreWhole`, `StopIsQuiet`, `LostWasReached`.

  `FicAligned` speaks of the end of block 3 only; the invariant says what index
  and word number are after each of the blocks before (`Aligned`), which depends on the mode, and
  that what lies below the index is of this frame (`Fresh`). `LostOnlyIfReached`
  needs `Corrected`: once a run of the thread is past its head, that no
  correction is wanted means that the FIC gave synchronisation in this run.

`RingBuffer_proofs` (assumptions: at least one cell, batches of at least one element):

* `TypeCorrect`, `NeverOverfull` (`AvailableInRange`), `NoRace` (`NoDataRace`), and
  `Refinement`: every step of the buffer is a step of `Channel` or a stutter.

  Load, copy and store of the two sides interleave, so the invariant says what each side may
  rely on between its steps. `WriterFits`: what the writer has in hand fits beside what
  is there, which the reader can only make less, and the index loaded is still the
  buffer's. `ReaderFits`: what the reader has in hand is there, and what it has
  copied is the oldest part of it, although the writer stores meanwhile. For the refinement
  the contents (a sequence over the double index range, which may wrap)
  are shown to grow at the end by a store and to shrink at the front by an advance.

`Backend_proofs` (assumptions: at least one slot, a depth, delays below the depth):

* `TypeCorrect`, `FramesAreWhole` (`WholeFrame`), `DeletedAreQuiet`
  (`DeletedIsQuiet`), and `Refinement` of `Channel`.

  `SlotsAccounted` counts the slots: each is free, used or in the hands of a thread, and the
  semaphores agree with the segments under way; from it follows that the copy never overwrites
  a segment that waits. `SlotsInOrder` and `RowsInOrder` say which segment each slot and
  each row of the de-interleaver holds, `ReadInOrder` which ones were read; the zeros of
  the start are in it, because a frame is decoded only once they are out. `LockOwner` ties
  `locker`, `running` and the three threads together.

`MscHandler_proofs` (assumptions: at least one block per CIF, and a frame of at least one
whole CIF beyond the three FIC blocks, `LastBlock > 3`):

* `TypeCorrect`, `NeverUsedAfterDelete`, `VectorHoldsObjects` (`VectorIsObjects`),
  `CifsAreWhole` (`CifOfOneFrame`), `CifsComeInOrder` (`CifsInOrder`).

  `Loop`: while the loop runs the lock is held, and what it still has to visit is in the
  vector. `Vector`: elements and objects correspond one to one. `Cif`: the blocks below
  the position are of the frame that comes in, unless one was passed over for the scan
  mode (`passed`); this lasts until the CIF is over, and `CifOfOneFrame` excepts that CIF. `Gots`: the backends the loop has passed have
  the CIF, those before it have the one before, and those opened since have
  none; this is what makes `CifsInOrder` inductive. `given` counts the calls of `process`, so
  that a CIF handed over twice is a call that does not advance `got`, and is refuted. The erasing in `stop_service` is
  `Without`, which picks the kept elements by their rank: that ranks number them without a gap is
  proved by counting, in place of an induction over the vector.
  `NoUseAfterDelete` and the order exclude the race of `set_Channel` (`MscRace`) by their own
  statement.

`EtiGenerator_proofs` (assumptions: frames of at least one CIF of at least two blocks; the
depth is a multiple of the CIFs per frame, as 16 is of the four of mode I; the delays of
the classes are below the depth):

* `WrittenInStep` (`InStep`).

  `InMatrix`: the CIFs of the present row without a gap follow each other in the matrix.
  `InFrame`: count, position and FIBs belong to the frame being received. `Row`: a row begins
  with a frame, so that it reaches the depth with one, and is not longer than the
  matrix is filled; without a count nothing is put into a row. `Counted`: `Minor` counts the CIFs from then on. `Served`: the frame
  that is built, between the steps of `processBlock`, in which the GUI may start, stop and
  reset. Soft bits and FIBs are in step whatever FIG 0/0 does; of the count it is said
  for frames whose FIG 0/0 was heard, and `CountOfFrame` (`EtiFaults`) shows that no more is true.

`RadioChannels_proofs` (assumption: at least one channel; hypothesis `~NestedUser`: the user does not
click inside `processEvents`):

* `ScanIsShown` (`ScanShown`), `PresetIsAwaited` (`PresetAwaited`), and
  `ScanVisitsAll` (`ScanIsComplete`), the last if some channel has no skip flag: with the flag
  on all of them the scan is on channel 0 all the same.

  The invariant speaks of the stack of suspended slots. `Nested`: all but the first are
  No_Signal_Found, the only one that is called from `processEvents`. `UserFirst`, `ScanOff`: a slot
  of the user's has disturbed the scan and, where it does so, ended it. `CalledAgain`: while a
  signal connected twice calls its slots no scan begins. `PresetOff`: nobody has the
  preset timer running who is suspended. `PresetAwaited` holds from the end of `doStart` on, for
  every preset the settings may name; one whose channel is not in the selector waits on the first
  channel only. `InOrder`: a scan left alone has visited an initial part of the
  channels, also from where each suspended slot will go on. Without `~NestedUser` a click of the user could
  start a scan inside a slot that then goes on with its own channel.
  The steps fall into three kinds (run to the end, suspend, go on), and each is treated once.

`Services_proofs` is about both kinds of services. Packets (assumptions: those on sizes and groups,
and `CarouselAssumption`: a carousel is a sequence of at least one group of its service):

* `HandedAreWhole` (`HandedIsWhole`), under `WellFormed`, which `MCDataService` states of
  its carousels: `IdsApart`, services have different transport ids, because `motTable` knows an
  object by this id only; `BodiesProtected`, segments have a CRC; `LastIsLast`, the segment
  marked as the last has the greatest number, since `numofSegments` is taken from it.

  `Packets`: what is collected, or was begun, is of a group of the service. `TableOf` and
  `DirectoryOf`: an object in the table or in a directory has undamaged segments of its own
  service and transport id only, and a number of segments that its last one gives. The
  first is said of an entry for whichever service sends its id, as the handlers share the table and
  a handler that is deleted leaves entries behind.

* `OldestGivesWay` (`OldestOut`), under `OneService` (`MotShared` shows why). `AgeInv`: of two
  entries the one with the smaller order number was there first, no two have the same, and the
  next number of a selected service is greater than all. A handler that is deleted counts from 0 again
  beside old entries; the next one empties the table before it counts. That moving the numbers down keeps
  their order is `RebasedKeepsOrder`.

Access units (assumptions: at least one access unit per superframe, and
`ProgrammeAssumption`: a programme is a whole number of superframes, its fields carry runs of units,
those of data groups of its own groups):

* `NoSuperframeMissed` (`NoneMissed`). `WindowInv`: the frames in the window, counted back from the
  one that came last, follow each other as far as they are linked (`Linked`); and the frames that
  `blocksInBuffer` does not count, those of a superframe that was found or of the beginning, are damaged or
  not the first of a superframe (`NoHeadLeft`). So when the five frames are a superframe they are all
  counted, and it is taken. With a smaller count than 4 after a failure the second part would not hold.

* `SlidesAreWhole` (`SlideIsWhole`), under `SlidesWellFormed`: the segment marked as the last of a slide
  has the greatest number. `SlidesSound`: the slide in work has only segments of its own
  transport id and a number of segments that its last one gives, and what is collected of a data group is
  of one group or of no use (`Mixed`). It holds whatever is lost: a group that lacks a piece fails its CRC.

* `LabelsAreWhole` (`LabelWhole`), under `LabelsCoded (sent)` for some `sent`: what is sent of a label
  after each access unit, as a state of the transmitter (`LabelSent`). `Follows`: if the label that is
  being sent began within the access units received in a row, the handler has collected
  exactly what was sent of it, and how much is left of the segment in its static variables (variable
  X-PAD) or its members (short X-PAD) is what the transmitter has left. If it began earlier nothing
  is said of the buffers, which is why the invariant survives losses, damage, a new selection and what another
  service left in the static variables. `LabelWhole` speaks of `span` access units in a row because no
  label lasts longer (`MayContinue`).

Only model-checked:

* liveness (fairness and ENABLED are out of the prover's reach): `FramesGoOn` of
  `EtiGenerator`, `EventuallyHanded`, the ends of `process`, `stop_service` and `stop ()`, the
  end of an undisturbed scan, labels and slides shown again and again;
* `TypeOK` of `RadioChannels`: `EntriesOn` is an exponent there, of which the provers know nothing.
  The proofs carry the types they need (`Types`).

No module uses RECURSIVE operators.

## 8. Not modelled

* Signal processing and error protection: no state that decides control; their
  outcome (a dip, a start index, a FIB that passes its CRC) is a free choice.
* Decoders of audio, EPG, TDC, IP and Journaline payloads; device handlers; the
  viewers and tables: pure functions, wrappers of libraries, or display. These, with
  vendored headers, are most of the lines of the repository, which is why the
  models stand for a small share of them.
* The TCP servers and the tables of presets and history: planned, or only kept in
  files.
* In the modelled components: dumping of samples and of frames to files, TII, clock
  and level displays, announcements in the GUI, and the end of the program; in the
  MOT handler the names and types in the headers; in the ETI generator the bytes of a frame
  and the deconvolution of the sub-channels; in the superframes the counters of errors.
