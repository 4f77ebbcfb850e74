---------------------------- MODULE DabProcessor ----------------------------
(***************************************************************************)
(* The DAB processor: src/code/dab-processor.cpp, with the running flag of *)
(* ofdm/sample-reader.cpp, the results of ofdm/timesyncer.cpp and the      *)
(* collection of FIC words in ofdm/fic-handler.cpp.                        *)
(*                                                                         *)
(* The GUI thread calls start (), stop () and set_scanMode ().  The        *)
(* thread of the processor takes samples in portions; each portion checks  *)
(* the running flag of the reader and throws, out of whatever state the    *)
(* thread is in, once the flag is down.  Signal processing is a choice:    *)
(* any portion of samples may or may not contain a dip, a start index, a   *)
(* FIB that gives synchronisation.                                         *)
(*                                                                         *)
(* Soft bits come in units of 768: a FIC word takes three of them, a block *)
(* carries UnitsPerBlock (4 in mode I, 1 in mode II, 2 in mode IV).  Of a  *)
(* unit or block that is collected only its age matters: it is from the    *)
(* frame in hand, or from an earlier one.                                  *)
(***************************************************************************)
EXTENDS Integers, Sequences

CONSTANTS
  UnitsPerBlock, \* BitsperBlock div 768
  BlocksPerCIF,  \* numberofblocksperCIF, 18 in mode I
  NrBlocks,      \* mDabPar.L, 76 in mode I: blocks 0 .. NrBlocks - 1
  Attempts       \* failed searches before No_Signal_Found, 8

ASSUME UnitsAssumption    == UnitsPerBlock \in {1, 2, 4}
ASSUME BlocksAssumption   == BlocksPerCIF \in Nat \ {0} /\ NrBlocks \in Nat /\ NrBlocks > 4
ASSUME AttemptsAssumption == Attempts \in Nat \ {0}

VARIABLES
  gui,            \* the GUI thread: "idle", or "stopping" in stop ()
  open,           \* history: start () was called, and stop () has not returned
  reading,        \* SampleReader::running
  ficRunning,     \* FicHandler::running
  scanMode,       \* mScanMode
  state,          \* the thread: "off", "begin", "level", "marker", "eval",
                  \* "block" or "null"
  blk,            \* the block that is read next
  index, ficno,   \* of FicHandler, index in units
  ofdm_input,     \* [unit] : age of what is collected there
  ficWords,       \* ages of the units of the FIC words decoded in the last block
  cifVector,      \* [block of the CIF] : age of what is collected there
  cif,            \* ages of the blocks of the CIF last handed out, or <<>>
  synced,         \* ensemble->isSynced
  reached,        \* history: synced was true when a frame of this run began
  mCorrectionNeeded,
  mTimeSyncAttemptCount,
  failed,         \* history: failed searches since start () or a found frame
  signal          \* the signal of the last step: "none", "noSignal", "syncLost"

guiVars  == <<gui, open, ficRunning, scanMode>>
ficVars  == <<index, ficno, ofdm_input, ficWords>>
mscVars  == <<cifVector, cif>>
syncVars == <<mCorrectionNeeded, mTimeSyncAttemptCount, failed>>
vars == <<guiVars, reading, state, blk, ficVars, mscVars, synced, reached, syncVars, signal>>

Ages  == {"this", "earlier"}
Units == 0 .. 2
Old(f) == [i \in DOMAIN f |-> "earlier"]

-----------------------------------------------------------------------------
(* The GUI thread.                                                         *)

\* start: FicHandler::restart, then the thread, unless one is running still.
\* reset_Channel of the MSC handler is in module MscHandler.
start ==
  /\ gui = "idle"
  /\ open' = TRUE
  /\ ficRunning' = TRUE /\ synced' = FALSE
  /\ IF state = "off"
     THEN state' = "begin" /\ failed' = 0 /\ reached' = FALSE
     ELSE UNCHANGED <<state, failed, reached>>
  /\ signal' = "none"
  /\ UNCHANGED <<gui, scanMode, reading, blk, ficVars, mscVars, mCorrectionNeeded,
                 mTimeSyncAttemptCount>>

\* (fault) stop does not wait for the thread.
StopAtOnce ==
  /\ gui = "idle"
  /\ reading' = FALSE
  /\ open' = FALSE
  /\ ficRunning' = FALSE /\ synced' = FALSE
  /\ signal' = "none"
  /\ UNCHANGED <<gui, scanMode, state, blk, ficVars, mscVars, reached, syncVars>>

\* stop, up to its wait for the thread.
Stop ==
  /\ gui = "idle"
  /\ reading' = FALSE
  /\ gui' = "stopping"
  /\ signal' = "none"
  /\ UNCHANGED <<open, ficRunning, scanMode, state, blk, ficVars, mscVars, synced, reached, syncVars>>

\* The thread has ended; FicHandler::stop.
Stopped ==
  /\ gui = "stopping" /\ state = "off"
  /\ gui' = "idle" /\ open' = FALSE
  /\ ficRunning' = FALSE /\ synced' = FALSE
  /\ signal' = "none"
  /\ UNCHANGED <<scanMode, reading, state, blk, ficVars, mscVars, reached, syncVars>>

set_scanMode(b) ==
  /\ gui = "idle"
  /\ scanMode' = b
  /\ signal' = "none"
  /\ UNCHANGED <<gui, open, ficRunning, reading, state, blk, ficVars, mscVars, synced,
                 reached, syncVars>>

-----------------------------------------------------------------------------
(* The thread.                                                             *)

\* (fault) the correction state of the previous run is kept.
run_keeps ==
  /\ state = "begin"
  /\ reading' = TRUE
  /\ state' = "level"
  /\ signal' = "none"
  /\ UNCHANGED <<guiVars, blk, ficVars, mscVars, synced, reached, syncVars>>

\* The head of run.
run ==
  /\ state = "begin"
  /\ reading' = TRUE
  /\ mCorrectionNeeded' = TRUE
  /\ state' = "level"
  /\ signal' = "none"
  /\ UNCHANGED <<guiVars, blk, ficVars, mscVars, synced, reached, mTimeSyncAttemptCount, failed>>

Waiting == state \in {"level", "marker", "eval", "block", "null"}

\* (fault) the exception ends the frame and not the loop.
LeaveFrame ==
  /\ Waiting /\ ~reading
  /\ state' = IF state = "level" THEN "off" ELSE "marker"
  /\ signal' = "none"
  /\ UNCHANGED <<guiVars, reading, blk, ficVars, mscVars, synced, reached, syncVars>>

\* getSample or getSamples throws, before the wait for samples or after it.
Leave ==
  /\ Waiting /\ ~reading
  /\ state' = "off"
  /\ signal' = "none"
  /\ UNCHANGED <<guiVars, reading, blk, ficVars, mscVars, synced, reached, syncVars>>

Level ==
  /\ state = "level" /\ reading
  /\ state' = "marker"
  /\ signal' = "none"
  /\ UNCHANGED <<guiVars, reading, blk, ficVars, mscVars, synced, reached, syncVars>>

\* TIMESYNC_ESTABLISHED.
MarkerFound ==
  /\ state = "marker" /\ reading
  /\ state' = "eval"
  /\ signal' = "none"
  /\ UNCHANGED <<guiVars, reading, blk, ficVars, mscVars, synced, reached, syncVars>>

\* NO_DIP_FOUND.
NoDip ==
  /\ state = "marker" /\ reading
  /\ failed' = IF failed < Attempts THEN failed + 1 ELSE Attempts
  /\ IF mTimeSyncAttemptCount + 1 >= Attempts
     THEN mTimeSyncAttemptCount' = 0 /\ signal' = "noSignal"
     ELSE mTimeSyncAttemptCount' = mTimeSyncAttemptCount + 1 /\ signal' = "none"
  /\ UNCHANGED <<guiVars, reading, state, blk, ficVars, mscVars, synced, reached, mCorrectionNeeded>>

\* NO_END_OF_DIP_FOUND: the search is repeated and not counted.
NoEndOfDip ==
  /\ state = "marker" /\ reading
  /\ signal' = "none"
  /\ UNCHANGED <<guiVars, reading, state, blk, ficVars, mscVars, synced, reached, syncVars>>

\* find_index finds the first sample of the sync block; a frame begins, and
\* what was collected before is of an earlier frame.
EvalFound ==
  /\ state = "eval" /\ reading
  /\ state' = "block" /\ blk' = 0
  /\ failed' = 0
  /\ ofdm_input' = Old(ofdm_input) /\ cifVector' = Old(cifVector)
  /\ ficWords' = <<>> /\ cif' = <<>>
  /\ signal' = "none"
  /\ UNCHANGED <<guiVars, reading, index, ficno, synced, reached, mCorrectionNeeded,
                 mTimeSyncAttemptCount>>

EvalFailed ==
  /\ state = "eval" /\ reading
  /\ state' = "marker"
  /\ signal' = IF mCorrectionNeeded THEN "none" ELSE "syncLost"
  /\ UNCHANGED <<guiVars, reading, blk, ficVars, mscVars, synced, reached, syncVars>>

\* Block 0: coarse frequency synchronisation as long as the FIC gives none.
Block0 ==
  /\ state = "block" /\ blk = 0 /\ reading
  /\ mCorrectionNeeded' = ~synced
  /\ reached' = (reached \/ synced)
  /\ blk' = 1
  /\ signal' = "none"
  /\ UNCHANGED <<guiVars, reading, state, ficVars, mscVars, synced, mTimeSyncAttemptCount, failed>>

\* Collecting n more units from index s on, in a buffer of three that is
\* decoded and begun again each time it is full: after q words.
Collected(n, s, no) ==
  LET q == (s + n) \div 3
  IN [index |-> (s + n) % 3,
      ficno |-> no + q,
      input |-> [u \in Units |-> IF \E k \in 0 .. n - 1 : (s + k) % 3 = u
                                 THEN "this" ELSE ofdm_input[u]],
      words |-> [u \in 1 .. 3 * q |-> IF u > s THEN "this" ELSE ofdm_input[u - 1]]]

\* process_ficInput: a word that is decoded may bring the ensemble label
\* (FIG 1/0), unless the FIC handler is not running.
Heard(decoded) == IF ficRunning /\ decoded THEN BOOLEAN ELSE {FALSE}

FicBlock(r, no) ==
  /\ state = "block" /\ blk \in 1 .. 3 /\ reading
  /\ index' = r.index /\ ficno' = r.ficno
  /\ ofdm_input' = r.input /\ ficWords' = r.words
  /\ \E s \in Heard(r.ficno > no) : synced' = (synced \/ s)
  /\ blk' = blk + 1
  /\ signal' = "none"
  /\ UNCHANGED <<guiVars, reading, state, mscVars, reached, syncVars>>

\* (fault) block 1 does not reset the index.
process_ficBlockKeeps ==
  LET no == IF blk = 1 THEN 0 ELSE ficno
  IN FicBlock(Collected(UnitsPerBlock, index, no), no)

\* (fault) block 1 does not reset the number of the word.
process_ficBlockCounts ==
  LET from == IF blk = 1 THEN 0 ELSE index
  IN FicBlock(Collected(UnitsPerBlock, from, ficno), ficno)

\* Blocks 1 to 3; block 1 begins the collection anew.
process_ficBlock ==
  LET from == IF blk = 1 THEN 0 ELSE index
      no   == IF blk = 1 THEN 0 ELSE ficno
  IN FicBlock(Collected(UnitsPerBlock, from, no), no)

Position(b) == (b - 4) % BlocksPerCIF

\* The blocks from 4 on go to the MSC handler, unless a scan is on.
process_mscBlock ==
  /\ state = "block" /\ blk >= 4 /\ reading
  /\ IF scanMode
     THEN UNCHANGED mscVars
     ELSE /\ cifVector' = [cifVector EXCEPT ![Position(blk)] = "this"]
          /\ cif' = IF Position(blk) < BlocksPerCIF - 1 THEN cif
                    ELSE [i \in 1 .. BlocksPerCIF |-> cifVector'[i - 1]]
  /\ IF blk = NrBlocks - 1
     THEN state' = "null" /\ blk' = 0
     ELSE blk' = blk + 1 /\ UNCHANGED state
  /\ signal' = "none"
  /\ UNCHANGED <<guiVars, reading, ficVars, synced, reached, syncVars>>

\* The null symbol: level, TII and fine frequency; the next frame follows.
Null ==
  /\ state = "null" /\ reading
  /\ state' = "eval"
  /\ signal' = "none"
  /\ UNCHANGED <<guiVars, reading, blk, ficVars, mscVars, synced, reached, syncVars>>

-----------------------------------------------------------------------------
Init ==
  /\ gui = "idle" /\ open = FALSE
  /\ reading = TRUE /\ ficRunning = FALSE /\ scanMode = FALSE
  /\ state = "off" /\ blk = 0
  /\ index = 0 /\ ficno = 0 /\ ofdm_input = [u \in Units |-> "earlier"] /\ ficWords = <<>>
  /\ cifVector = [i \in 0 .. BlocksPerCIF - 1 |-> "earlier"] /\ cif = <<>>
  /\ synced = FALSE /\ reached = FALSE
  /\ mCorrectionNeeded = TRUE /\ mTimeSyncAttemptCount = 0 /\ failed = 0
  /\ signal = "none"

Thread == \/ run \/ Leave \/ Level
          \/ MarkerFound \/ NoDip \/ NoEndOfDip
          \/ EvalFound \/ EvalFailed
          \/ Block0 \/ process_ficBlock \/ process_mscBlock \/ Null
Gui    == start \/ Stop \/ Stopped \/ \E b \in BOOLEAN : set_scanMode(b)
Next   == Thread \/ Gui

\* The thread is scheduled: it begins to run, and it leaves when the flag is
\* down, since the wait for samples ends then.  A device need not deliver.
Spec == Init /\ [][Next]_vars /\ WF_vars(run) /\ WF_vars(Leave) /\ WF_vars(Stopped)

-----------------------------------------------------------------------------
(* Properties.                                                             *)

TypeOK ==
  /\ gui \in {"idle", "stopping"} /\ open \in BOOLEAN
  /\ reading \in BOOLEAN /\ ficRunning \in BOOLEAN /\ scanMode \in BOOLEAN
  /\ state \in {"off", "begin", "level", "marker", "eval", "block", "null"}
  /\ blk \in 0 .. NrBlocks - 1
  /\ index \in Units /\ ficno \in 0 .. 4
  /\ ofdm_input \in [Units -> Ages] /\ ficWords \in Seq(Ages)
  /\ cifVector \in [0 .. BlocksPerCIF - 1 -> Ages] /\ cif \in Seq(Ages)
  /\ synced \in BOOLEAN /\ reached \in BOOLEAN
  /\ mCorrectionNeeded \in BOOLEAN
  /\ mTimeSyncAttemptCount \in 0 .. Attempts - 1 /\ failed \in 0 .. Attempts
  /\ signal \in {"none", "noSignal", "syncLost"}

\* "we are pretty sure now that after block 4, we end up with index = 0"
\* (fic-handler.cpp): the three FIC blocks of a frame make whole words, as
\* many as fibBits has room for, wherever the previous frame was given up.
FicAligned ==
  (state = "block" /\ blk >= 4) \/ state = "null" => index = 0 /\ ficno = UnitsPerBlock

\* A FIC word that is decoded has all its soft bits from one frame, also when
\* a stop ended the previous frame between two FIC blocks.
FicWordOfOneFrame == \A i \in DOMAIN ficWords : ficWords[i] = "this"

\* Once stop () has returned nothing is under way: the thread has ended, the
\* FIC handler takes no word, and the ensemble of the channel is forgotten.
QuietAfterStop == ~open => state = "off" /\ ~ficRunning /\ ~synced

\* Loss of synchronisation is signalled only in a channel where the FIC gave
\* synchronisation: nothing is left over from the channel before.
LostOnlyIfReached == signal = "syncLost" => reached

\* stop () returns, wherever in a frame the thread is, provided that the
\* thread has come past the head of run.
StopReturnsOnceRunning ==
  gui = "stopping" /\ state # "begin" /\ ~reading ~> gui = "idle"

\* stop () returns: with the flag down there is an "exception to be raised
\* through the getSample(s) functions" (dab-processor.cpp).
StopReturns == gui = "stopping" ~> gui = "idle"

\* No_Signal_Found comes when the processor "has waited - without success -
\* for a period of N frames to get a start of a synchronization" (radio.cpp).
NoSignalAfterAttempts == signal = "noSignal" => failed = Attempts

\* "now we have a full CIF" (msc-handler.cpp): all blocks of a CIF that is
\* handed out are of one frame.
FullCIF == \A i \in DOMAIN cif : cif[i] = "this"
=============================================================================
