----------------------------- MODULE MscHandler -----------------------------
(***************************************************************************)
(* The MSC handler: src/code/backend/msc-handler.cpp.                      *)
(*                                                                         *)
(* The OFDM side (the DabProcessor thread) collects the blocks of a CIF    *)
(* and gives each complete CIF to every backend; the GUI thread opens and  *)
(* closes backends.  Both use the vector theBackends; locker guards it in  *)
(* process_mscBlock, stop_service and reset_Channel, not in set_Channel.   *)
(* While the scan mode is set the DabProcessor passes the blocks over; the *)
(* GUI thread clears it at any time, also half way through a CIF.          *)
(*                                                                         *)
(* A backend is its identity (the object), its sub-channel and its flag    *)
(* (foreground or background); what it does with a CIF is elsewhere.       *)
(***************************************************************************)
EXTENDS Integers, Sequences, FiniteSets

CONSTANTS
  SubChs,        \* sub-channels the GUI opens
  Flags,         \* FORE_GROUND, BACK_GROUND
  BlocksPerCIF,  \* numberofblocksperCIF, 18 in mode I
  LastBlock,     \* the last block of a frame, 75 in mode I
  MaxBackends,   \* bound on the Backend objects made in a run
  MaxFrames      \* bound on the frames received in a run

ASSUME SizesAssumption == /\ BlocksPerCIF \in Nat \ {0}
                          /\ LastBlock \in Nat /\ LastBlock > 3 /\ (LastBlock - 3) % BlocksPerCIF = 0
                          /\ MaxBackends \in Nat /\ MaxFrames \in Nat

Ids == 1 .. MaxBackends
None == 0

VARIABLES
  theBackends,  \* the vector
  objects,      \* Backend objects made and not deleted
  made,         \* number of Backend objects made
  locker,       \* "free" or "ofdm": held by process_mscBlock
  blkno,        \* the block process_mscBlock handles next, 4 .. LastBlock
  frame,        \* number of the frame that comes in
  cifVector,    \* [block of the CIF] : number of the frame it is from
  iter,         \* position of the loop over theBackends, None outside
  limit,        \* number of elements the loop runs over
  torn,         \* the loop runs over storage the vector has given up
  race,         \* that happened at least once
  used,         \* the object process () was last called on, None outside
  cifCount,     \* number of complete CIFs
  got,          \* [object] : number of the last CIF it was given
  given,        \* [object] : number of times process () was called on it
  scanMode,     \* mScanMode: blocks are not handed to process_mscBlock
  passed        \* a block of the CIF under way was passed over

vars == <<theBackends, objects, made, locker, blkno, frame, cifVector, iter,
          limit, torn, race, used, cifCount, got, given, scanMode, passed>>
guiVars  == <<theBackends, objects, made>>
ofdmVars == <<blkno, frame, cifVector, iter, limit, used, cifCount, got, given, passed>>

Matches(b, s, flag) == b.subChId = s /\ b.borf = flag

-----------------------------------------------------------------------------
(* The GUI thread.                                                         *)

\* set_Channel: a push_back without the lock.  A push_back that needs more
\* room moves the vector, also under a loop of the OFDM thread.
set_Channel(s, flag) ==
  /\ made < MaxBackends
  /\ made' = made + 1
  /\ theBackends' = Append(theBackends, [id |-> made', subChId |-> s, borf |-> flag])
  /\ objects' = objects \cup {made'}
  /\ \E moved \in BOOLEAN :
       /\ torn' = (torn \/ (moved /\ iter # None))
       /\ race' = (race \/ (moved /\ iter # None))
  /\ UNCHANGED <<locker, scanMode, ofdmVars>>

\* stop_service erases while it counts up: the element after an erased one
\* moves to its place and is not looked at.
Erased(bs, s, flag) ==
  LET erased[i \in 0 .. Len(bs)] ==
        IF i = 0 THEN FALSE ELSE Matches(bs[i], s, flag) /\ ~erased[i - 1]
  IN {i \in 1 .. Len(bs) : erased[i]}

\* What is left moves up: the k-th element is the one with k kept up to it.
Without(bs, positions) ==
  LET kept == (1 .. Len(bs)) \ positions
      Rank(i) == Cardinality({j \in kept : j <= i})
  IN [k \in 1 .. Cardinality(kept) |-> bs[CHOOSE i \in kept : Rank(i) = k]]

\* (fault) stop_service does not wait for the lock.
stop_serviceUnlocked(s, flag) ==
  LET gone == Erased(theBackends, s, flag)
  IN /\ objects' = objects \ {theBackends[i].id : i \in gone}
     /\ theBackends' = Without(theBackends, gone)
     /\ UNCHANGED <<made, locker, torn, race, scanMode, ofdmVars>>

stop_service(s, flag) ==
  LET gone == Erased(theBackends, s, flag)
  IN /\ locker = "free"
     /\ objects' = objects \ {theBackends[i].id : i \in gone}
     /\ theBackends' = Without(theBackends, gone)
     /\ UNCHANGED <<made, locker, torn, race, scanMode, ofdmVars>>

\* (fault) reset_Channel deletes the objects and keeps the vector.
reset_ChannelKeeps ==
  /\ locker = "free"
  /\ objects' = {}
  /\ UNCHANGED <<theBackends, made, locker, torn, race, scanMode, ofdmVars>>

reset_Channel ==
  /\ locker = "free"
  /\ objects' = {}
  /\ theBackends' = <<>>
  /\ UNCHANGED <<made, locker, torn, race, scanMode, ofdmVars>>

\* The scan mode is set while the DabProcessor stands still, after it has
\* given up its frame; it is cleared at any time.
set_scanMode(b) ==
  /\ b => iter = None /\ blkno = 4
  /\ scanMode' = b
  /\ UNCHANGED <<guiVars, locker, torn, race, ofdmVars>>

-----------------------------------------------------------------------------
(* The OFDM thread: process_mscBlock.                                      *)

\* (fault) block numbers are taken to start at 3.
PositionFrom3(b) == (b - 3) % BlocksPerCIF

Position(b) == (b - 4) % BlocksPerCIF

\* The frame goes on with the next block, or the next frame comes in.
NextBlock ==
  /\ iter = None /\ frame <= MaxFrames
  /\ blkno' = IF blkno = LastBlock THEN 4 ELSE blkno + 1
  /\ frame' = IF blkno = LastBlock THEN frame + 1 ELSE frame

\* One block is copied; the last block of a CIF starts the loop.
Block ==
  /\ ~scanMode
  /\ NextBlock
  /\ cifVector' = [cifVector EXCEPT ![Position(blkno)] = frame]
  /\ passed' = (passed /\ Position(blkno) # 0)
  /\ IF Position(blkno) = BlocksPerCIF - 1
     THEN /\ locker = "free"
          /\ locker' = "ofdm"
          /\ iter' = 1
          /\ limit' = Len(theBackends)
          /\ cifCount' = cifCount + 1
     ELSE UNCHANGED <<locker, iter, limit, cifCount>>
  /\ UNCHANGED <<guiVars, torn, race, used, got, given, scanMode>>

\* While a scan is on, the block is decoded and not handed over.
PassBlock ==
  /\ scanMode
  /\ NextBlock
  /\ passed' = TRUE
  /\ UNCHANGED <<guiVars, locker, cifVector, iter, limit, torn, race, used, cifCount, got,
                 given, scanMode>>

\* The frame is given up: the sample reader has thrown because the processor
\* stops, and the next block handled is block 4 of a later frame.
LoseFrame ==
  /\ iter = None /\ frame <= MaxFrames
  /\ blkno # 4
  /\ blkno' = 4
  /\ frame' = frame + 1
  /\ UNCHANGED <<guiVars, locker, cifVector, iter, limit, torn, race, used, cifCount, got,
                 given, scanMode, passed>>

\* The body of the loop.  In storage that was given up any pointer can be.
Deliver ==
  /\ iter # None /\ iter <= limit
  /\ \E id \in IF torn THEN Ids ELSE {theBackends[i].id : i \in {iter} \cap DOMAIN theBackends} :
       /\ used' = id
       /\ got' = [got EXCEPT ![id] = cifCount]
       /\ given' = [given EXCEPT ![id] = @ + 1]
  /\ iter' = iter + 1
  /\ UNCHANGED <<guiVars, locker, limit, torn, race, blkno, frame, cifVector, cifCount,
                 scanMode, passed>>

\* (fault) the lock is given back before the loop.
EndLoopEarly ==
  /\ iter # None
  /\ locker' = "free"
  /\ IF iter > limit
     THEN iter' = None /\ torn' = FALSE /\ used' = None
     ELSE UNCHANGED <<iter, torn, used>>
  /\ UNCHANGED <<guiVars, limit, race, blkno, frame, cifVector, cifCount, got, given,
                 scanMode, passed>>

EndLoop ==
  /\ iter # None /\ iter > limit
  /\ iter' = None
  /\ torn' = FALSE
  /\ used' = None
  /\ locker' = "free"
  /\ UNCHANGED <<guiVars, limit, race, blkno, frame, cifVector, cifCount, got, given,
                 scanMode, passed>>

-----------------------------------------------------------------------------
Init ==
  /\ theBackends = <<>> /\ objects = {} /\ made = 0
  /\ locker = "free"
  /\ blkno = 4 /\ frame = 1
  /\ cifVector = [i \in 0 .. BlocksPerCIF - 1 |-> 0]
  /\ iter = None /\ limit = 0 /\ torn = FALSE /\ race = FALSE /\ used = None
  /\ cifCount = 0
  /\ got = [b \in Ids |-> 0] /\ given = [b \in Ids |-> 0]
  /\ scanMode = FALSE /\ passed = FALSE

Ofdm == Block \/ PassBlock \/ LoseFrame \/ Deliver \/ EndLoop
Gui  == \/ \E s \in SubChs, flag \in Flags : set_Channel(s, flag) \/ stop_service(s, flag)
        \/ reset_Channel
        \/ \E b \in BOOLEAN : set_scanMode(b)
Next == Ofdm \/ Gui

Spec == Init /\ [][Next]_vars

-----------------------------------------------------------------------------
(* Properties.                                                             *)

TypeOK ==
  /\ theBackends \in Seq([id: Ids, subChId: SubChs, borf: Flags])
  /\ objects \subseteq Ids /\ made \in 0 .. MaxBackends
  /\ locker \in {"free", "ofdm"}
  /\ blkno \in 4 .. LastBlock
  /\ frame \in 1 .. MaxFrames + 1
  /\ cifVector \in [0 .. BlocksPerCIF - 1 -> 0 .. MaxFrames]
  /\ iter \in 0 .. MaxBackends + 1
  /\ limit \in 0 .. MaxBackends
  /\ torn \in BOOLEAN /\ race \in BOOLEAN
  /\ used \in Ids \cup {None}
  /\ got \in [Ids -> Nat] /\ given \in [Ids -> Nat]
  /\ scanMode \in BOOLEAN /\ passed \in BOOLEAN

\* Apart from the race of set_Channel, process () is never called on a backend
\* that stop_service or reset_Channel has deleted.
NoUseAfterDelete == ~race /\ used # None => used \in objects

\* The vector holds exactly the objects that exist: none is leaked, none is
\* in the vector after its deletion, none is there twice.
VectorIsObjects ==
  /\ {theBackends[i].id : i \in 1 .. Len(theBackends)} = objects
  /\ Len(theBackends) = Cardinality(objects)

\* A CIF that is handed out consists of blocks of one frame, also after a
\* frame was given up half way; the exception is the CIF that the end of a scan
\* has let in half way, whose first blocks were passed over.
CifOfOneFrame ==
  iter # None /\ ~passed => \A i, j \in DOMAIN cifVector : cifVector[i] = cifVector[j]

\* A backend that has had one CIF gets, each time process () is called on it,
\* the one that follows: no CIF is skipped and none is given twice, whatever is
\* opened or closed meanwhile.
CifsInOrder ==
  [][~race' => \A b \in Ids : given'[b] # given[b] => got[b] = 0 \/ got'[b] = got[b] + 1]_vars

\* "this method is called from within the ofdm-processor thread while the
\* set_xxx methods are called from within the gui thread, so some locking is
\* added": the vector does not change its storage under the loop.
NoRace == ~race

=============================================================================
