------------------------- MODULE DabProcessor_proofs -------------------------
(***************************************************************************)
(* Proofs about DabProcessor, for every mode, length of a frame and number *)
(* of attempts.                                                            *)
(***************************************************************************)
EXTENDS DabProcessor, TLAPS

\* Index and word number when blocks 2 and 3 of a frame come in.
Aligned ==
  /\ state = "block" /\ blk = 2 => index = UnitsPerBlock % 3 /\ ficno = UnitsPerBlock \div 3
  /\ state = "block" /\ blk = 3
     => index = (2 * UnitsPerBlock) % 3 /\ ficno = (2 * UnitsPerBlock) \div 3
  /\ FicAligned

\* The units before the index are of the frame in hand.
Fresh == state = "block" /\ blk \in 2 .. 3 => \A u \in Units : u < index => ofdm_input[u] = "this"

\* A run of the thread that is past its head asks for no correction only
\* after it was synchronised.
Corrected ==
  state \in {"level", "marker", "eval", "block", "null"} /\ ~mCorrectionNeeded => reached

IInv == /\ TypeOK /\ Aligned /\ Fresh /\ FicWordOfOneFrame
        /\ QuietAfterStop /\ Corrected /\ LostOnlyIfReached

-----------------------------------------------------------------------------
(* The collection of units.                                                *)

\* From an index in the buffer the index stays in the buffer, the number of
\* words is what three units each make.
LEMMA CollectedCounts ==
  ASSUME NEW s \in Units, NEW no \in Nat
  PROVE  LET r == Collected(UnitsPerBlock, s, no)
         IN /\ r.index = (s + UnitsPerBlock) % 3
            /\ r.ficno = no + (s + UnitsPerBlock) \div 3
            /\ r.index \in Units
            /\ r.ficno \in Nat
<1>1. UnitsPerBlock \in {1, 2, 4} /\ s \in 0 .. 2
  BY UnitsAssumption DEF Units
<1>2. (s + UnitsPerBlock) % 3 \in 0 .. 2 /\ (s + UnitsPerBlock) \div 3 \in Nat
  BY <1>1
<1> QED
  BY <1>2 DEF Collected, Units

\* If the units before the index are of the frame in hand, so are those of
\* the decoded words and those before the new index.
LEMMA CollectedFresh ==
  ASSUME NEW s \in Units, NEW no \in Nat,
         ofdm_input \in [Units -> Ages],
         \A u \in Units : u < s => ofdm_input[u] = "this"
  PROVE  LET r == Collected(UnitsPerBlock, s, no)
         IN /\ r.input \in [Units -> Ages]
            /\ r.words \in Seq(Ages)
            /\ \A i \in DOMAIN r.words : r.words[i] = "this"
            /\ \A u \in Units : u < r.index => r.input[u] = "this"
<1> DEFINE n == UnitsPerBlock
           q == (s + n) \div 3
           input == [u \in Units |-> IF \E k \in 0 .. n - 1 : (s + k) % 3 = u
                                     THEN "this" ELSE ofdm_input[u]]
           words == [u \in 1 .. 3 * q |-> IF u > s THEN "this" ELSE ofdm_input[u - 1]]
<1>1. n \in {1, 2, 4} /\ s \in 0 .. 2 /\ q \in Nat
  BY UnitsAssumption DEF Units
<1>2. input \in [Units -> Ages]
  BY DEF Ages
<1>3. \A i \in 1 .. 3 * q : words[i] = "this"
  <2> SUFFICES ASSUME NEW i \in 1 .. 3 * q, ~ (i > s)
               PROVE  ofdm_input[i - 1] = "this"
    OBVIOUS
  <2>1. i - 1 \in Units /\ i - 1 < s
    BY <1>1 DEF Units
  <2> QED
    BY <2>1
<1>4. words \in Seq(Ages)
  <2>1. words \in [1 .. 3 * q -> Ages]
    BY <1>3 DEF Ages
  <2>2. 3 * q \in Nat
    BY <1>1
  <2> QED
    BY <2>1, <2>2
<1>5. ASSUME NEW u \in Units, u < (s + n) % 3
      PROVE  input[u] = "this"
  <2>1. u < s \/ \E k \in 0 .. n - 1 : (s + k) % 3 = u
    <3>1. CASE n = 1
      BY <1>1, <1>5, <3>1 DEF Units
    <3>2. CASE n = 2
      BY <1>1, <1>5, <3>2 DEF Units
    <3>3. CASE n = 4
      BY <1>1, <1>5, <3>3 DEF Units
    <3> QED
      BY <1>1, <3>1, <3>2, <3>3
  <2> QED
    BY <2>1
<1> QED
  BY <1>2, <1>3, <1>4, <1>5 DEF Collected

-----------------------------------------------------------------------------
(* The inductive invariant.                                                *)

\* The state before the first start.
LEMMA InitInv == Init => IInv
<1> SUFFICES ASSUME Init
             PROVE  IInv
  OBVIOUS
<1>1. TypeOK
  BY UnitsAssumption, BlocksAssumption, AttemptsAssumption
     DEF Init, TypeOK, Units, Ages
<1> QED
  BY <1>1 DEF Init, IInv, Aligned, FicAligned, Fresh, FicWordOfOneFrame,
              QuietAfterStop, Corrected, LostOnlyIfReached

\* process_ficBlock, the one step that changes what is collected.
LEMMA FicBlockInv ==
  ASSUME IInv, process_ficBlock
  PROVE  IInv'
<1> DEFINE s  == IF blk = 1 THEN 0 ELSE index
           no == IF blk = 1 THEN 0 ELSE ficno
           r  == Collected(UnitsPerBlock, s, no)
<1>0. UnitsPerBlock \in {1, 2, 4} /\ NrBlocks \in Nat /\ NrBlocks > 4
  BY UnitsAssumption, BlocksAssumption
<1>1. FicBlock(r, no)
  BY DEF process_ficBlock
<1>2. /\ state = "block" /\ state' = "block" /\ blk \in 1 .. 3 /\ blk' = blk + 1
      /\ index' = r.index /\ ficno' = r.ficno
      /\ ofdm_input' = r.input /\ ficWords' = r.words
  BY <1>1 DEF FicBlock
<1>3. s \in Units /\ no \in Nat /\ ofdm_input \in [Units -> Ages]
  BY <1>2 DEF IInv, TypeOK, Units
<1>4. \A u \in Units : u < s => ofdm_input[u] = "this"
  BY <1>2 DEF IInv, Fresh, Units
<1>5. index' = (s + UnitsPerBlock) % 3 /\ ficno' = no + (s + UnitsPerBlock) \div 3
  BY <1>2, <1>3, CollectedCounts
<1>6. /\ s = IF blk = 1 THEN 0 ELSE IF blk = 2 THEN UnitsPerBlock % 3 ELSE (2 * UnitsPerBlock) % 3
      /\ no = IF blk = 1 THEN 0 ELSE IF blk = 2 THEN UnitsPerBlock \div 3 ELSE (2 * UnitsPerBlock) \div 3
  BY <1>2 DEF IInv, Aligned
<1> HIDE DEF s, no, r
<1>7. Aligned' /\ ficno' \in 0 .. 4
  <2>1. CASE blk = 1
    BY <1>0, <1>2, <1>5, <1>6, <2>1 DEF Aligned, FicAligned
  <2>2. CASE blk = 2
    BY <1>0, <1>2, <1>5, <1>6, <2>2 DEF Aligned, FicAligned
  <2>3. CASE blk = 3
    BY <1>0, <1>2, <1>5, <1>6, <2>3 DEF Aligned, FicAligned
  <2> QED
    BY <1>2, <2>1, <2>2, <2>3
<1>8. /\ ofdm_input' \in [Units -> Ages] /\ ficWords' \in Seq(Ages)
      /\ FicWordOfOneFrame' /\ Fresh'
  BY <1>2, <1>3, <1>4, CollectedFresh DEF r, FicWordOfOneFrame, Fresh
<1>9. TypeOK'
  <2>1. index' \in Units
    BY <1>2, <1>3, CollectedCounts DEF r
  <2>2. synced' \in BOOLEAN
    BY <1>1 DEF FicBlock, Heard, IInv, TypeOK
  <2> QED
    BY <1>0, <1>1, <1>2, <1>7, <1>8, <2>1, <2>2
       DEF FicBlock, IInv, TypeOK, guiVars, mscVars, syncVars
<1>10. QuietAfterStop' /\ Corrected' /\ LostOnlyIfReached'
  BY <1>1, <1>2 DEF FicBlock, IInv, QuietAfterStop, Corrected, LostOnlyIfReached,
                    guiVars, syncVars
<1> QED
  BY <1>7, <1>8, <1>9, <1>10 DEF IInv

\* What the other handlers of the thread change of what the invariant is about.
LEMMA QuietStep ==
  ASSUME IInv,
         run \/ Leave \/ Level \/ MarkerFound \/ NoDip \/ NoEndOfDip \/ EvalFailed
  PROVE  IInv'
<1>0. Attempts \in Nat \ {0} /\ Attempts - 1 \in Nat
  BY AttemptsAssumption
<1>1. UNCHANGED <<guiVars, blk, ficVars, mscVars, synced, reached>> /\ state' # "block" /\ state' # "null"
  BY DEF run, Leave, Level, MarkerFound, NoDip, NoEndOfDip, EvalFailed
<1>2. TypeOK'
  <2>1. /\ state' \in {"off", "level", "marker", "eval"}
        /\ reading' \in BOOLEAN /\ mCorrectionNeeded' \in BOOLEAN
        /\ signal' \in {"none", "noSignal", "syncLost"}
    BY DEF run, Leave, Level, MarkerFound, NoDip, NoEndOfDip, EvalFailed, IInv, TypeOK, syncVars
  <2>2. mTimeSyncAttemptCount' \in 0 .. Attempts - 1 /\ failed' \in 0 .. Attempts
    BY <1>0 DEF run, Leave, Level, MarkerFound, NoDip, NoEndOfDip, EvalFailed, IInv, TypeOK, syncVars
  <2> QED
    BY <1>1, <2>1, <2>2 DEF IInv, TypeOK, guiVars, ficVars, mscVars
<1>3. Aligned' /\ Fresh' /\ FicWordOfOneFrame'
  BY <1>1 DEF IInv, Aligned, FicAligned, Fresh, FicWordOfOneFrame, ficVars
<1>4. QuietAfterStop' /\ Corrected' /\ LostOnlyIfReached'
  BY <1>1 DEF run, Leave, Level, MarkerFound, NoDip, NoEndOfDip, EvalFailed, IInv,
              QuietAfterStop, Corrected, LostOnlyIfReached, guiVars, syncVars
<1> QED
  BY <1>2, <1>3, <1>4 DEF IInv

\* The begin of a frame and its blocks other than those of the FIC.
LEMMA FrameStep ==
  ASSUME IInv,
         EvalFound \/ Block0 \/ process_mscBlock \/ Null
  PROVE  IInv'
<1>0. NrBlocks \in Nat /\ NrBlocks > 4 /\ BlocksPerCIF \in Nat \ {0} /\ Attempts \in Nat \ {0}
  BY BlocksAssumption, AttemptsAssumption
<1>1. CASE EvalFound
  <2>1. TypeOK'
    BY <1>0, <1>1 DEF EvalFound, IInv, TypeOK, Old, Ages, guiVars
  <2> QED
    BY <1>1, <2>1 DEF EvalFound, IInv, Aligned, FicAligned, Fresh, FicWordOfOneFrame,
                      QuietAfterStop, Corrected, LostOnlyIfReached, guiVars
<1>2. CASE Block0
  <2>1. TypeOK'
    BY <1>0, <1>2 DEF Block0, IInv, TypeOK, guiVars, ficVars, mscVars
  <2>2. Aligned' /\ Fresh' /\ FicWordOfOneFrame'
    BY <1>2 DEF Block0, IInv, Aligned, FicAligned, Fresh, FicWordOfOneFrame, ficVars
  <2>3. QuietAfterStop' /\ LostOnlyIfReached'
    BY <1>2 DEF Block0, IInv, QuietAfterStop, LostOnlyIfReached, guiVars
  <2>4. Corrected'
    BY <1>2, Zenon DEF Block0, Corrected
  <2> QED
    BY <2>1, <2>2, <2>3, <2>4 DEF IInv
<1>3. CASE process_mscBlock
  <2>1. cifVector' \in [0 .. BlocksPerCIF - 1 -> Ages] /\ cif' \in Seq(Ages)
    <3>1. CASE scanMode
      BY <1>3, <3>1 DEF process_mscBlock, IInv, TypeOK, mscVars
    <3>2. CASE ~scanMode
      <4>1. cifVector' \in [0 .. BlocksPerCIF - 1 -> Ages]
        BY <1>3, <3>2 DEF process_mscBlock, IInv, TypeOK, Ages
      <4>2. [i \in 1 .. BlocksPerCIF |-> cifVector'[i - 1]] \in [1 .. BlocksPerCIF -> Ages]
        BY <1>0, <4>1
      <4>3. [i \in 1 .. BlocksPerCIF |-> cifVector'[i - 1]] \in Seq(Ages)
        BY <1>0, <4>2
      <4> QED
        BY <1>3, <3>2, <4>1, <4>3 DEF process_mscBlock, IInv, TypeOK
    <3> QED
      BY <3>1, <3>2
  <2>2. blk' \in 0 .. NrBlocks - 1 /\ state' \in {"block", "null"} /\ (state' = "block" => blk' > 4)
    BY <1>0, <1>3 DEF process_mscBlock, IInv, TypeOK
  <2>3. TypeOK'
    BY <1>3, <2>1, <2>2 DEF process_mscBlock, IInv, TypeOK, guiVars, ficVars, syncVars
  <2>4. Aligned' /\ Fresh' /\ FicWordOfOneFrame'
    BY <1>0, <1>3, <2>2 DEF process_mscBlock, IInv, TypeOK, Aligned, FicAligned, Fresh,
                      FicWordOfOneFrame, ficVars
  <2>5. QuietAfterStop' /\ Corrected' /\ LostOnlyIfReached'
    BY <1>3, <2>2 DEF process_mscBlock, IInv, QuietAfterStop, Corrected, LostOnlyIfReached,
                      guiVars, syncVars
  <2> QED
    BY <2>3, <2>4, <2>5 DEF IInv
<1>4. CASE Null
  BY <1>4 DEF Null, IInv, TypeOK, Aligned, FicAligned, Fresh, FicWordOfOneFrame,
              QuietAfterStop, Corrected, LostOnlyIfReached, guiVars, ficVars, mscVars, syncVars
<1> QED
  BY <1>1, <1>2, <1>3, <1>4

\* The calls of the GUI thread.
LEMMA GuiStep ==
  ASSUME IInv, Gui
  PROVE  IInv'
<1>0. Attempts \in Nat \ {0}
  BY AttemptsAssumption
<1>1. CASE start
  <2>1. TypeOK'
    <3>1. CASE state = "off"
      <4>1. /\ UNCHANGED <<gui, reading, scanMode, blk, ficVars, mscVars, mCorrectionNeeded,
                            mTimeSyncAttemptCount>>
            /\ state' = "begin" /\ failed' = 0 /\ reached' = FALSE
            /\ open' = TRUE /\ ficRunning' = TRUE /\ synced' = FALSE /\ signal' = "none"
        BY <1>1, <3>1, Zenon DEF start
      <4>2. failed' \in 0 .. Attempts
        BY <1>0, <4>1
      <4> QED
        BY <4>1, <4>2 DEF IInv, TypeOK, ficVars, mscVars
    <3>2. CASE state # "off"
      <4>1. UNCHANGED <<gui, reading, scanMode, state, blk, ficVars, mscVars, reached, syncVars>>
        BY <1>1, <3>2, Zenon DEF start, syncVars
      <4>2. open' \in BOOLEAN /\ ficRunning' \in BOOLEAN /\ synced' \in BOOLEAN
            /\ signal' \in {"none", "noSignal", "syncLost"}
        BY <1>1 DEF start
      <4> QED
        BY <4>1, <4>2 DEF IInv, TypeOK, ficVars, mscVars, syncVars
    <3> QED
      BY <3>1, <3>2
  <2> QED
    BY <1>1, <2>1 DEF start, IInv, Aligned, FicAligned, Fresh, FicWordOfOneFrame,
                      QuietAfterStop, Corrected, LostOnlyIfReached, ficVars
<1>2. CASE Stop
  <2>1. TypeOK'
    BY <1>2 DEF Stop, IInv, TypeOK, ficVars, mscVars, syncVars
  <2> QED
    BY <1>2, <2>1 DEF Stop, IInv, Aligned, FicAligned, Fresh, FicWordOfOneFrame,
                      QuietAfterStop, Corrected, LostOnlyIfReached, ficVars, syncVars
<1>3. CASE Stopped
  BY <1>3 DEF Stopped, IInv, TypeOK, Aligned, FicAligned, Fresh, FicWordOfOneFrame,
              QuietAfterStop, Corrected, LostOnlyIfReached, ficVars, mscVars, syncVars
<1>4. CASE \E b \in BOOLEAN : set_scanMode(b)
  BY <1>4 DEF set_scanMode, IInv, TypeOK, Aligned, FicAligned, Fresh, FicWordOfOneFrame,
              QuietAfterStop, Corrected, LostOnlyIfReached, ficVars, mscVars, syncVars
<1> QED
  BY <1>1, <1>2, <1>3, <1>4 DEF Gui

\* Every step preserves the invariant.
LEMMA NextInv == IInv /\ [Next]_vars => IInv'
<1> SUFFICES ASSUME IInv, [Next]_vars
             PROVE  IInv'
  OBVIOUS
<1>1. CASE Thread
  BY <1>1, QuietStep, FrameStep, FicBlockInv DEF Thread
<1>2. CASE Gui
  BY <1>2, GuiStep
<1>3. CASE UNCHANGED vars
  BY <1>3 DEF vars, IInv, TypeOK, Aligned, FicAligned, Fresh, FicWordOfOneFrame,
              QuietAfterStop, Corrected, LostOnlyIfReached, guiVars, ficVars, mscVars, syncVars
<1> QED
  BY <1>1, <1>2, <1>3 DEF Next

\* The inductive invariant holds in every behaviour.
THEOREM Invariance == Spec => []IInv
  BY InitInv, NextInv, PTL DEF Spec

\* The variables keep their types; above all ficno stays within the four
\* words of fibBits in each mode.
THEOREM TypeCorrect == Spec => []TypeOK
<1>1. IInv => TypeOK
  BY DEF IInv
<1> QED
  BY <1>1, Invariance, PTL

\* After the FIC blocks of a frame the index is 0 and every word of the frame
\* has been handed out, in each mode and wherever the last frame was left.
THEOREM FicIsAligned == Spec => []FicAligned
<1>1. IInv => FicAligned
  BY DEF IInv, Aligned
<1> QED
  BY <1>1, Invariance, PTL

\* No FIC word is composed of soft bits of two frames.
THEOREM WordsAreWhole == Spec => []FicWordOfOneFrame
<1>1. IInv => FicWordOfOneFrame
  BY DEF IInv
<1> QED
  BY <1>1, Invariance, PTL

\* When stop () has returned the thread is off and the ensemble forgotten.
THEOREM StopIsQuiet == Spec => []QuietAfterStop
<1>1. IInv => QuietAfterStop
  BY DEF IInv
<1> QED
  BY <1>1, Invariance, PTL

\* Synchronisation is reported as lost only where it was reached.
THEOREM LostWasReached == Spec => []LostOnlyIfReached
<1>1. IInv => LostOnlyIfReached
  BY DEF IInv
<1> QED
  BY <1>1, Invariance, PTL
=============================================================================
