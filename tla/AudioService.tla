---------------------------- MODULE AudioService ----------------------------
(***************************************************************************)
(* A DAB+ service as it is received: Mp4Processor and PadHandler below a   *)
(* transmitter that sends its programme of access units for ever, in       *)
(* superframes of five frames.  Frames are lost or damaged, access units   *)
(* fail their CRC, and the service is selected anew.                       *)
(***************************************************************************)
EXTENDS Mp4Processor, PadHandler

CONSTANTS
  Programmes,   \* what may be sent: records with the access units (aus),
                \* the labels and groups in them, and what is awaited of them
  MaxFaults     \* bound on what goes wrong

\* The fields of an access unit carry runs, those of data groups (types 12 and
\* 13) of groups of the programme p.
IsAccessUnit(p, au) ==
  /\ au.kind \in {"none", "short", "variable"}
  /\ au.kind = "variable" =>
       /\ Len(au.fields) \in Nat
       /\ IF au.ci
          THEN \A n \in 1..Len(au.fields) :
                 au.fields[n].appType \in {12, 13} =>
                   IsRun(au.fields[n].run) /\ au.fields[n].run.of \in p.groups
          ELSE IsRun(au.fields[1].run)

ASSUME ProgrammeAssumption ==
  \A p \in Programmes :
    /\ Len(p.aus) \in Nat \ {0} /\ Len(p.aus) % NumAus = 0
    /\ \A i \in 1..Len(p.aus) : IsAccessUnit(p, p.aus[i])
    /\ \A g \in p.groups : g.segmentNumber \in SegmentNumbers /\ g.last \in BOOLEAN
ASSUME FaultsAssumption == MaxFaults \in Nat

VARIABLES
  programme,    \* the one that is sent
  sender,       \* superframe and position of the next frame
  linked,       \* the frame before it was received
  pad,          \* the PAD handler
  lastUnit,     \* the access unit it was given last, 0: none (history)
  inRow,        \* access units it was given without a gap (history)
  faults        \* what went wrong so far

senderVars == <<programme, sender, linked>>
audioVars == <<mp4Vars, senderVars, pad, lastUnit, inRow, faults>>

NSuperframes == Len(programme.aus) \div NumAus
Flags == [first: BOOLEAN, last: BOOLEAN]

AudioInit ==
  /\ mp4Init
  /\ programme \in Programmes
  /\ sender \in [superframe: {1}, pos: 0..4]
  /\ linked = FALSE
  /\ pad = PadHandler0(Statics0)
  /\ lastUnit = 0 /\ inRow = 0 /\ faults = 0

NextFrame ==
  sender' = [superframe |-> IF sender.pos < 4 THEN sender.superframe
                            ELSE (sender.superframe % NSuperframes) + 1,
             pos |-> (sender.pos + 1) % 5]

Fault == faults < MaxFaults /\ faults' = faults + 1

Frame(damage, n) ==
  /\ addtoFrame([superframe |-> sender.superframe, pos |-> sender.pos,
                 linked |-> linked, damage |-> damage], n)
  /\ NextFrame
  /\ linked' = TRUE
  /\ pad' = [pad EXCEPT !.out = Nothing]
  /\ UNCHANGED <<programme, lastUnit, inRow>>

FrameReceived == Frame("none", NumAus) /\ UNCHANGED faults

\* Bit errors: too many, in the head, or miscorrected.
FrameDamaged ==
  /\ Fault
  /\ \/ Frame("bad", NumAus)
     \/ sender.pos = 0 /\ Frame("head", NumAus)
     \/ \E n \in 0..(NumAus - 1) : Frame("none", n)

FrameLost ==
  /\ Fault
  /\ theUnits = <<>>
  /\ NextFrame
  /\ linked' = FALSE
  /\ UNCHANGED <<mp4Vars, programme, pad, lastUnit, inRow>>

\* An access unit whose CRC is right.
Unit ==
  /\ NextUnit
  /\ \E flags \in Flags : pad' = processPAD(pad, programme.aus[Head(theUnits)], flags)
  /\ lastUnit' = Head(theUnits)
  /\ inRow' = IF Head(theUnits) = (lastUnit % Len(programme.aus)) + 1
              THEN Lesser(inRow + 1, programme.span) ELSE 1
  /\ UNCHANGED <<senderVars, faults>>

DamagedUnit ==
  /\ Fault
  /\ NextUnit
  /\ pad' = [pad EXCEPT !.out = Nothing]
  /\ UNCHANGED <<senderVars, lastUnit, inRow>>

\* The service is left and selected again: everything is new, except for the
\* static variables.
Reselect ==
  /\ Fault
  /\ newMp4Processor
  /\ pad' = PadHandler0(pad.static)
  /\ lastUnit' = 0 /\ inRow' = 0
  /\ UNCHANGED senderVars

AudioNext == FrameReceived \/ FrameDamaged \/ FrameLost \/ Unit \/ DamagedUnit \/ Reselect

\* The transmitter does not stop and the thread of the backend runs.
AudioSpec == /\ AudioInit /\ [][AudioNext]_audioVars
             /\ WF_audioVars(FrameReceived) /\ WF_audioVars(Unit)

-----------------------------------------------------------------------------
(* What SlideIsWhole supposes of the programmes.                           *)

\* The segment marked as the last of a slide has the greatest number.
SlidesWellFormed ==
  \A p \in Programmes : \A g, h \in p.groups :
    /\ g.groupType = 4 /\ h.groupType = 4 /\ g.transportId = h.transportId /\ g.last
    => h.segmentNumber <= g.segmentNumber

-----------------------------------------------------------------------------
(* What LabelWhole supposes: the programmes code their labels in order.    *)

\* How much of a label was sent: no label, or up to a unit of it, the access
\* units since it began, and in a segment of variable or short PADs the units of
\* it that were taken and remain.
NoneSent == [phase |-> "none"]
LabelSent(p) == {NoneSent} \cup
  {s \in [phase: {"between", "variable", "short"}, label: p.labels, upto: Nat, taken: Nat,
          remain: Nat, first: BOOLEAN, last: BOOLEAN, age: Nat \ {0}] :
     IF s.phase = "between" THEN s.taken = 0 /\ s.upto > 0
     ELSE /\ s.taken > 0 /\ s.remain > 0 /\ (s.first <=> s.upto = 0)
          /\ s.last => s.upto + s.taken + s.remain = s.label.units}

Settled(s) ==
  IF s.remain > 0 THEN s
  ELSE IF s.last THEN NoneSent
  ELSE [s EXCEPT !.phase = "between", !.upto = @ + s.taken, !.taken = 0]
SegmentBegun(s, f, phase) ==
  Settled([phase |-> phase, label |-> f.run.of, upto |-> IF f.first THEN 0 ELSE s.upto,
           taken |-> f.run.size, remain |-> f.total - f.run.size,
           first |-> f.first, last |-> f.last, age |-> IF f.first THEN 1 ELSE s.age])
SegmentContinued(s, r) ==
  LET n == Lesser(s.remain, r.size)
  IN Settled([s EXCEPT !.taken = @ + n, !.remain = @ - n])

\* A segment begins where the one before ended, the last one ends the label.
MayBegin(p, s, f) ==
  LET r == f.run
      upto == IF f.first THEN 0 ELSE s.upto
  IN /\ f.first \in BOOLEAN /\ f.last \in BOOLEAN /\ f.total \in Nat
     /\ r.of \in p.labels /\ r.size \in 1..f.total /\ r = Run(r.of, upto + 1, upto + r.size)
     /\ ~f.first => s.phase = "between" /\ s.label = r.of /\ s.age <= p.span
     /\ f.last => upto + f.total = r.of.units
MayContinue(p, s, r, phase) ==
  /\ s.phase = phase /\ s.age <= p.span
  /\ r.size \in Nat \ {0}
  /\ r = Run(s.label, s.upto + s.taken + 1, s.upto + s.taken + r.size)

\* The fields of a variable PAD; what is sent after each of them.
AfterField(s, fields, n) ==
  LET f == fields[n]
  IN IF ~(Handled(fields, n) /\ f.appType \in {2, 3}) THEN s
     ELSE IF f.appType = 3 THEN SegmentContinued(s, f.run)
     ELSE IF f.command THEN NoneSent ELSE SegmentBegun(s, f, "variable")
AfterFields(s, fields) ==
  LET s1 == AfterField(s, fields, 1)
      s2 == AfterField(s1, fields, 2)
      s3 == AfterField(s2, fields, 3)
  IN <<s, s1, s2, s3, AfterField(s3, fields, 4)>>
MaySend(p, s, fields, n) ==
  LET f == fields[n]
  IN Handled(fields, n) =>
       /\ f.appType = 2 => f.command \in BOOLEAN /\ (~f.command => MayBegin(p, s, f))
       /\ f.appType = 3 => MayContinue(p, s, f.run, "variable")

\* An access unit; s is what was sent before it.
Aged(s) == IF s = NoneSent THEN s ELSE [s EXCEPT !.age = @ + 1]
AfterUnit(s, au) ==
  LET a == Aged(s)
      f == au.fields[1]
  IN CASE au.kind = "none" -> a
       [] au.kind = "short" /\ au.ci ->
            IF f.appType = 2 THEN SegmentBegun(a, f, "short") ELSE NoneSent
       [] au.kind = "short" /\ ~au.ci -> SegmentContinued(a, f.run)
       [] au.kind = "variable" /\ au.ci -> AfterFields(a, au.fields)[5]
       [] au.kind = "variable" /\ ~au.ci -> a
MayFollow(p, s, au) ==
  LET a == Aged(s)
      f == au.fields[1]
  IN CASE au.kind = "none" -> TRUE
       [] au.kind = "short" /\ au.ci ->
            f.appType = 2 => MayBegin(p, a, f) /\ f.run.size = 1 /\ f.total > 1
       [] au.kind = "short" /\ ~au.ci -> MayContinue(p, a, f.run, "short")
       [] au.kind = "variable" /\ au.ci ->
            \A n \in 1..4 : MaySend(p, AfterFields(a, au.fields)[n], au.fields, n)
       [] au.kind = "variable" /\ ~au.ci -> TRUE

\* sent[p][i] is what was sent of a label after access unit i of programme p,
\* which neither begins nor ends within a label.
LabelsCoded(sent) ==
  \A p \in Programmes :
    /\ p.span \in Nat \ {0} /\ Mixed \notin p.labels
    /\ sent[p][0] = NoneSent /\ sent[p][Len(p.aus)] = NoneSent
    /\ \A i \in 1..Len(p.aus) :
         /\ sent[p][i] \in LabelSent(p)
         /\ MayFollow(p, sent[p][i - 1], p.aus[i])
         /\ sent[p][i] = AfterUnit(sent[p][i - 1], p.aus[i])

-----------------------------------------------------------------------------
(* Properties.                                                             *)

\* The last five frames are a superframe that can be decoded.
IsSuperframe(bytes, base) == FireCode(bytes, base) /\ ReedSolomon(bytes, base)

\* "we take the last five blocks to look at" (mp4Processor::addtoFrame): after
\* whatever was lost, the first five frames in a row that make a superframe are
\* taken for one, if its table is in order: the search does not pass over it.
NoneMissed ==
  [][/\ blockFillIndex' # blockFillIndex
     /\ IsSuperframe(frameBytes', blockFillIndex')
     /\ faults' = faults
     => theUnits' # <<>>]_audioVars

\* A label that is shown (padHandler::dynamicLabel, handle_shortPAD) is one of
\* the labels sent, from its first to its last unit, if no access unit was lost
\* while it was sent.
LabelWhole ==
  inRow >= programme.span =>
    \A t \in pad.out.labels : \E l \in programme.labels : IsAllOf(t, l, l.units)

\* "starting with CI = 2, continuing with CI = 3" (dynamicLabel): what is shown
\* begins with the first unit of a label.
LabelBegun == \A t \in pad.out.labels : t.of # Mixed /\ t.upto = t.size

\* The segments of slide t.
SegmentsOf(t) == {g \in programme.groups : g.groupType = 4 /\ g.transportId = t}

\* A slide that is shown has the segments sent for it, all of them and no other.
SlideIsWhole ==
  \A h \in pad.out.slides : \A i \in SegmentNumbers :
    Has(h.object, i) <=> \E g \in SegmentsOf(h.transportId) : g.segmentNumber = i

\* Every label and every slide of the programme is shown again and again, what-
\* ever a fault left behind in the window, the buffers and the static variables.
EventuallyShown ==
  \A p \in Programmes : programme = p =>
    /\ \A l \in p.awaited : []<>(\E t \in pad.out.labels : IsAllOf(t, l, l.units))
    /\ \A s \in p.slides : []<>(\E h \in pad.out.slides : h.transportId = s)
=============================================================================
