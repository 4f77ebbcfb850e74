----------------------------- MODULE PadHandler -----------------------------
(***************************************************************************)
(* padHandler: the programme associated data of the access units of an     *)
(* audio service; dynamic labels and the slides of the slideshow are put   *)
(* together from them.  The handler is a record, each of its functions     *)
(* gives the record after the call.                                        *)
(*                                                                         *)
(* Texts and data groups are cut into units.  What was collected is a Run: *)
(* units upto-size+1..upto of one label or group (records), or a number of *)
(* units of Mixed, that do not belong together.                            *)
(***************************************************************************)
EXTENDS MotObject, Sequences

Mixed == [name |-> "mixed"]
Run(of, from, upto) == [of |-> of, upto |-> upto, size |-> upto - from + 1]
Empty  == Run(Mixed, 1, 0)
Cut(r, n) == [r EXCEPT !.upto = @ - r.size + n, !.size = n]
Joined(r, d) ==
  IF r.size = 0 THEN d
  ELSE IF r.of # Mixed /\ r.of = d.of /\ d.upto - d.size = r.upto
  THEN [d EXCEPT !.size = @ + r.size]
  ELSE [of |-> Mixed, upto |-> 0, size |-> r.size + d.size]
IsRun(r) == r = [of |-> r.of, upto |-> r.upto, size |-> r.size]
IsAllOf(r, x, n) == r.of = x /\ r.upto = n /\ r.size = n

\* The static variables of dynamicLabel, which all handlers share.
Statics0 == [moreXPad |-> FALSE, isLastSegment |-> FALSE, remainDataLength |-> 0]

Nothing == [labels |-> {}, slides |-> {}]
NoSlide == [transportId |-> 0, object |-> NoObject]

\* The constructor.  What was shown in the current call is in out (history).
PadHandler0(statics) ==
  [static |-> statics, dynamicLabelText |-> Empty, currentSlide |-> NoSlide,
   mscGroupElement |-> FALSE, dataGroupLength |-> 0, xpadLength |-> -1,
   msc_dataGroupBuffer |-> Empty, still_to_go |-> 0, shortpadData |-> Empty,
   firstSegment |-> FALSE, lastSegment |-> FALSE, out |-> Nothing]

showLabel(p) == [p EXCEPT !.out.labels = @ \cup {p.dynamicLabelText}]
Lesser(a, b) == IF a < b THEN a ELSE b

-----------------------------------------------------------------------------
(* Short PAD: one field in each access unit.                               *)

\* With contents indicator.  In a continuation (type 3) the bits that are taken
\* for the flags belong to the text.
ShortWithCI(p, f, flags) ==
  LET q == [p EXCEPT !.firstSegment = flags.first, !.lastSegment = flags.last,
                     !.dynamicLabelText = IF flags.first THEN Empty ELSE @]
      n == Lesser(p.still_to_go, f.run.size)
      data == Joined(p.shortpadData, Cut(f.run, n))
  IN CASE f.appType = 2 -> [q EXCEPT !.still_to_go = f.total - 1, !.shortpadData = f.run]
       [] f.appType = 3 /\ (n < p.still_to_go \/ data.size <= 1) ->
            [q EXCEPT !.still_to_go = @ - n, !.shortpadData = data]
       [] f.appType = 3 /\ ~(n < p.still_to_go \/ data.size <= 1) ->
            [q EXCEPT !.still_to_go = 0, !.shortpadData = Empty,
                      !.dynamicLabelText = Joined(@, data)]
       [] OTHER -> q

\* Without: all data.  The end of the last segment shows the label, unless it
\* is the first segment as well.
ShortWithoutCI(p, r) ==
  LET n == Lesser(p.still_to_go, r.size)
      data == IF n = 0 THEN p.shortpadData ELSE Joined(p.shortpadData, Cut(r, n))
      q == [p EXCEPT !.still_to_go = 0, !.shortpadData = Empty,
                     !.dynamicLabelText = Joined(@, data)]
  IN IF n < p.still_to_go \/ data.size = 0
     THEN [p EXCEPT !.still_to_go = @ - n, !.shortpadData = data]
     ELSE IF ~p.firstSegment /\ p.lastSegment
     THEN [showLabel(q) EXCEPT !.dynamicLabelText = Empty]
     ELSE q

-----------------------------------------------------------------------------
(* Variable PAD: dynamic labels.                                           *)

\* (fault) the flag for the last segment is not taken back.
IsLastKept(was, last, more) == was \/ (last /\ more)
IsLast(was, last, more) == last /\ (more \/ was)

LabelStart(p, f) ==
  LET more == f.total > f.run.size
      q == [p EXCEPT !.dynamicLabelText = Joined(IF f.first THEN Empty ELSE @, f.run),
                     !.static = [moreXPad |-> more,
                                 isLastSegment |-> IsLast(@.isLastSegment, f.last, more),
                                 remainDataLength |-> f.total - f.run.size]]
  IN IF f.last /\ ~more THEN showLabel(q) ELSE q

LabelCommand(p) == [p EXCEPT !.dynamicLabelText = Empty]

LabelContinued(p, f) ==
  LET remain == p.static.remainDataLength
      more == remain > f.run.size
      q == [p EXCEPT
             !.dynamicLabelText = Joined(@, Cut(f.run, Lesser(remain, f.run.size))),
             !.static.moreXPad = more,
             !.static.remainDataLength = IF more THEN @ - f.run.size ELSE @]
  IN IF ~more /\ p.static.isLastSegment THEN showLabel(q) ELSE q

dynamicLabel(p, f) ==
  CASE f.appType = 2 /\ f.command  -> LabelCommand(p)
    [] f.appType = 2 /\ ~f.command -> LabelStart(p, f)
    [] f.appType = 3 -> IF p.static.moreXPad THEN LabelContinued(p, f) ELSE p

-----------------------------------------------------------------------------
(* Variable PAD: MSC data groups.                                          *)

\* (fault) a new slide waits for the current one.
SlideHeaderWaits(p, g) ==
  IF p.currentSlide # NoSlide THEN p
  ELSE [p EXCEPT !.currentSlide = [transportId |-> g.transportId, object |-> NewObject]]

\* (fault) the transport id is not compared.
ForCurrentAny(p, g) == p.currentSlide # NoSlide
\* There is a current slide, and it is the one the group belongs to.
ForCurrent(p, g) ==
  p.currentSlide # NoSlide /\ p.currentSlide.transportId = g.transportId

\* Header of a slide: any other slide goes, whether it is complete or not.
SlideHeader(p, g) ==
  IF ForCurrent(p, g) THEN p
  ELSE [p EXCEPT !.currentSlide = [transportId |-> g.transportId, object |-> NewObject]]

SlideBody(p, g) ==
  LET h == p.currentSlide.object
      q == [p EXCEPT !.currentSlide.object = addBodySegment(h, g, TRUE)]
  IN IF ~ForCurrent(p, g) THEN p
     ELSE IF Completes(h, g) THEN [q EXCEPT !.out.slides = @ \cup {q.currentSlide}]
     ELSE q

\* The data group has a CRC, which only a whole one passes.
build_MSC_segment(p, r) ==
  IF r.of = Mixed \/ r.upto # r.size \/ r.upto < r.of.len THEN p
  ELSE CASE r.of.groupType = 3 -> SlideHeader(p, r.of)
         [] r.of.groupType = 4 -> SlideBody(p, r.of)
         [] OTHER -> p

\* A group in a single field leaves what it needs to go on unset.
new_MSC_element(p, r) ==
  IF r.size >= p.dataGroupLength
  THEN [build_MSC_segment(p, r) EXCEPT !.msc_dataGroupBuffer = Empty, !.mscGroupElement = FALSE]
  ELSE [p EXCEPT !.msc_dataGroupBuffer = r, !.mscGroupElement = TRUE]

add_MSC_element(p, r) ==
  LET b == Joined(p.msc_dataGroupBuffer, r)
  IN IF p.msc_dataGroupBuffer.size = 0 THEN p
     ELSE IF b.size < p.dataGroupLength THEN [p EXCEPT !.msc_dataGroupBuffer = b]
     ELSE [build_MSC_segment(p, b) EXCEPT !.msc_dataGroupBuffer = Empty]

-----------------------------------------------------------------------------
(* Variable PAD: up to four fields, or the continuation of the last one.   *)

Content(p, f) ==
  CASE f.appType = 1         -> [p EXCEPT !.dataGroupLength = f.total]
    [] f.appType \in {2, 3}  -> dynamicLabel(p, f)
    [] f.appType = 12        -> new_MSC_element(p, f.run)
    [] f.appType = 13        -> add_MSC_element(p, f.run)

\* A field of a type that is not handled ends the access unit.
Handled(fields, n) ==
  n \in 1..Len(fields) /\ \A i \in 1..n : fields[i].appType \in {1, 2, 3, 12, 13}

\* Round n of the loop over the entries of CI_table.
Field(p, fields, n) == IF Handled(fields, n) THEN Content(p, fields[n]) ELSE p

WithCI(p, au) ==
  LET p0 == IF p.mscGroupElement THEN [p EXCEPT !.xpadLength = au.xlen] ELSE p
      p1 == Field(p0, au.fields, 1)
      p2 == Field(p1, au.fields, 2)
      p3 == Field(p2, au.fields, 3)
  IN Field(p3, au.fields, 4)

\* Without contents indicators the field is taken for one of a data group and
\* cut to the length that was noted last.
WithoutCI(p, au) ==
  IF p.mscGroupElement /\ p.xpadLength \in 1..au.xlen
  THEN add_MSC_element(p, Cut(au.fields[1].run, p.xpadLength))
  ELSE p

\* One access unit; flags are the bits a short continuation has where others
\* have the flags.
processPAD(p, au, flags) ==
  LET q == [p EXCEPT !.out = Nothing]
      f == au.fields[1]
  IN CASE au.kind = "none" -> q
       [] au.kind = "short" /\ au.ci ->
            ShortWithCI(q, f, IF f.appType = 3 THEN flags
                              ELSE [first |-> f.first, last |-> f.last])
       [] au.kind = "short" /\ ~au.ci -> ShortWithoutCI(q, f.run)
       [] au.kind = "variable" /\ au.ci -> WithCI(q, au)
       [] au.kind = "variable" /\ ~au.ci -> WithoutCI(q, au)
=============================================================================
