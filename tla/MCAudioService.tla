--------------------------- MODULE MCAudioService ---------------------------
(***************************************************************************)
(* Programmes for AudioService.                                            *)
(***************************************************************************)
EXTENDS AudioService

\* Units of a label: the start of a segment (its flags, the units of it) and a
\* continuation.
Start(l, u, first, last, total) ==
  [appType |-> 2, run |-> Run(l, u, u), command |-> FALSE,
   first |-> first, last |-> last, total |-> total]
Cont(l, u)   == [appType |-> 3, run |-> Run(l, u, u)]
Command(l)   == [Start(l, 1, TRUE, TRUE, 1) EXCEPT !.command = TRUE]

\* Data groups of slides: the length, the start and a continuation.
Group(type, t, i, last, len) ==
  [groupType |-> type, service |-> "audio", transportId |-> t,
   segmentNumber |-> i, last |-> last, len |-> len]
Begin(g)      == << [appType |-> 1, total |-> g.len], [appType |-> 12, run |-> Run(g, 1, 1)] >>
Further(g, u) == [appType |-> 13, run |-> Run(g, u, u)]
OtherType     == [appType |-> 5]

CI(kind, fields)  == [kind |-> kind, ci |-> TRUE, xlen |-> 2, fields |-> fields]
NoCI(kind, run)   == [kind |-> kind, ci |-> FALSE, xlen |-> 2, fields |-> << [run |-> run] >>]
NoPad             == [kind |-> "none", fields |-> <<0>>]

L1 == [name |-> "L1", units |-> 5]
L2 == [name |-> "L2", units |-> 1]
M2 == [name |-> "L2", units |-> 2]
H1  == Group(3, 1, 0, TRUE, 1)
B10 == Group(4, 1, 0, FALSE, 3)
B11 == Group(4, 1, 1, TRUE, 2)
H2  == Group(3, 2, 0, TRUE, 1)
B20 == Group(4, 2, 0, TRUE, 1)

\* A label of two segments, one of a single unit and a command; a slide of two
\* segments, one of which goes on without contents indicators, and another.
Variable ==
  [aus |-> << CI("variable", <<Start(L1, 1, TRUE, FALSE, 3)>> \o Begin(H1)),
              CI("variable", <<Cont(L1, 2)>> \o Begin(B10)),
              NoCI("variable", Run(B10, 2, 3)),
              CI("variable", <<Cont(L1, 3), Start(L1, 4, FALSE, TRUE, 2)>> \o Begin(B11)),
              CI("variable", <<Cont(L1, 5), Further(B11, 2)>>),
              CI("variable", <<Command(L2)>> \o Begin(H2)),
              CI("variable", <<Start(L2, 1, TRUE, TRUE, 1)>> \o Begin(B20)),
              CI("variable", <<OtherType, Cont(L2, 2)>>) >>,
   span    |-> 5,
   labels  |-> {L1, L2},
   awaited |-> {L1, L2},
   groups  |-> {H1, B10, B11, H2, B20},
   slides  |-> {1, 2}]

\* The same label in short PADs, and one of a single segment, which goes on with
\* a contents indicator and is not shown.
Short ==
  [aus |-> << CI("short", <<Start(L1, 1, TRUE, FALSE, 2)>>), NoCI("short", Run(L1, 2, 2)),
              CI("short", <<Start(L1, 3, FALSE, TRUE, 3)>>), NoCI("short", Run(L1, 4, 4)),
              NoCI("short", Run(L1, 5, 5)), NoPad,
              CI("short", <<Start(M2, 1, TRUE, TRUE, 2)>>), CI("short", <<Cont(M2, 2)>>) >>,
   span    |-> 5,
   labels  |-> {L1, M2},
   awaited |-> {L1},
   groups  |-> {},
   slides  |-> {}]

Both == {Variable, Short}

\* What the code does not do: the label of a single segment in short PADs, and
\* a data group that goes on without contents indicators in fields of a size
\* that no earlier field of a data group had.
ShortAll == {[Short EXCEPT !.awaited = @ \cup {M2}]}
Uneven   == {[Variable EXCEPT !.aus = [i \in DOMAIN @ |->
                IF i \in {2, 3} THEN @[i] ELSE [@[i] EXCEPT !.xlen = 1]]]}

\* What of a label was sent after each access unit.
Coded == [p \in Programmes |->
           LET after[i \in 0..Len(p.aus)] ==
                 IF i = 0 THEN NoneSent ELSE AfterUnit(after[i - 1], p.aus[i])
           IN after]

\* The programmes fulfil what SlideIsWhole and LabelWhole suppose of them.
ASSUME SlidesAreWellFormed == SlidesWellFormed
ASSUME LabelsAreCoded == LabelsCoded(Coded)
=============================================================================
