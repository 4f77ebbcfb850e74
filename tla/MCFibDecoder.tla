---------------------------- MODULE MCFibDecoder ----------------------------
(***************************************************************************)
(* Transmitters for FibDecoder: the FIGs of small ensembles.               *)
(***************************************************************************)
EXTENDS FibDecoder

SubCh(CN, c)          == [type |-> "0/1", CN |-> CN, subChId |-> c]
Change(n)             == [type |-> "0/0", change |-> n]
Audio(CN, s, n, c)    == [CN |-> CN, SId |-> s, compNr |-> n, TMid |-> 0, ref |-> c]
Packet(CN, s, n, p)   == [CN |-> CN, SId |-> s, compNr |-> n, TMid |-> 3, ref |-> p]
Comps(bs)             == [type |-> "0/2", bindings |-> bs]
PacketComp(CN, p, c)  == [type |-> "0/3", CN |-> CN, SCId |-> p, subChId |-> c, DSCTy |-> 1]
Global(CN, s, n, c)   == [type |-> "0/8", CN |-> CN, SId |-> s, SCIds |-> n,
                          form |-> "short", ref |-> c]
GlobalLong(CN, s, n, p) == [type |-> "0/8", CN |-> CN, SId |-> s, SCIds |-> n,
                            form |-> "long", ref |-> p]
EnsembleName          == [type |-> "1/0"]
Name(s, l)            == [type |-> "1/1", SId |-> s, label |-> l]
CompLabel(s, n, l)    == [type |-> "1/4", SId |-> s, SCIds |-> n, label |-> l]
DataName(s, l)        == [type |-> "1/5", SId |-> s, label |-> l]
Support(CN, s, k, fl) == [type |-> "0/18", CN |-> CN, SId |-> s, clusterId |-> k, flags |-> fl]
Switching(CN, k, fl)  == [type |-> "0/19", CN |-> CN, clusterId |-> k, flags |-> fl]

\* An ensemble that keeps its configuration: programme 1 with two audio
\* components on sub-channels 1 and 2, data service 2 on sub-channel 3.
StaticFigs ==
  { SubCh(0, 1), SubCh(0, 2), SubCh(0, 3),
    Comps(<<Audio(0, 1, 0, 1), Audio(0, 1, 1, 2)>>), Comps(<<Packet(0, 2, 0, 7)>>),
    PacketComp(0, 7, 3), Global(0, 1, 1, 2), GlobalLong(0, 2, 0, 7),
    Name(1, "A"), CompLabel(1, 1, "B"), DataName(2, "D") }

\* Programme 1 has a second, packet mode component.
SlideFigs ==
  { SubCh(0, 1), SubCh(0, 2),
    Comps(<<Audio(0, 1, 0, 1), Packet(0, 1, 1, 7)>>),
    GlobalLong(0, 1, 1, 7), PacketComp(0, 7, 2), Name(1, "A") }

\* A reconfiguration: programme 1 leaves, programme 2 stays.
ChangeFigs ==
  { SubCh(0, 1), SubCh(0, 2), SubCh(1, 2),
    Comps(<<Audio(0, 1, 0, 1)>>), Comps(<<Audio(0, 2, 0, 2)>>), Comps(<<Audio(1, 2, 0, 2)>>),
    Name(1, "A"), Name(2, "B"), Change(3), Change(0) }

\* A data service takes the place of a programme.
DataChangeFigs ==
  { SubCh(0, 1), SubCh(0, 3), Comps(<<Audio(0, 1, 0, 1)>>), Comps(<<Packet(0, 2, 0, 7)>>),
    PacketComp(0, 7, 3), Name(1, "A"), DataName(2, "D"), Change(3), Change(0) }

\* Announcements of two clusters.
AnnounceFigs ==
  { SubCh(0, 1), Comps(<<Audio(0, 1, 0, 1)>>), EnsembleName, Name(1, "A"), Name(2, "B"),
    Support(0, 1, 1, {"traffic"}), Support(0, 2, 1, {"traffic"}), Support(0, 2, 2, {"news"}),
    Switching(0, 1, {"traffic"}), Switching(0, 1, {}), Switching(0, 2, {"news"}) }

\* An announcement with a reconfiguration in its midst, which the service that
\* announces survives once its component is bound in the next configuration.
AnnounceChangeFigs ==
  { SubCh(1, 1), Comps(<<Audio(1, 1, 0, 1)>>), EnsembleName, Name(1, "A"),
    Support(0, 1, 1, {"traffic"}), Switching(0, 1, {"traffic"}), Switching(1, 1, {}),
    Change(3), Change(0) }

AllEnsembles    == {StaticFigs, ChangeFigs, AnnounceFigs, AnnounceChangeFigs}
JustStatic      == {StaticFigs}
JustSlide       == {SlideFigs}
JustChange      == {ChangeFigs}
JustDataChange  == {DataChangeFigs}
JustAnnounce    == {AnnounceFigs}
JustAnnounceChange == {AnnounceChangeFigs}

\* The GUI asks nothing while announcements are on the air: queries read
\* neither clusters nor what is on the air.  The channel with a reconfiguration
\* is not left: its end takes everything off the air.  Nor is packet data asked
\* for in an ensemble that has none.
MCNext == /\ Next
          /\ air \in {AnnounceFigs, AnnounceChangeFigs} => gui'.op = "idle"
          /\ air = AnnounceChangeFigs => running'
          /\ air = ChangeFigs => gui'.op # "packet"
MCSpec == Init /\ [][MCNext]_<<vars, air>>

\* Two of the ensembles are what AnnouncedResolvesStatic supposes.
ASSUME InOrder == \A e \in Ensembles \cap {StaticFigs, AnnounceFigs} : Consistent(e)
=============================================================================
