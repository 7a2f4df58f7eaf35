--------------------------- MODULE MCDataExchange ---------------------------
(* DataExchange for TLC.  The controller runs the commander and the profile *)
(* manager, the spectrometer the data acquisition.  The acquisition owns    *)
(* packages "a1" and "a2", the commander "k1"; the controller receives into *)
(* "c1", the spectrometer into "s1".                                        *)
EXTENDS DataExchangeChannel

MCCtlTask == {"CMC", "PMG"}
MCSpecTask == {"DAQ"}

MCPackages == {"a1", "a2", "c1", "s1"}
MCPackagesBoth == {"a1", "a2", "k1", "c1", "s1"}
OwnerOf(p) == CASE p \in {"a1", "a2"} -> "DAQ" [] p = "c1" -> "DXC"
                [] p = "k1" -> "CMC" [] OTHER -> "DXS"
MCHome == [p \in MCPackages |-> OwnerOf(p)]
MCHomeBoth == [p \in MCPackagesBoth |-> OwnerOf(p)]
\* Frames go to the profile manager.
MCSource == [p \in MCPackages |-> "PMG"]
\* Those of the commander go to the acquisition, and the second package is sent
\* to the data exchange task itself by mistake.
MCSourceBoth ==
  [p \in MCPackagesBoth |->
    CASE p = "k1" -> "DAQ" [] p = "a2" -> "DXC" [] OTHER -> "PMG"]

MCNode == MCCtlTask \cup MCSpecTask \cup {"DXC", "DXS"}
MCQLen == [n \in MCNode |-> 3]
\* As in the code, the queue of the profile manager takes as many packets as
\* there are packages that can be sent to it, and no more.
MCQLenCode == [MCQLen EXCEPT !["PMG"] = 1]

\* A command to the data exchange task, which reports it to the commander.
MCAsks == {<<"CMC", "command", "DXC">>}
\* Some other packet, also to and from the tasks that exchange frames.
MCTalk == {<<"CMC", "command", "PMG">>, <<"PMG", "ping", "DAQ">>,
           <<"DAQ", "command", "PMG">>}
=============================================================================
