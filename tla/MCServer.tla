------------------------------ MODULE MCServer ------------------------------
EXTENDS Server, TLC
Switches == [op : {"activate", "deactivate"}, channels : {{ch} : ch \in Channels}]
SwitchesAndConsole == Switches \cup {Command("console", {})}
AllButSwitches == CommandSet \ Switches
BusySome == {0, 1}
BusyFive == 0 .. 4
SymmetricClients == Permutations(Clients)
=============================================================================
