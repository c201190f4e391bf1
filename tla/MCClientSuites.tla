---------------------------- MODULE MCClientSuites ----------------------------
(* Every suite against the C++ server, and one client against the C# one.  *)
EXTENDS ClientSuites

MCStreamSizes == <<1, 2>>
MCParallelSizes == <<1, 2>>
MCClientCounts == <<2>>
MCSizes == {1, 2}

MCChoices == {<<name, "cpp">> : name \in DOMAIN Suites} \cup {<<"streaming", "dotnet">>}
=============================================================================
