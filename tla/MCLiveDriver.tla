----------------------------- MODULE MCLiveDriver -----------------------------
(* What the casters of LiveDriver.tla send.                                   *)
EXTENDS LiveDriver

Icy == <<"ICY", LF, "d", "d">>
NotFound == <<"HTTP404", LF, LF, "d">>
TableOnly == <<"SRC", LF, "END", LF>>
Chunked == <<"HTTP200", LF, "TE", LF, LF, "D1", LF, "d", LF>>
Ended == <<"HTTP200", LF, "TE", LF, LF, "D1", LF, "d", LF, "D0", LF, LF>>
Corrupt == <<"HTTP200", LF, "TE", LF, LF, "d", LF>>

AllSymbols == {"ICY", "HTTP200", "HTTP404", "SRC", "END", "TE", "D0", "D1", "d", LF}
AllResponses == {Icy, NotFound, TableOnly, Corrupt}
EndingResponses == {Ended, Chunked}
=============================================================================
