----------------------------- MODULE MCNtripClient -----------------------------
(* Scripts of casters for NtripClient.tla, one per kind of response.         *)
EXTENDS NtripReference

AllSymbols ==
    {"ICY", "SRC", "HTTP200", "HTTP404", "ERROR", "TE", "CTdata", "CTtable", "CThtml", "X",
     "REC", "END", "D0", "D1", "D2", "R1", "P", "d", Semicolon, CR, LF}

RtcmScript(open, symbols, more, policy) ==
    [open |-> open, symbols |-> symbols, more |-> more, policy |-> policy]
Script(open, symbols, more) == RtcmScript(open, symbols, more, "Lenient")
Http == <<"HTTP200", CR, LF>>

HandshakeScripts ==
    { Script(<<>>, {"ICY", "SRC", "HTTP200", "HTTP404", "ERROR", "d", CR, LF}, 4),
      Script(<<"ICY", CR>>, {"d", CR, LF}, 5),
      Script(Http, {"TE", "CTdata", "CThtml", "X", "d", CR, LF}, 4),
      Script(Http \o <<"X", "d", "d", LF>>, {"TE", "d", CR, LF}, 4) }

ChunkedScripts ==
    { Script(Http \o <<"TE", LF, LF>>, {"D0", "D2", "d", CR, LF}, 5),
      Script(Http \o <<"TE", LF, LF, "D2", LF, "d", "d">>, {"D0", "d", CR, LF}, 4),
      Script(Http \o <<"CTdata", Semicolon, LF, "TE", CR, LF, CR, LF, "D1">>,
             {"D0", "D1", Semicolon, "X", LF}, 4) }

TableScripts ==
    { Script(<<"SRC", LF>>, {"X", "REC", "END", "d", CR, LF}, 5),
      Script(Http \o <<"CTtable", LF, LF>>, {"REC", "END", Semicolon, CR, LF}, 5),
      Script(Http \o <<"CTtable", LF, "TE", LF, LF, "D1", LF>>, {"D0", "D2", "REC", "END", LF}, 4),
      Script(Http \o <<"CTtable", LF, "TE", LF, LF, "D2", LF, "REC", LF, LF, "D1", LF>>,
             {"D0", "D1", "END", LF}, 5) }

FrameScripts ==
    { RtcmScript(<<"ICY", LF, LF>>, {"P", "D0", "D1", "d"}, 5, "Lenient"),
      RtcmScript(<<"ICY", LF, LF, "P">>, {"P", "R1", "D2", "d"}, 5, "Strict"),
      RtcmScript(Http \o <<"TE", LF, LF, "D2", LF, "P", "D1", LF, "D1", LF>>,
                 {"P", "d", LF}, 4, "Lenient") }

AllScripts == HandshakeScripts \cup ChunkedScripts \cup TableScripts \cup FrameScripts
=============================================================================
