---------------------------- MODULE MC_InitProcess ----------------------------
(* Command lines of up to three words, joined by single spaces, from a few *)
(* words: "cosix.config" with a device, with a filesystem and a device,    *)
(* other keys, and words that start with "=".  Two block devices.          *)
EXTENDS InitProcess

MCWords == {<<"K", "=", "d">>, <<"K", "=", "e">>, <<"K", "=", "f", "@", "d">>,
            <<"=">>, <<"=", "a">>, <<"a">>}

\* The words of ws joined by " ".
JoinWords(ws) ==
  FoldLeft(LAMBDA acc, w : IF acc = <<>> THEN w ELSE acc \o <<" ">> \o w, <<>>, ws)

MCCmdlines == {JoinWords(ws) : ws \in BoundedSeq(MCWords, 3)}
MCDevices == {<<"d">>, <<"e">>}
=============================================================================
