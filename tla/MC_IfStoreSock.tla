--------------------------- MODULE MC_IfStoreSock ---------------------------
(* Model values and small request sets for checking IfStoreSock.          *)
EXTENDS IfStoreSock, TLC

CONSTANTS p1, p2, t1, t2, t3

MCProcs1 == {p1}
MCProcs2 == {p1, p2}
MCThreads2 == {t1, t2}
MCThreads3 == {t1, t2, t3}
MCOwner1 == [t \in Threads |-> p1]
MCOwner2 == (t1 :> p1) @@ (t2 :> p2)

Req(c, a, f) == [cmd |-> c, arg |-> a, fits |-> f]

\* Commands that install capabilities, and some that do not, all well formed.
MCReqsGood == {Req("PSEUDOPAIR", "num", TRUE), Req("COPY", "null", TRUE),
               Req("RAWSOCK", "iface", TRUE), Req("MAC", "noiface", TRUE),
               Req("HWTYPE", "empty", TRUE), Req("LIST", "null", TRUE)}
\* Commands that leave no FDs, so the slot bound never stops a sender.
MCReqsNoFds == {Req("LIST", "null", TRUE), Req("MAC", "iface", TRUE)}
\* PSEUDOPAIR whose filetype does not parse.
MCReqsBadType == {Req("PSEUDOPAIR", "junk", TRUE)}
\* An interface command without an argument.
MCReqsNoArg == {Req("MAC", "null", TRUE)}
\* A command, and one longer than the 80-byte buffer.
MCReqsTooLong == {Req("LIST", "null", TRUE), Req("LIST", "null", FALSE)}
MCReqsCopy == {Req("COPY", "null", TRUE)}

MCHowsWr == {{"WR"}}
MCHowsAll == {{"RD"}, {"WR"}, {"RD", "WR"}}
=============================================================================
