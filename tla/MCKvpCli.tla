------------------------------ MODULE MCKvpCli ------------------------------
(* Values of KvpCli's constants for TLC. *)
EXTENDS KvpCli

K == <<"k">>
MCReportKey == <<"PROVISIONING_REPORT">>
MCDiagKey == <<"DIAG">>
MCChunks == {<<>>, <<Rec(MCDiagKey, <<"x">>), Rec(MCDiagKey, <<"y">>)>>}
MCLongKey == {<<"long">>}
MCKey == {K, <<"m">>, MCReportKey, <<"long">>, <<>>}
MCValues == {<<"x">>}
MCLines == {<<>>, <<Rec(K, <<"x">>), Rec(<<"m">>, <<>>)>>, <<Rec(K, <<"x">>), NoLine>>,
            <<NoLine, Rec(K, <<"x">>)>>, <<Rec(K, <<"x">>), Rec(<<>>, <<"x">>)>>,
            <<Rec(K, <<"x">>), Rec(K, <<"y">>)>>,
            <<Rec(K, <<>>), Rec(<<"m">>, <<>>), Rec(<<"n">>, <<>>)>>}

(* Every text of up to two letters of these, every value of up to three    *)
(* behind a key, and some longer ones.                                     *)
MCRaws ==
    BoundedSeq({"k", "=", ",", "'"}, 2)
    \cup {<<"k", "=">> \o v : v \in BoundedSeq({"k", ",", "'"}, 3)}
    \cup {<<"k", "=", Quote, ",", "|", Quote>>, <<"k", "=", Quote, "'", ",", Quote, ",", "m", "=", Quote>>,
          <<"k", "=", "'", "k", Quote, "'", ",", ",", "k", "=", "x">>,
          <<"k", "=", "x", Quote, "\n">>, <<"result", "=", "x">>, <<"reason", "=", "x">>,
          <<"k", "=", "NUL">>, <<"k", "=", "x", "=", "'", "'", ",", "=">>}
MCAgents == {<<"a">>}
MCVmIds == {<<>>, <<<<"v">>>>}
MCReasons == {<<"x", "|", Quote>>, <<>>}
MCUrls == {<<>>, <<<<"x", "\r">>>>}
MCDetected == <<>>
MCOptional == {<<>>, <<[key |-> K, value |-> <<"|", "é", "x">>]>>, <<[key |-> K, value |-> <<"é", Quote, "é", "é", "é", "x">>]>>}
Pair(k, v) == [key |-> k, value |-> v]
MCErrors == {[reason |-> [i \in 1..14 |-> "r"], supporting_data |-> {Pair(<<"e">>, <<"x">>)}],
             [reason |-> <<"r">>, supporting_data |-> {Pair(<<"user">>, <<"x">>)}],
             [reason |-> <<"r">>, supporting_data |-> {Pair(<<"e">>, <<"é">>)}],
             [reason |-> <<"r">>, supporting_data |-> {Pair(<<"e">>, <<"é", "\n", "=">>)}],
             [reason |-> <<"r">>, supporting_data |-> {Pair(<<"e">>, <<"x", "x", "x", "x">>)}],
             [reason |-> <<"r">>, supporting_data |-> {Pair(<<"endpoint">>, <<"x">>), Pair(<<"status">>, <<"4">>)}]}
MCLimit == [safe |-> 34, unsafe |-> 60]
Old == encode(failure(<<"a">>, <<"v">>, <<"x">>, <<>>, <<>>))
MCInitialPools == {
    <<>>,
    <<Rec(K, <<"x">>), Rec(<<"m">>, <<"x">>)>>,
    <<Rec(K, <<"x">>), Rec(MCReportKey, Old), Rec(K, <<"y">>), Rec(MCReportKey, <<"x">>)>>}
=============================================================================
