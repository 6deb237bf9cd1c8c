------------------------------- MODULE MCPod -------------------------------
(* Pod on small sets: every mode, and arguments that are wrong.            *)
EXTENDS Pod

MCLaunches ==
    {<<>>, <<"version">>, <<"selftest", "audio">>, <<"selftest", "garbled">>,
     <<"selftest_stream">>, <<"selftest_stream", "garbled">>, <<"selftest_fa", "audio", "text">>,
     <<"garbled">>, <<"garbled", "version">>, <<"bogus">>}
=============================================================================
