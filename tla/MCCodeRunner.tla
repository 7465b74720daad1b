---------------------------- MODULE MCCodeRunner ----------------------------
EXTENDS CodeRunner

MCCandidates == <<"main", "dev">>
MCHeads      == {<<"auto", "dev", "main">>, <<"auto", "topic">>, <<"auto">>}
MCRequested  == {"", "main", "auto"}
=============================================================================
