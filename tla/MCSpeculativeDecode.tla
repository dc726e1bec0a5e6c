------------------------ MODULE MCSpeculativeDecode ------------------------
EXTENDS SpeculativeDecode

MCTokens == {"a", "b", "eos"}
MCEosIds == {"eos"}
MCPrompt == <<"a", "b">>
MCSpecKs == {1, 2}
MCMaxNews == {0, 1, 3}
=============================================================================
