-------------------------- MODULE MCEngineDownloads --------------------------
(* Two downloads with every way a transfer can go: whole, refused before or *)
(* after some progress, left hanging.                                       *)
EXTENDS EngineDownloads

MCScripts == {<<>>, <<"Finished">>, <<"Progress", "Failed">>, <<"Progress">>}
=============================================================================
