---------------------------- MODULE MCDocuments ----------------------------
(* The instance of Documents that TLC checks.                                *)
EXTENDS Documents

SmallTexts == {<<"wide", "old">>, <<"old", "nl", "wide">>}
SmallInserts == {<<>>, <<"nl">>}
=============================================================================
