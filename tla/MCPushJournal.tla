--------------------------- MODULE MCPushJournal ---------------------------
(***************************************************************************)
(* TLC instance of PushJournal: frames of one or three bytes, a ring of at *)
(* most two frames or three bytes, and MaxSeq numbers handed out.          *)
(***************************************************************************)
EXTENDS PushJournal

CONSTANT MaxSeq  \* bound: numbers handed out

MCNext == nextSeq < MaxSeq /\ NextJournal
MCSpec == InitJournal /\ [][MCNext]_journalVars
=============================================================================
