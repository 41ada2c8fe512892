---------------------------- MODULE MCRemoteNotes ---------------------------
(***************************************************************************)
(* Instance of RemoteNotes: one object that hangs under one of two or      *)
(* three folders and has one of two titles.                                *)
(***************************************************************************)
EXTENDS RemoteNotes

CONSTANTS p1, p2, p3, t1, t2

MCParents == {p1, p2}
MCThreeParents == {p1, p2, p3}
MCTitles == {t1, t2}
=============================================================================
