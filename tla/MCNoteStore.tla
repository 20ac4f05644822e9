------------------------------ MODULE MCNoteStore ------------------------------
(* Instance of NoteStore for TLC. *)
EXTENDS NoteStore

CONSTANTS n1, n2, n3
AllNotes == {n1, n2, n3}
FirstNotes == <<n1, n2>>
===============================================================================
