----------------------------- MODULE OneRestore -----------------------------
(***************************************************************************)
(* What a clean restore promises, to one who sees only the vault's path    *)
(* and whether a restore is under way.  One export is restored, the one    *)
(* the owner approved, where nothing was; every interruption keeps it so.  *)
(* Until the end it may be put back and audited anew.  It ends once, with  *)
(* one audit, and what it leaves is not touched again.                     *)
(***************************************************************************)
EXTENDS Naturals

CONSTANTS Sources, NoSource

VARIABLES
    approved,  \* the export the owner approved
    working,   \* a restore was begun and is not over
    there,     \* whose vault is at the path
    content,   \* the export it holds
    audits     \* the restores in its audit

atPath == <<there, content, audits>>
vars == <<approved, working, atPath>>

Init == /\ approved = NoSource /\ ~working
        /\ there = "nothing" /\ content = NoSource /\ audits = 0

\* Until a restore is begun the owner may approve another export.
Approve == /\ ~working /\ there = "nothing"
           /\ approved' \in Sources
           /\ UNCHANGED <<working, atPath>>

Begin == /\ ~working /\ there = "nothing" /\ approved \in Sources
         /\ working'
         /\ UNCHANGED <<approved, atPath>>

\* The export is put at the path, or put back, not audited.
Place == /\ working /\ there # "theirs"
         /\ there' = "ours" /\ content' = approved /\ audits' = 0
         /\ UNCHANGED <<approved, working>>

Audit == /\ working /\ there = "ours"
         /\ audits' = audits + 1
         /\ UNCHANGED <<approved, working, there, content>>

End == /\ working /\ there = "ours" /\ content = approved /\ audits = 1
       /\ ~working'
       /\ UNCHANGED <<approved, atPath>>

\* Another program's vault stays, and the restore is not over.
Intrude == /\ working
           /\ there' = "theirs" /\ content' = NoSource /\ audits' = 0
           /\ UNCHANGED <<approved, working>>

Next == Approve \/ Begin \/ Place \/ Audit \/ End \/ Intrude

Spec == Init /\ [][Next]_vars
=============================================================================
