--------------------------- MODULE MCWorkSessions ---------------------------
(* An instance of WorkSessions for TLC. *)
EXTENDS WorkSessions, TLC

CONSTANTS a1, a2, a3, codex, ui, c1

\* Two activations of connectors and one of the local interface, on one
\* connection; two of the three are asked for.  The window does not tell the
\* clients it serves apart, so that the connectors can be one client.
AllIds == {a1, a2, a3}
AllClientOf == (a1 :> codex) @@ (a2 :> codex) @@ (a3 :> ui)
AllConnOf == (a1 :> c1) @@ (a2 :> c1) @@ (a3 :> c1)
\* The activations of connectors are alike.
Exchange == Permutations({a1, a2})
=============================================================================
