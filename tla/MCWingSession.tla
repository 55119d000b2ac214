--------------------------- MODULE MCWingSession ---------------------------
(* Small instances of WingSession. *)
EXTENDS WingSession

\* A snapshot that was received matters to nothing that follows.
SafetyView ==
    << eggVars, inVars, attVars, keyVars, stream, pos, outVars, started, over, seen,
       [g \in Clients |-> IF pos[g] = -1 THEN base[g] ELSE 0] >>
=============================================================================
