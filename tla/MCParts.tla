------------------------------ MODULE MCParts ------------------------------
(* A small instance of Parts, and beside it the two components whose modules   *)
(* recurse over their data: in one run, the initial state chooses the part     *)
(* that moves, and the variables of the others stay idle.                      *)
EXTENDS Parts, TLC

VARIABLES
    \* EggConfig
    files, default, session, loads,
    \* AuditRecord
    rec, now, last, events, played

Rules == INSTANCE EggConfig WITH MaxBaseDepth <- 1, MaxLoads <- 1, wing <- default
Audit == INSTANCE AuditRecord WITH
    MaxMs <- 2, MaxFrames <- 2, FlushEvery <- 2, Chunks <- {<<3>>, <<1, 2>>}

Symmetric == Permutations(Sessions)     \* sessions are alike

rulesVars == <<files, default, session, loads>>
auditVars == <<rec, now, last, events, played>>
vars == <<partsVars, rulesVars, auditVars>>

IdleRules == files = 0 /\ default = 0 /\ session = 0 /\ loads = 0
IdleAudit == rec = 0 /\ now = 0 /\ last = 0 /\ events = 0 /\ played = 0

\* Bound: of the homes a session may find, those in which the file beside the
\* agent's directory is there when the settings are, and the denied path when the
\* protected one is; of two writable directories the first is missing only with the
\* second, and in a per-user home both are or neither.
SmallHomes ==
    part = "sandbox" =>
        /\ home["file"] = home["settings"] /\ home["secret"] = home["keep"]
        /\ home["cache"] = {} \/ home["lib"] = home["cache"]
        /\ perUser => home["lib"] = home["cache"]

Init ==
    \/ PartsInit /\ SmallHomes /\ IdleRules /\ IdleAudit
    \/ part = "rules" /\ Rules!Init /\ IdleParts /\ IdleAudit
    \/ part = "audit" /\ Audit!Init /\ IdleParts /\ IdleRules

Next ==
    \/ PartsNext /\ UNCHANGED <<rulesVars, auditVars>>
    \/ part = "rules" /\ Rules!Next /\ UNCHANGED <<partsVars, auditVars>>
    \/ part = "audit" /\ Audit!Next /\ UNCHANGED <<partsVars, rulesVars>>

Spec == Init /\ [][Next]_vars

-----------------------------------------------------------------------------
(* The properties of the two and their types; what each says is told in its    *)
(* module.                                                                     *)

\* EggConfig: bases and masks resolve to what they say, and merging keeps what
\* the files of the chain forbid.
RulesResolve == part = "rules" => Rules!TypeOK /\ Rules!ResolvesRight /\ Rules!AncestorsHold

\* AuditRecord: playback shows what was recorded, however much of it there is.
PlaybackTrue == part = "audit" => Audit!TypeOK /\ Audit!PlaybackTrue
=============================================================================
