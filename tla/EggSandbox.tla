----------------------------- MODULE EggSandbox -----------------------------
(* What a sandboxed agent may change of its user's home directory on Linux, and *)
(* what is left of it afterwards (internal/sandbox/linux.go, deny_linux.go,     *)
(* internal/egg/server.go, snapshot.go). The wrapper mounts, step by step, a    *)
(* view of the home over the one there is: a copy-on-write layer or a read-only *)
(* bind with holes, then the denied and the write-protected paths. What a       *)
(* session writes reaches the disk at once, when it ends, or never.             *)
EXTENDS Integers, Sequences, FiniteSets

CONSTANTS
    Sessions,   \* sessions of one user, which may overlap
    MaxWrites,  \* bound: paths a session's agent changes
    MaxFaults   \* bound: mounts that fail, eggs that die

VARIABLES
    disk,       \* path -> who has changed it, or Absent
    run,        \* session -> how far it is, its kind of rules, what befell it
    view,       \* session -> path -> where a write goes: disk, upper, ro, hidden
    upper,      \* session -> path -> the copy in its copy-on-write layer
    perUser,    \* the home is one the wing keeps for a user of an organization,
                \* not the host's own
    faults

vars == <<disk, run, view, upper, perUser, faults>>

(* A home: two directories the rules list as writable, one with a write-       *)
(* protected file in it (./egg.yaml of a project), the agent's own directory   *)
(* with the settings in it, the file beside it that shares its name            *)
(* (~/.claude.json), something else, and a denied path.                        *)
Paths == {"cache", "lib", "agent", "settings", "file", "other", "secret", "keep"}
Absent == {0}

(* overlay: an agent whose file beside its directory must be replaceable;      *)
(* bind: any other agent; jail: everything is denied but what is listed, and   *)
(* the home; open: the rules list no writable path, or the home itself.        *)
Kinds == {"overlay", "bind", "jail", "open"}
Writable == <<"cache", "lib", "agent">>
Listed == {Writable[i] : i \in DOMAIN Writable}

\* saved: the home is mounted a second time, writable, for its layer; bare: the
\* protected file was not there to be protected; around: what the agent changed
\* through the second mount.
Fresh == [st |-> "new", kind |-> "open", next |-> 1, persist |-> FALSE, snap |-> Absent,
          saved |-> FALSE, bare |-> FALSE, clean |-> FALSE, alone |-> FALSE, broken |-> FALSE,
          wrote |-> {}, around |-> {}]
Ended(r) == [r EXCEPT !.st = "ended", !.next = 1, !.persist = FALSE, !.snap = Absent, !.saved = FALSE]
Everywhere(place) == [p \in Paths |-> place]
Running(s) == run[s].st \notin {"new", "ended"}

Init ==
    /\ disk \in [Paths -> {{}, Absent}]
    /\ disk["other"] = {} /\ perUser \in BOOLEAN
    /\ disk["keep"] = {} => disk["lib"] = {}
    /\ run = [s \in Sessions |-> Fresh]
    /\ view = [s \in Sessions |-> Everywhere("disk")]
    /\ upper = [s \in Sessions |-> [p \in Paths |-> Absent]]
    /\ disk["settings"] = {} => disk["agent"] = {}
    /\ faults = 0

\* spawnEgg writes the settings of a per-user home anew at each start: what the
\* last session left, with the host's on top, so that some of it stays.
Rebuilt == IF perUser THEN (SUBSET (disk["settings"] \ Absent)) \union ({Absent} \intersect {disk["settings"]})
           ELSE {disk["settings"]}

\* RunSession: the agent's directory is made, the settings of the host's home
\* (not those of a per-user one) are copied.
Starts(s) ==
    /\ run[s].st = "new"
    /\ \E k \in Kinds :
         LET alone == \A t \in Sessions : ~Running(t) IN
         run' = [t \in Sessions |->
             IF t = s THEN [Fresh EXCEPT !.st = IF k = "jail" THEN "jail" ELSE IF k = "open" THEN "deny" ELSE "isolate",
                                         !.kind = k, !.alone = alone,
                                         !.snap = IF perUser THEN Absent ELSE disk["settings"],
                                         !.clean = \A p \in Listed \ {"agent"} : disk[p] # Absent]
             ELSE IF Running(t) THEN [run[t] EXCEPT !.alone = FALSE] ELSE run[t]]
    /\ \E x \in Rebuilt :
         disk' = [disk EXCEPT !["agent"] = IF @ = Absent THEN {} ELSE @, !["settings"] = x]
    /\ UNCHANGED <<view, upper, faults>>

Fault == faults < MaxFaults /\ faults' = faults + 1

\* What goes with a listed directory.
Within(p) == {p} \union (IF p = "agent" THEN {"settings"} ELSE IF p = "lib" THEN {"keep"} ELSE {})
Inside == UNION {Within(p) : p \in Listed}

(* setupJail: a new root with the listed paths, and over them the home, where   *)
(* everything may be written; without the home's mount there is nothing else.  *)
SetupJail(s) ==
    /\ run[s].st = "jail"
    /\ \/ /\ run' = [run EXCEPT ![s].st = "deny"]
          /\ UNCHANGED <<view, faults>>
       \/ /\ Fault
          /\ view' = [view EXCEPT ![s] = [p \in Paths |-> IF p \in Inside THEN @[p] ELSE "hidden"]]
          /\ run' = [run EXCEPT ![s].st = "deny", ![s].broken = TRUE]
    /\ UNCHANGED <<disk, upper>>

(* The home is bound a second time, to be the layer's lower half, and this      *)
(* mount stays: as writable as before, whatever becomes of the layer. The view *)
(* below is gone: an overlay shows the home's own files, without mounts.       *)
MountsOverlay(s) ==
    /\ run[s].st = "isolate"
    /\ \/ /\ run[s].kind = "overlay"
          /\ view' = [view EXCEPT ![s] = Everywhere("upper")]
          /\ run' = [run EXCEPT ![s].st = "through", ![s].saved = TRUE]
          /\ UNCHANGED faults
       \/ /\ run[s].kind = "overlay" /\ Fault /\ UNCHANGED view
          /\ \E bound \in BOOLEAN : run' = [run EXCEPT ![s].st = "readonly", ![s].saved = bound]
       \/ /\ run[s].kind # "overlay" /\ UNCHANGED <<view, faults>>
          /\ run' = [run EXCEPT ![s].st = "readonly"]
    /\ UNCHANGED <<disk, upper>>

(* A writable directory is bound through the overlay from the saved home: the  *)
(* target is made in the layer, the source must be there. After a failure the  *)
(* overlay is unmounted, which the kernel refuses once something is mounted on *)
(* it.                                                                         *)
Through(s, p) == [view EXCEPT ![s] = [q \in Paths |-> IF q \in Within(p) THEN "disk" ELSE @[q]]]
BindsThrough(s) ==
    /\ run[s].st = "through"
    /\ LET i == run[s].next
           p == Writable[i] IN
       \/ /\ disk[p] # Absent
          /\ view' = Through(s, p)
          /\ run' = [run EXCEPT ![s].next = i + 1,
                                ![s].st = IF i = Len(Writable) THEN "deny" ELSE @,
                                ![s].persist = (i = Len(Writable))]
          /\ UNCHANGED <<upper, faults>>
       \/ /\ disk[p] # Absent => Fault
          /\ disk[p] = Absent => UNCHANGED faults
          /\ IF i = 1 THEN view' = [view EXCEPT ![s] = Everywhere("disk")] /\ UNCHANGED upper
             ELSE upper' = [upper EXCEPT ![s][p] = IF disk[p] = Absent THEN {} ELSE @] /\ UNCHANGED view
          /\ run' = [run EXCEPT ![s].st = "readonly"]
    /\ UNCHANGED disk

(* setupReadonlyHome: the home as it is now, with the listed directories (made *)
(* where they are missing) and the files that share their names as holes.      *)
Shown(s, p) == IF view[s][p] = "hidden" THEN Absent
               ELSE IF view[s][p] = "upper" /\ upper[s][p] # Absent THEN upper[s][p] ELSE disk[p]
Missing(s) == {p \in Listed : Shown(s, p) = Absent}
Holes(s) == Inside \union (IF Shown(s, "file") # Absent THEN {"file"} ELSE {})
ReadonlyHome(s) ==
    /\ run[s].st = "readonly"
    /\ disk' = [p \in Paths |-> IF p \in Missing(s) /\ view[s][p] = "disk" THEN {} ELSE disk[p]]
    /\ upper' = [upper EXCEPT ![s] = [p \in Paths |->
                    IF p \in Missing(s) /\ view[s][p] = "upper" THEN {} ELSE @[p]]]
    /\ \/ /\ view' = [view EXCEPT ![s] = [p \in Paths |-> IF p \in Holes(s) THEN @[p] ELSE "ro"]]
          /\ run' = [run EXCEPT ![s].st = "deny"]
          /\ UNCHANGED faults
       \/ /\ Fault /\ UNCHANGED view
          /\ run' = [run EXCEPT ![s].st = "deny", ![s].broken = TRUE]

\* DenyInit, at the end: a mount over a path; one that fails is logged and
\* skipped.
Overmounts(s, p, how, next) ==
    \/ /\ view' = [view EXCEPT ![s][p] = how]
       /\ run' = [run EXCEPT ![s].st = next] /\ UNCHANGED faults
    \/ /\ Fault /\ UNCHANGED view
       /\ run' = [run EXCEPT ![s].st = next, ![s].broken = TRUE]

\* An empty mount hides the denied path, which is made where it is missing; in a
\* read-only home it cannot be made, and there is nothing to hide.
Denies(s) ==
    /\ run[s].st = "deny"
    /\ LET missing == Shown(s, "secret") = Absent
           place == view[s]["secret"] IN
       /\ disk' = [disk EXCEPT !["secret"] = IF missing /\ place = "disk" THEN {} ELSE @]
       /\ upper' = [upper EXCEPT ![s]["secret"] = IF missing /\ place = "upper" THEN {} ELSE @]
       /\ \/ /\ missing /\ place = "ro"
             /\ run' = [run EXCEPT ![s].st = "keep"] /\ UNCHANGED <<view, faults>>
          \/ /\ ~(missing /\ place = "ro")
             /\ Overmounts(s, "secret", "hidden", "keep")

\* The protected file is bound read-only if it is there.
DeniesWrite(s) ==
    /\ run[s].st = "keep"
    /\ \/ /\ Shown(s, "keep") = Absent
          /\ run' = [run EXCEPT ![s].st = "runs", ![s].bare = TRUE] /\ UNCHANGED <<view, faults>>
       \/ /\ Shown(s, "keep") # Absent
          /\ Overmounts(s, "keep", "ro", "runs")
    /\ UNCHANGED <<disk, upper>>

\* The agent changes a path its view of the home lets it change, or any path
\* by the second mount. A file needs its directory.
AgentWrites(s) ==
    /\ run[s].st = "runs" /\ Cardinality(run[s].wrote) < MaxWrites
    /\ \E p \in Paths \ run[s].wrote, around \in {TRUE, FALSE} :
         /\ around => run[s].saved
         /\ p = "keep" => (IF around THEN disk["lib"] ELSE Shown(s, "lib")) # Absent
         /\ \/ /\ around \/ view[s][p] = "disk"
               /\ disk' = [disk EXCEPT ![p] = (@ \ Absent) \union {s}] /\ UNCHANGED upper
            \/ /\ ~around /\ view[s][p] = "upper" /\ UNCHANGED disk
               /\ upper' = [upper EXCEPT ![s][p] = (Shown(s, p) \ Absent) \union {s}]
         /\ run' = [run EXCEPT ![s].wrote = @ \union {p},
                               ![s].around = IF around THEN @ \union {p} ELSE @]
    /\ UNCHANGED <<view, faults>>

\* The persist function: of the layer, what has the agent's prefix.
\* Mutant: everything in the layer is copied back.
MutantPersisted(s) == {p \in Paths : run[s].persist /\ upper[s][p] # Absent}
Persisted(s) == {p \in {"agent", "settings", "file"} : run[s].persist /\ upper[s][p] # Absent}
Exits(s) ==
    /\ run[s].st = "runs"
    /\ disk' = [p \in Paths |-> IF p \in Persisted(s) THEN upper[s][p] ELSE disk[p]]
    /\ run' = [run EXCEPT ![s].st = "exited"]
    /\ UNCHANGED <<view, upper, faults>>

\* ConfigSnapshot.Restore, which is about the host's home, then Destroy removes
\* the layer.
Gone(s) == /\ view' = [view EXCEPT ![s] = Everywhere("disk")]
           /\ upper' = [upper EXCEPT ![s] = [p \in Paths |-> Absent]]
\* Mutant: a file that did not exist before is left.
MutantRestored(s) == IF perUser \/ run[s].snap = Absent THEN disk["settings"] ELSE run[s].snap
Restored(s) == IF perUser THEN disk["settings"] ELSE run[s].snap
Restores(s) ==
    /\ run[s].st = "exited"
    /\ disk' = [disk EXCEPT !["settings"] = Restored(s)]
    /\ run' = [run EXCEPT ![s] = Ended(@)]
    /\ Gone(s) /\ UNCHANGED faults

\* The egg is killed, or the wrapper is after its five seconds.
Dies(s) ==
    /\ Running(s) /\ Fault
    /\ run' = [run EXCEPT ![s] = [Ended(@) EXCEPT !.broken = TRUE]]
    /\ Gone(s) /\ UNCHANGED disk

Next ==
    /\ perUser' = perUser
    /\ \E s \in Sessions :
        \/ Starts(s) \/ SetupJail(s) \/ MountsOverlay(s) \/ BindsThrough(s) \/ ReadonlyHome(s)
        \/ Denies(s) \/ DeniesWrite(s) \/ AgentWrites(s) \/ Exits(s) \/ Restores(s) \/ Dies(s)

Spec == Init /\ [][Next]_vars

-----------------------------------------------------------------------------
TypeOK ==
    /\ disk \in [Paths -> (SUBSET Sessions) \union {Absent}]
    /\ \A s \in Sessions :
         /\ run[s].st \in {"new", "jail", "isolate", "through", "readonly", "deny", "keep", "runs", "exited", "ended"}
         /\ run[s].kind \in Kinds /\ run[s].next \in DOMAIN Writable \union {Len(Writable) + 1}
         /\ run[s].around \subseteq run[s].wrote /\ run[s].wrote \subseteq Paths
         /\ view[s] \in [Paths -> {"disk", "upper", "ro", "hidden"}]
         /\ upper[s] \in [Paths -> (SUBSET Sessions) \union {Absent}]
    /\ perUser \in BOOLEAN /\ faults \in 0 .. MaxFaults

(* Whatever order mounts were made and undone in, a session whose mounts all   *)
(* succeeded changes nothing through its home outside what its rules leave     *)
(* writable: never a denied path, never a protected file that was there when   *)
(* it started, and with writable paths listed nothing else in the home, not    *)
(* even when its copy-on-write layer is copied back. What this does not say:   *)
(* the second mount of the home, which a layer needs, is as writable as it     *)
(* was (deny_linux.go:311 says of the layer that the "real HOME is untouched", *)
(* which holds of writes to the layer), and a file that is not there is not    *)
(* protected.                                                                  *)
WritesWithin ==
    \A s \in Sessions : ~run[s].broken =>
        /\ s \in disk["secret"] => "secret" \in run[s].around
        /\ s \in disk["keep"] => "keep" \in run[s].around \/ run[s].bare
        /\ run[s].kind \in {"overlay", "bind"} /\ s \in disk["other"] => "other" \in run[s].around

(* A session that ran and ended in order, all its directories there when it    *)
(* started, has left on disk what it wrote in them, also when another session  *)
(* ran beside it.                                                              *)
WorkKept ==
    \A s \in Sessions :
        run[s].st = "ended" /\ ~run[s].broken /\ run[s].clean /\ faults = 0 =>
            \A p \in Listed \intersect run[s].wrote : s \in disk[p]

(* In the host's own home, settings that an agent changed while no other       *)
(* session ran are as before its session once it has ended, a file it made     *)
(* being removed. In a per-user home nothing is put back: the settings are     *)
(* written anew at the next start, some of what the agent changed among them.  *)
SettingsRestored ==
    \A s \in Sessions :
        run[s].st = "ended" /\ run[s].alone /\ ~run[s].broken /\ ~perUser => s \notin disk["settings"]
=============================================================================
