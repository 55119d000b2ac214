------------------------------ MODULE EggConfig ------------------------------
(* Which configuration a session gets (internal/egg/config.go): an egg.yaml     *)
(* names a base, or a base for one section, in other files which do the same;   *)
(* the chain is resolved, merged from the root down, and what does not resolve  *)
(* is replaced by the wing's own configuration.                                 *)
EXTENDS Integers, Sequences, FiniteSets, SequencesExt

CONSTANTS
    MaxBaseDepth,   \* maxBaseDepth; 10 in the code
    MaxLoads        \* bound: changes of the wing's configuration

VARIABLES
    files,      \* file -> the base and the section masks in it
    wing,       \* the wing's configuration
    session,    \* the configuration the last session got
    loads

vars == <<files, wing, session, loads>>

\* A configuration: rules in order, network, audit, a resource limit (0: unset).
\* What a file says itself; the project's is "egg".
Own == [egg  |-> [fs |-> <<<<"rw", "ssh">>, <<"deny-write", "egg">>>>, net |-> {"localhost"}, audit |-> FALSE, mem |-> 0],
        team |-> [fs |-> <<<<"deny", "data">>, <<"ro", "aws">>>>, net |-> {"example"}, audit |-> TRUE, mem |-> 2],
        org  |-> [fs |-> <<<<"rw", "data">>, <<"deny", "ssh">>>>, net |-> {"*"}, audit |-> FALSE, mem |-> 4]]
Files == DOMAIN Own
Default == [fs |-> <<<<"ro", "root">>, <<"rw", "cwd">>, <<"deny", "ssh">>, <<"deny", "aws">>>>,
            net |-> {}, audit |-> FALSE, mem |-> 0]
Headers == [base : {"none", "default", "gone"} \union Files,
            fs : {"", "none"} \union (Files \ {"egg"}), net : {"", "team"}]
Failed == [Default EXCEPT !.mem = -1]

\* mergeFS: the child's rules follow, its ro and rw open what the parent denies.
Opened(fs) == {fs[i][2] : i \in {j \in DOMAIN fs : fs[j][1] \in {"ro", "rw"}}}
MergeFS(parent, child) ==
    SelectSeq(parent, LAMBDA r : ~(r[1] = "deny" /\ r[2] \in Opened(child))) \o child
MergeStringSet(a, b) == IF "*" \in a \union b THEN {"*"} ELSE a \union b
MergeResources(parent, child) == IF child > 0 THEN child ELSE parent
MergeEggConfig(parent, child) ==
    [fs |-> MergeFS(parent.fs, child.fs), net |-> MergeStringSet(parent.net, child.net),
     audit |-> parent.audit \/ child.audit, mem |-> MergeResources(parent.mem, child.mem)]

(* resolveEggConfig: the files seen so far are shared by the base and the masks, *)
(* so every reference carries on with the set the one before has left.          *)
Answer(cfg, seen) == [cfg |-> cfg, seen |-> seen]
HasMasks(h) == h.fs # "" \/ h.net # ""
RECURSIVE Resolve(_, _, _, _)
\* Mutant: a mask takes what the file says itself, not its chain.
MutantMasked(fs, ref, seen, depth) == Answer(Own[ref], seen \union {ref})
Masked(fs, ref, seen, depth) == Resolve(fs, ref, seen, depth + 1)
Masks(fs, parent, h, seen, depth) ==
    LET a == IF h.fs \in {"", "none"} THEN Answer(parent, seen) ELSE Masked(fs, h.fs, seen, depth)
        b == IF h.net = "" \/ a.cfg = Failed THEN Answer(parent, a.seen) ELSE Masked(fs, h.net, a.seen, depth)
    IN IF Failed \in {a.cfg, b.cfg} THEN Answer(Failed, b.seen)
       ELSE Answer([parent EXCEPT !.fs = IF h.fs = "none" THEN <<>> ELSE a.cfg.fs, !.net = b.cfg.net], b.seen)
Resolve(fs, f, seen, depth) ==
    IF depth > MaxBaseDepth \/ f \in seen \/ f \notin Files THEN Answer(Failed, seen \union {f})
    ELSE LET h == fs[f]
             now == seen \union {f}
             base == IF h.base = "default" THEN Answer(Default, now) ELSE Resolve(fs, h.base, now, depth + 1)
         IN IF h.base = "none" THEN Answer(IF HasMasks(h) THEN Failed ELSE Own[f], now)
            ELSE IF base.cfg = Failed THEN base
            ELSE LET m == Masks(fs, base.cfg, h, base.seen, depth)
                 IN IF m.cfg = Failed THEN m ELSE Answer(MergeEggConfig(m.cfg, Own[f]), m.seen)
ResolveEggConfig(f) == Resolve(files, f, {}, 0).cfg

\* Masks of the files below are left out where a base serves as well.
Init ==
    /\ files \in [Files -> Headers]
    /\ files["org"].net = "" /\ files["team"].net = ""
    /\ wing = Default /\ session = Default
    /\ loads = 0

\* At the start, or at a reload that names another file; a tunnel request sends a
\* configuration, which replaces the wing's as it is, without its base.
LoadsWing ==
    /\ loads < MaxLoads /\ loads' = loads + 1
    /\ \E f \in Files \ {"egg"} :
         \/ ResolveEggConfig(f) # Failed /\ wing' = ResolveEggConfig(f)
         \/ wing' = Own[f]
    /\ UNCHANGED <<files, session>>

\* DiscoverEggConfig
Starts ==
    /\ session' = IF ResolveEggConfig("egg") = Failed THEN wing ELSE ResolveEggConfig("egg")
    /\ UNCHANGED <<files, wing, loads>>

Next == LoadsWing \/ Starts
Spec == Init /\ [][Next]_vars

-----------------------------------------------------------------------------
TypeOK ==
    /\ files \in [Files -> Headers] /\ loads \in 0 .. MaxLoads
    /\ Failed \notin {wing, session}

\* The files a file refers to, and through them.
Refs(f) == IF f \notin Files THEN {} ELSE ({files[f].base, files[f].fs, files[f].net} \intersect (Files \union {"gone"}))
Reach(f) == LET one == Refs(f)
                two == one \union UNION {Refs(g) : g \in one}
            IN two \union UNION {Refs(g) : g \in two}
\* Each section by itself, straight from what the files say; no cycles here.
RECURSIVE SectionOf(_, _, _)
SectionOf(f, mask, own) ==
    LET h == files[f]
        from == IF mask = "fs" /\ h.fs # "" THEN h.fs ELSE IF mask = "net" /\ h.net # "" THEN h.net ELSE h.base
        above == IF from = "none" THEN IF mask = "fs" THEN <<>> ELSE {}
                 ELSE IF from = "default" THEN IF mask = "fs" THEN Default.fs ELSE {}
                 ELSE SectionOf(from, mask, own)
    IN IF mask = "fs" THEN MergeFS(above, own[f].fs) ELSE MergeStringSet(above, own[f].net)
Sound(f) ==
    /\ \A g \in Reach(f) \union {f} : g # "gone" /\ g \notin Reach(g)
    /\ \A g \in Reach(f) \union {f} : files[g].base = "none" => ~HasMasks(files[g])
\* Two references lead to the same file.
Shared(f) == \E g, h \in Reach(f) \union {f} : \E x \in {"base", "fs", "net"}, y \in {"base", "fs", "net"} :
                 <<g, x>> # <<h, y>> /\ files[g][x] = files[h][y] /\ files[g][x] \in Files

\* The references that follow one another from a file; there is no cycle here.
RECURSIVE Height(_)
Height(f) == LET below == {Height(g) : g \in Refs(f) \intersect Files}
             IN IF below = {} THEN 0 ELSE 1 + Max(below)

(* A file resolves only to what its references say, section by section, however *)
(* bases and masks are mixed; one that refers to itself, to a file that is not  *)
(* there, or masks nothing never does; any other that is not too deep does,     *)
(* unless two references meet in one file, which counts as a cycle.             *)
ResolvesRight ==
    \A f \in Files :
        LET c == ResolveEggConfig(f) IN
        /\ c # Failed => /\ Sound(f) /\ Height(f) <= MaxBaseDepth
                         /\ c.fs = SectionOf(f, "fs", Own) /\ c.net = SectionOf(f, "net", Own)
        /\ c = Failed /\ Sound(f) => Shared(f) \/ Height(f) > MaxBaseDepth

NetworkNeedFromDomains(net) ==
    IF net = {} THEN 0 ELSE IF "*" \in net THEN 3 ELSE IF net \subseteq {"localhost"} THEN 1 ELSE 2
ParsedDeny(fs) == {fs[i][2] : i \in {j \in DOMAIN fs : fs[j][1] = "deny"}}
Chain(f) == {g \in Reach(f) \union {f} : g \in Files}
(* Without masks, what the files of a chain deny stays denied unless a file of   *)
(* the chain opens that very path, audit asked for anywhere stays on, a limit is *)
(* some file's, and the session may use the network as far as the file of its    *)
(* chain that asks for most.                                                     *)
AncestorsHold ==
    \A f \in Files :
        LET c == ResolveEggConfig(f)
            needs == {NetworkNeedFromDomains(Own[g].net) : g \in Chain(f)} IN
        c # Failed /\ (\A g \in Chain(f) : ~HasMasks(files[g])) =>
            /\ \A g \in Chain(f) : ParsedDeny(Own[g].fs) \ UNION {Opened(Own[x].fs) : x \in Chain(f)} \subseteq ParsedDeny(c.fs)
            /\ ParsedDeny(Own[f].fs) \subseteq ParsedDeny(c.fs)
            /\ (\E g \in Chain(f) : files[g].base = "default") =>
                 ParsedDeny(Default.fs) \ UNION {Opened(Own[x].fs) : x \in Chain(f)} \subseteq ParsedDeny(c.fs)
            /\ c.audit = (\E g \in Chain(f) : Own[g].audit)
            /\ c.mem \in {0} \union {Own[g].mem : g \in Chain(f)} /\ (Own[f].mem > 0 => c.mem = Own[f].mem)
            /\ \A n \in needs : n <= NetworkNeedFromDomains(c.net)
            /\ NetworkNeedFromDomains(c.net) \in needs
=============================================================================
