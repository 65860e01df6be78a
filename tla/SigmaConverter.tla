--------------------------- MODULE SigmaConverter ---------------------------
(***************************************************************************)
(* The maintenance side of the Sigma converter (scripts/convert_sigma.py   *)
(* and scripts/sigma_converter/maintenance.py): which file each rule's     *)
(* query is written to, which duplicates are swept away and which catalogs *)
(* are refreshed, over repeated runs, edits of the rules and runs that are *)
(* killed.  What a query says is not modelled: a file is its sigma id and  *)
(* its do_not_overwrite flag.                                              *)
(***************************************************************************)
EXTENDS Integers, FiniteSets, FiniteSetsExt, Functions, TLC

CONSTANTS
    Paths,        \* the query files' paths, as integers in sorted order
    Rules,        \* the rule files under rules/
    BrowserRules, \* those under rules/web/browser_attacks
    Ids,          \* sigma ids
    None,         \* no sigma id
    Dashboards,   \* the paths that the DASHBOARDS table names as "query_file"
    MaxRuns       \* bound: converter runs

Catalogs == {"catalog", "manifest", "dashboard inventory"}

VARIABLES
    rules,     \* what each rule says
    files,     \* the query files: path -> [sid, guarded]
    listed,    \* the paths each catalog lists
    pc, index, todo, written,   \* the run: its phase and main()'s variables
    runs, exit                  \* runs begun, and how the last one ended

vars == <<rules, files, listed, pc, index, todo, written, runs, exit>>

\* A rule: its id, the path its title makes (a browser rule's file name makes
\* one under apps/), its do_not_overwrite, and whether convert_rule returns a
\* query for it.
Rule == [sid: Ids \cup {None}, slug: Paths, guarded: BOOLEAN, converts: BOOLEAN]

\* A file that a killed write truncated parses as nothing: sid is None.
File == [sid: Ids \cup {None}, guarded: BOOLEAN]

-----------------------------------------------------------------------------
(* The index of existing queries *)

\* The quoted "query_file" entries in the text of each script: the table was
\* moved out of deploy_dashboard.py, which now imports it.
QueryFileEntries(script) ==
    IF script = "dashboards/definitions.py" THEN Dashboards ELSE {}

Referenced == QueryFileEntries("deploy_dashboard.py")

WithId(s) == {p \in DOMAIN files : files[p].sid = s}

\* The referenced path of an id, or the first one.
Preferred(s) ==
    IF WithId(s) \cap Referenced # {} THEN Min(WithId(s) \cap Referenced)
    ELSE Min(WithId(s))

ExistingIndex ==
    [s \in {t \in Ids : WithId(t) # {}} |-> Preferred(s)]

-----------------------------------------------------------------------------
Init ==
    /\ rules \in [Rules -> Rule]
    /\ files \in UNION {[P -> File] : P \in SUBSET Paths}
    /\ listed = [c \in Catalogs |-> DOMAIN files]
    /\ pc = "idle" /\ exit = 0 /\ runs = 0
    /\ index = <<>> /\ todo = {} /\ written = <<>>

Begin ==
    /\ pc = "idle" /\ runs < MaxRuns
    /\ pc' = "convert" /\ runs' = runs + 1
    /\ index' = ExistingIndex
    /\ todo' = Rules
    /\ written' = <<>>
    /\ UNCHANGED <<rules, files, listed, exit>>

\* resolve_output_relative_path
OutputPath(r) ==
    IF r \notin BrowserRules /\ rules[r].sid \in DOMAIN index
    THEN index[rules[r].sid]
    ELSE rules[r].slug

\* convert_rule caught an exception: the rule is left out.
LeaveOut(r) ==
    /\ pc = "convert" /\ r \in todo
    /\ ~rules[r].converts
    /\ todo' = todo \ {r}
    /\ UNCHANGED <<rules, files, listed, pc, index, written, runs, exit>>

Guarded(r) ==
    LET p == OutputPath(r)
    IN  p \in DOMAIN files /\ (rules[r].guarded \/ files[p].guarded)

\* m with p at key s, if the rule has an id.
Recorded(m, s, p) == IF s = None THEN m ELSE (s :> p) @@ m

Skip(r) ==
    /\ pc = "convert" /\ r \in todo
    /\ rules[r].converts /\ Guarded(r)
    /\ todo' = todo \ {r}
    /\ index' = Recorded(index, rules[r].sid, OutputPath(r))
    /\ UNCHANGED <<rules, files, listed, pc, written, runs, exit>>

\* The file is the rule's; merge_preserved_fields keeps what the old one had
\* besides, which never includes do_not_overwrite: a guarded one is skipped.
Write(r) ==
    LET p == OutputPath(r)
    IN  /\ pc = "convert" /\ r \in todo
        /\ rules[r].converts /\ ~Guarded(r)
        /\ files' = (p :> [sid |-> rules[r].sid, guarded |-> rules[r].guarded])
                        @@ files
        /\ todo' = todo \ {r}
        /\ index' = Recorded(index, rules[r].sid, p)
        /\ written' = Recorded(written, rules[r].sid, p)
        /\ UNCHANGED <<rules, listed, pc, runs, exit>>

\* Files with the id of a query written elsewhere in this run.
Stale ==
    {p \in DOMAIN files : /\ files[p].sid \in DOMAIN written
                          /\ written[files[p].sid] # p
                          /\ ~files[p].guarded}

\* os.remove may fail, which is ignored; the catalogs are refreshed only if
\* something was removed.
Sweep ==
    /\ pc = "convert" /\ todo = {}
    /\ \E gone \in SUBSET Stale :
        /\ files' = Restrict(files, DOMAIN files \ gone)
        /\ IF gone = {} THEN pc' = "idle" /\ exit' = 0
                        ELSE pc' = "refresh" /\ UNCHANGED exit
    /\ UNCHANGED <<rules, listed, index, todo, written, runs>>

\* Each catalog's script is run, also after one failed; any failure is exit 2.
Refresh ==
    /\ pc = "refresh"
    /\ \E done \in SUBSET Catalogs :
        /\ listed' = [c \in Catalogs |->
                        IF c \in done THEN DOMAIN files ELSE listed[c]]
        /\ exit' = IF done = Catalogs THEN 0 ELSE 2
    /\ pc' = "idle"
    /\ UNCHANGED <<rules, files, index, todo, written, runs>>

\* The run is killed; opening a file for writing has truncated it already.
Die ==
    /\ pc # "idle"
    /\ \/ UNCHANGED files
       \/ \E r \in todo :
            /\ pc = "convert" /\ rules[r].converts /\ ~Guarded(r)
            /\ files' = (OutputPath(r) :> [sid |-> None, guarded |-> FALSE])
                            @@ files
    /\ pc' = "idle" /\ exit' = 137
    /\ UNCHANGED <<rules, listed, index, todo, written, runs>>

\* A maintainer retitles, breaks or repairs a rule between runs.
Edit(r) ==
    /\ pc = "idle"
    /\ rules' \in {[rules EXCEPT ![r] = s] : s \in Rule}
    /\ UNCHANGED <<files, listed, pc, index, todo, written, runs, exit>>

Next ==
    \/ Begin \/ Sweep \/ Refresh \/ Die
    \/ \E r \in Rules : LeaveOut(r) \/ Skip(r) \/ Write(r) \/ Edit(r)

Spec == Init /\ [][Next]_vars

-----------------------------------------------------------------------------
(* What the converter's docstrings say: it prefers the path that the       *)
(* dashboards name when several files hold one detection, because          *)
(* otherwise "the canonical dashboard widget loses its query file on the   *)
(* next run".  So a run may remove a duplicate, but never the file that a  *)
(* dashboard's widget names.  It does: the search for the dashboards'      *)
(* paths reads a script that no longer holds them.                         *)
WidgetsKeepTheirQuery ==
    [][Dashboards \cap DOMAIN files \subseteq DOMAIN files']_vars
=============================================================================
