--------------------------- MODULE DashboardDeploy ---------------------------
(***************************************************************************)
(* scripts/deploy_dashboard.py: each run replaces the dashboards of some   *)
(* titles, one after the other: it deletes what has the title and imports  *)
(* a new one.  With --cleanup it first deletes all of them, and all saved  *)
(* searches of their widgets.  Nothing keeps two runs apart.               *)
(*                                                                         *)
(* A dashboard is its identifier, soc-<slug of its title>-<second>; its    *)
(* saved searches are named after it and imported with it, and count as    *)
(* one thing that is there whole or not: no two of DASHBOARDS have a       *)
(* widget title in common.  Not modelled: what a run checks before it      *)
(* changes anything (queries, inventory, write guard), and the identifier  *)
(* of a saved search whose query two dashboards show.                      *)
(***************************************************************************)
EXTENDS Naturals

CONSTANTS
    Titles,     \* of the selected dashboards, in the order a run names them
    Runs,       \* each is one call of deploy
    Attempts,   \* attempts of import_dashboard
    MaxTime     \* bound on the clock

ASSUME LimitsAssumption == Attempts \in Nat \ {0} /\ MaxTime \in Nat

VARIABLES
    now,        \* time.time(), in seconds
    live,       \* dashboards in the compartment
    searches,   \* dashboards whose saved searches are all there
    gone,       \* dashboards deleted, whose identifiers stay in use
    pc,         \* per run
    todo,       \* titles to deploy
    unclean,    \* titles to clean up before
    title,      \* the title being replaced or cleaned up
    found,      \* its dashboards that are listed and not deleted yet
    stamp,      \* second of the identifier
    attempt,    \* of the import
    failed,     \* titles whose import failed, as printed
    alone,      \* history: since it listed the title, did every deletion
                \* work and nobody else import it?
    spared,     \* history: dashboards whose listing or deletion failed
    remover,    \* history: per title, whose deletion was the last
    stripped    \* history: whose saved searches were deleted by whom

service == <<live, searches, gone, remover, stripped>>
local == <<todo, unclean, title, stamp, attempt, failed>>
vars == <<now, service, pc, local, found, alone, spared>>

Dashboard == [title : Titles, stamp : Nat]

Of(t) == {d \in live : d.title = t}

Own(r) == [title |-> title[r], stamp |-> stamp[r]]

Init ==
    /\ now = 0
    /\ live = {} /\ searches = {} /\ gone = {}
    /\ pc = [r \in Runs |-> "start"]
    /\ todo = [r \in Runs |-> {}] /\ unclean = [r \in Runs |-> {}]
    /\ title \in [Runs -> Titles]
    /\ found = [r \in Runs |-> {}]
    /\ stamp = [r \in Runs |-> 0] /\ attempt = [r \in Runs |-> 1]
    /\ failed = [r \in Runs |-> {}]
    /\ alone = [r \in Runs |-> FALSE]
    /\ spared = {} /\ remover = [t \in Titles |-> {}] /\ stripped = {}

Tick ==
    /\ now < MaxTime
    /\ now' = now + 1
    /\ UNCHANGED <<service, pc, local, found, alone, spared>>

GoTo(r, label) == pc' = [pc EXCEPT ![r] = label]

\* Any selection of titles, with --cleanup or without.
Start(r) ==
    /\ pc[r] = "start"
    /\ \E selected \in SUBSET Titles \ {{}} :
         /\ todo' = [todo EXCEPT ![r] = selected]
         /\ \/ GoTo(r, "clean") /\ unclean' = [unclean EXCEPT ![r] = selected]
            \/ GoTo(r, "list") /\ UNCHANGED unclean
    /\ UNCHANGED <<now, service, title, stamp, attempt, failed, found, alone, spared>>

-----------------------------------------------------------------------------
(* delete_existing_dashboard, and the same in cleanup_soc_content *)

\* Mutant: the name is not given to the listing.
AllListed(t) == live

Listed(t) == Of(t)

Choose(r, t) ==
    /\ \/ pc[r] = "clean" /\ t \in unclean[r]
       \/ pc[r] = "list" /\ t \in todo[r]
    /\ GoTo(r, "delete")
    /\ title' = [title EXCEPT ![r] = t]
    /\ UNCHANGED <<now, service, todo, unclean, stamp, attempt, failed>>

List(r, t) ==
    /\ Choose(r, t)
    /\ found' = [found EXCEPT ![r] = Listed(t)]
    /\ alone' = [alone EXCEPT ![r] = TRUE]
    /\ UNCHANGED spared

\* The error is printed, and the title replaced without any deletion.
ListFails(r, t) ==
    /\ Choose(r, t)
    /\ found' = [found EXCEPT ![r] = {}]
    /\ alone' = [alone EXCEPT ![r] = FALSE]
    /\ spared' = spared \cup Of(t)

\* Afterwards the dashboard is not there, whoever deleted it.
Delete(r, d) ==
    /\ pc[r] = "delete"
    /\ d \in found[r]
    /\ found' = [found EXCEPT ![r] = @ \ {d}]
    /\ live' = live \ {d}
    /\ gone' = gone \cup {d}
    /\ remover' = [remover EXCEPT ![d.title] = IF d \in live THEN {r} ELSE @]
    /\ UNCHANGED <<now, searches, stripped, pc, local, alone, spared>>

\* The error is printed.
DeleteFails(r, d) ==
    /\ pc[r] = "delete"
    /\ d \in found[r]
    /\ found' = [found EXCEPT ![r] = @ \ {d}]
    /\ alone' = [alone EXCEPT ![r] = FALSE]
    /\ spared' = spared \cup {d}
    /\ UNCHANGED <<now, service, pc, local>>

EndDelete(r) ==
    /\ pc[r] = "delete"
    /\ found[r] = {}
    /\ IF unclean[r] = {}
       THEN /\ GoTo(r, "import")
            /\ stamp' = [stamp EXCEPT ![r] = now]
            /\ attempt' = [attempt EXCEPT ![r] = 1]
            /\ UNCHANGED unclean
       ELSE /\ unclean' = [unclean EXCEPT ![r] = @ \ {title[r]}]
            /\ GoTo(r, IF unclean[r] = {title[r]} THEN "sweep" ELSE "clean")
            /\ UNCHANGED <<stamp, attempt>>
    /\ UNCHANGED <<now, service, todo, title, failed, found, alone, spared>>

-----------------------------------------------------------------------------
(* The saved searches of cleanup_soc_content *)

\* Mutant: the saved searches of all dashboards.
AllSwept(r) == Titles

Swept(r) == todo[r]

\* One by one, and none whose listing or deletion fails.
Sweep(r, d) ==
    /\ pc[r] = "sweep"
    /\ d \in searches
    /\ d.title \in Swept(r)
    /\ searches' = searches \ {d}
    /\ stripped' = stripped \cup {[dashboard |-> d, by |-> r]}
    /\ UNCHANGED <<now, live, gone, remover, pc, local, found, alone, spared>>

EndSweep(r) ==
    /\ pc[r] = "sweep"
    /\ GoTo(r, "list")
    /\ UNCHANGED <<now, service, local, found, alone, spared>>

-----------------------------------------------------------------------------
(* import_dashboard *)

\* The service takes the dashboard and its saved searches in; an identifier
\* that was deleted cannot be used again.
Applied(r) ==
    /\ Own(r) \notin gone
    /\ live' = live \cup {Own(r)}
    /\ searches' = searches \cup {Own(r)}
    /\ stripped' = {s \in stripped : s.dashboard # Own(r)}
    /\ alone' = [q \in Runs |-> alone[q] /\ (q = r \/ title[q] # title[r])]
    /\ UNCHANGED <<gone, remover>>

NotApplied == UNCHANGED <<service, alone>>

TitlesLeft(r) == todo[r] \ {title[r]}

NextTitle(r) ==
    /\ todo' = [todo EXCEPT ![r] = TitlesLeft(r)]
    /\ GoTo(r, IF TitlesLeft(r) = {} THEN "done" ELSE "list")

Importing(r) ==
    /\ pc[r] = "import"
    /\ UNCHANGED <<now, unclean, title, found, spared>>

Imported(r) ==
    /\ Importing(r)
    /\ Applied(r)
    /\ NextTitle(r)
    /\ UNCHANGED <<stamp, attempt, failed>>

ImportFails(r) ==
    /\ NextTitle(r)
    /\ failed' = [failed EXCEPT ![r] = @ \cup {title[r]}]
    /\ UNCHANGED <<stamp, attempt>>

\* A ServiceError is not tried again, even if the import was applied.
Refused(r) ==
    /\ Importing(r)
    /\ Applied(r) \/ NotApplied
    /\ ImportFails(r)

\* Mutant: each attempt has an identifier of its own.
StampOfAttempt(r) == [stamp EXCEPT ![r] = now]

StampAgain(r) == stamp

\* Mutant: one attempt more.
OneMoreAttempt(r) == attempt[r] <= Attempts

AttemptsLeft(r) == attempt[r] < Attempts

\* A RequestException says nothing of whether the import was applied.
Unsettled(r) ==
    /\ Importing(r)
    /\ Applied(r) \/ NotApplied
    /\ IF AttemptsLeft(r)
       THEN /\ attempt' = [attempt EXCEPT ![r] = @ + 1]
            /\ stamp' = StampAgain(r)
            /\ UNCHANGED <<pc, todo, failed>>
       ELSE ImportFails(r)

\* Another exception, or the process is killed.
Die(r) ==
    /\ pc[r] \in {"clean", "list", "delete", "sweep", "import"}
    /\ GoTo(r, "dead")
    /\ UNCHANGED <<now, service, local, found, alone, spared>>

Next ==
    \/ Tick
    \/ \E r \in Runs :
         \/ Start(r) \/ EndDelete(r) \/ EndSweep(r)
         \/ Imported(r) \/ Refused(r) \/ Unsettled(r) \/ Die(r)
         \/ \E t \in Titles : List(r, t) \/ ListFails(r, t)
         \/ \E d \in found[r] : Delete(r, d) \/ DeleteFails(r, d)
         \/ \E d \in searches : Sweep(r, d)

Spec == Init /\ [][Next]_vars

-----------------------------------------------------------------------------
(* Properties *)

TypeOK ==
    /\ now \in Nat
    /\ live \subseteq Dashboard /\ searches \subseteq Dashboard
    /\ gone \subseteq Dashboard /\ spared \subseteq Dashboard
    /\ pc \in [Runs -> {"start", "clean", "list", "delete", "sweep", "import",
                        "done", "dead"}]
    /\ todo \in [Runs -> SUBSET Titles] /\ unclean \in [Runs -> SUBSET Titles]
    /\ title \in [Runs -> Titles]
    /\ found \in [Runs -> SUBSET Dashboard]
    /\ stamp \in [Runs -> Nat] /\ attempt \in [Runs -> 1 .. Attempts]
    /\ failed \in [Runs -> SUBSET Titles]
    /\ alone \in [Runs -> BOOLEAN]
    /\ remover \in [Titles -> SUBSET Runs]
    /\ stripped \subseteq [dashboard : Dashboard, by : Runs]

\* A run that still has to replace the title, or failed to, or was killed.
Accountable(r, t) == t \in todo[r] \/ t \in failed[r] \/ pc[r] = "dead"

\* A title whose dashboard was deleted and that has none now: the run that
\* deleted the last one is still to import it, printed a failure, or was
\* killed.  No interleaving of runs leaves a title empty unnoticed.
LossIsAccounted ==
    \A t \in Titles : Of(t) = {} => \A r \in remover[t] : Accountable(r, t)

\* A run that could list and delete what was there, and that no other run
\* interfered with, leaves one dashboard of the title, its own, however often
\* its import was repeated.
ReplacedByOne ==
    [][\A r \in Runs : Imported(r) /\ alone[r] =>
         {d \in live' : d.title = title[r]} = {Own(r)}]_vars

\* A dashboard whose saved searches were deleted is to be deleted too by the
\* run that did it, unless its deletion failed or the run was killed.
NoDashboardLeftStripped ==
    \A d \in live \ searches :
        \/ d \in spared
        \/ \E s \in stripped :
             s.dashboard = d /\ (d.title \in todo[s.by] \/ pc[s.by] = "dead")
=============================================================================
