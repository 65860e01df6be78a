----------------------- MODULE DashboardDeploy_proofs -----------------------
(***************************************************************************)
(* Proofs about DashboardDeploy, for any number of titles, runs and        *)
(* attempts.                                                               *)
(***************************************************************************)
EXTENDS DashboardDeploy, TLAPS

-----------------------------------------------------------------------------
(* Types *)

LEMMA OwnIsDashboard ==
    ASSUME TypeOK, NEW r \in Runs
    PROVE  Own(r) \in Dashboard
BY DEF TypeOK, Own, Dashboard

LEMMA AppliedType ==
    ASSUME TypeOK, NEW r \in Runs, Applied(r) \/ NotApplied
    PROVE  /\ live' \subseteq Dashboard /\ searches' \subseteq Dashboard
           /\ gone' = gone /\ remover' = remover
           /\ alone' \in [Runs -> BOOLEAN]
           /\ stripped' \subseteq stripped
<1>1. CASE Applied(r)
  <2>1. alone' = [q \in Runs |-> alone[q] /\ (q = r \/ title[q] # title[r])]
    BY <1>1 DEF Applied
  <2>2. alone' \in [Runs -> BOOLEAN]
    BY <2>1, Zenon
  <2> QED
    BY <1>1, <2>2, OwnIsDashboard DEF Applied, TypeOK
<1>2. CASE NotApplied
  BY <1>2 DEF NotApplied, service, TypeOK
<1> QED
  BY <1>1, <1>2

LEMMA NextTitleType ==
    ASSUME TypeOK, NEW r \in Runs, NextTitle(r)
    PROVE  /\ todo' \in [Runs -> SUBSET Titles]
           /\ pc' \in [Runs -> {"start", "clean", "list", "delete", "sweep",
                                "import", "done", "dead"}]
BY DEF TypeOK, NextTitle, TitlesLeft, GoTo

LEMMA ImportFailsType ==
    ASSUME TypeOK, NEW r \in Runs, ImportFails(r)
    PROVE  /\ failed' \in [Runs -> SUBSET Titles]
           /\ stamp' = stamp /\ attempt' = attempt
BY DEF TypeOK, ImportFails

THEOREM DeployTypeCorrect == Spec => []TypeOK
<1>1. Init => TypeOK
  <2>1. Init => alone \in [Runs -> BOOLEAN]
    BY Zenon DEF Init
  <2>2. Init => attempt \in [Runs -> 1 .. Attempts]
    BY LimitsAssumption DEF Init
  <2> QED
    BY <2>1, <2>2 DEF Init, TypeOK
<1>2. TypeOK /\ [Next]_vars => TypeOK'
  <2> SUFFICES ASSUME TypeOK, [Next]_vars PROVE TypeOK'
    OBVIOUS
  <2>1. CASE Tick
    BY <2>1 DEF Tick, service, local, TypeOK
  <2>2. ASSUME NEW r \in Runs, Start(r) PROVE TypeOK'
    BY <2>2 DEF Start, GoTo, service, TypeOK
  <2>3. ASSUME NEW r \in Runs, NEW t \in Titles, List(r, t) PROVE TypeOK'
    <3>1. Of(t) \subseteq Dashboard
      BY DEF Of, TypeOK
    <3>2. alone' \in [Runs -> BOOLEAN]
      BY <2>3, Zenon DEF List, TypeOK
    <3> QED
      BY <2>3, <3>1, <3>2 DEF List, Listed, Choose, GoTo, service, TypeOK
  <2>4. ASSUME NEW r \in Runs, NEW t \in Titles, ListFails(r, t) PROVE TypeOK'
    <3>1. Of(t) \subseteq Dashboard
      BY DEF Of, TypeOK
    <3>2. alone' \in [Runs -> BOOLEAN]
      BY <2>4, Zenon DEF ListFails, TypeOK
    <3> QED
      BY <2>4, <3>1, <3>2 DEF ListFails, Choose, GoTo, service, TypeOK
  <2>5. ASSUME NEW r \in Runs, NEW d \in found[r], Delete(r, d) PROVE TypeOK'
    <3>1. d \in Dashboard
      BY DEF TypeOK
    <3>2. remover' \in [Titles -> SUBSET Runs]
      BY <2>5, <3>1 DEF Delete, Dashboard, TypeOK
    <3> QED
      BY <2>5, <3>1, <3>2 DEF Delete, local, TypeOK
  <2>6. ASSUME NEW r \in Runs, NEW d \in found[r], DeleteFails(r, d) PROVE TypeOK'
    <3>1. d \in Dashboard
      BY DEF TypeOK
    <3>2. alone' \in [Runs -> BOOLEAN]
      BY <2>6, Zenon DEF DeleteFails, TypeOK
    <3> QED
      BY <2>6, <3>1, <3>2 DEF DeleteFails, service, local, TypeOK
  <2>7. ASSUME NEW r \in Runs, EndDelete(r) PROVE TypeOK'
    <3>1. 1 \in 1 .. Attempts
      BY LimitsAssumption
    <3> QED
      BY <2>7, <3>1 DEF EndDelete, GoTo, service, TypeOK
  <2>8. ASSUME NEW r \in Runs, NEW d \in searches, Sweep(r, d) PROVE TypeOK'
    BY <2>8 DEF Sweep, local, TypeOK
  <2>9. ASSUME NEW r \in Runs, EndSweep(r) PROVE TypeOK'
    BY <2>9 DEF EndSweep, GoTo, service, local, TypeOK
  <2>10. ASSUME NEW r \in Runs, Imported(r) PROVE TypeOK'
    <3>1. Applied(r) /\ NextTitle(r)
      BY <2>10 DEF Imported
    <3> QED
      BY <2>10, <3>1, AppliedType, NextTitleType DEF Imported, Importing, TypeOK
  <2>11. ASSUME NEW r \in Runs, Refused(r) PROVE TypeOK'
    <3>1. (Applied(r) \/ NotApplied) /\ NextTitle(r) /\ ImportFails(r)
      BY <2>11 DEF Refused, ImportFails
    <3> QED
      BY <2>11, <3>1, AppliedType, NextTitleType, ImportFailsType
         DEF Refused, Importing, TypeOK
  <2>12. ASSUME NEW r \in Runs, Unsettled(r) PROVE TypeOK'
    <3>1. Applied(r) \/ NotApplied
      BY <2>12 DEF Unsettled
    <3>2. CASE AttemptsLeft(r)
      <4>1. attempt' \in [Runs -> 1 .. Attempts]
        BY <2>12, <3>2, LimitsAssumption DEF Unsettled, AttemptsLeft, TypeOK
      <4> QED
        BY <2>12, <3>1, <3>2, <4>1, AppliedType DEF Unsettled, StampAgain, Importing, TypeOK
    <3>3. CASE ~AttemptsLeft(r)
      <4>1. NextTitle(r) /\ ImportFails(r)
        BY <2>12, <3>3 DEF Unsettled, ImportFails
      <4> QED
        BY <2>12, <3>1, <4>1, AppliedType, NextTitleType, ImportFailsType
           DEF Unsettled, Importing, TypeOK
    <3> QED
      BY <3>2, <3>3
  <2>13. ASSUME NEW r \in Runs, Die(r) PROVE TypeOK'
    BY <2>13 DEF Die, GoTo, service, local, TypeOK
  <2>14. CASE UNCHANGED vars
    BY <2>14 DEF vars, service, local, TypeOK
  <2> QED
    BY <2>1, <2>2, <2>3, <2>4, <2>5, <2>6, <2>7, <2>8, <2>9, <2>10, <2>11, <2>12,
       <2>13, <2>14 DEF Next
<1> QED
  BY <1>1, <1>2, PTL DEF Spec

-----------------------------------------------------------------------------
(* Where a run stands *)

\* What a run lists, deletes and imports is of a title that it still has to
\* replace.
StageInv ==
    \A r \in Runs :
        /\ unclean[r] \subseteq todo[r]
        /\ pc[r] \notin {"clean", "delete", "dead"} => unclean[r] = {}
        /\ pc[r] = "start" => todo[r] = {}
        /\ pc[r] \in {"delete", "import"} => title[r] \in todo[r]
        /\ pc[r] = "delete" => \A d \in found[r] : d.title = title[r]

\* What the three outcomes of an import have in common.
LEMMA ImportStep ==
    ASSUME TypeOK, NEW r \in Runs, Imported(r) \/ Refused(r) \/ Unsettled(r)
    PROVE  /\ pc[r] = "import"
           /\ UNCHANGED <<now, unclean, title, found, spared, stamp, gone, remover>>
           /\ Applied(r) \/ (NotApplied /\ ~Imported(r))
           /\ \/ UNCHANGED <<pc, todo, failed>>
              \/ /\ pc' = [pc EXCEPT ![r] =
                             IF TitlesLeft(r) = {} THEN "done" ELSE "list"]
                 /\ todo' = [todo EXCEPT ![r] = @ \ {title[r]}]
                 /\ \/ failed' = [failed EXCEPT ![r] = @ \cup {title[r]}]
                    \/ Applied(r) /\ failed' = failed
<1>1. CASE Imported(r)
  BY <1>1 DEF Imported, Importing, Applied, NextTitle, TitlesLeft, GoTo, TypeOK
<1>2. CASE Refused(r) /\ ~Imported(r)
  BY <1>2 DEF Refused, Importing, Applied, NotApplied, service, ImportFails,
              NextTitle, TitlesLeft, GoTo, TypeOK
<1>3. CASE Unsettled(r) /\ ~Imported(r)
  BY <1>3 DEF Unsettled, Importing, Applied, NotApplied, service, StampAgain,
              ImportFails, NextTitle, TitlesLeft, GoTo, TypeOK
<1> QED
  BY <1>1, <1>2, <1>3

LEMMA StageInvariant == Spec => []StageInv
<1>1. Init => StageInv
  BY DEF Init, StageInv
<1>2. TypeOK /\ StageInv /\ [Next]_vars => StageInv'
  <2> SUFFICES ASSUME TypeOK, StageInv, [Next]_vars PROVE StageInv'
    OBVIOUS
  <2>1. CASE Tick
    BY <2>1 DEF Tick, service, local, StageInv
  <2>2. ASSUME NEW r \in Runs, Start(r) PROVE StageInv'
    BY <2>2 DEF Start, GoTo, StageInv, TypeOK
  <2>3. ASSUME NEW r \in Runs, NEW t \in Titles, List(r, t) \/ ListFails(r, t)
        PROVE  StageInv'
    BY <2>3 DEF List, ListFails, Listed, Of, Choose, GoTo, StageInv, TypeOK
  <2>4. ASSUME NEW r \in Runs, NEW d \in found[r], Delete(r, d) PROVE StageInv'
    BY <2>4 DEF Delete, local, StageInv, TypeOK
  <2>5. ASSUME NEW r \in Runs, NEW d \in found[r], DeleteFails(r, d) PROVE StageInv'
    BY <2>5 DEF DeleteFails, local, StageInv, TypeOK
  <2>6. ASSUME NEW r \in Runs, EndDelete(r) PROVE StageInv'
    BY <2>6 DEF EndDelete, GoTo, StageInv, TypeOK
  <2>7. ASSUME NEW r \in Runs, NEW d \in searches, Sweep(r, d) PROVE StageInv'
    BY <2>7 DEF Sweep, local, StageInv
  <2>8. ASSUME NEW r \in Runs, EndSweep(r) PROVE StageInv'
    BY <2>8 DEF EndSweep, GoTo, local, StageInv, TypeOK
  <2>9. ASSUME NEW r \in Runs, Imported(r) \/ Refused(r) \/ Unsettled(r) PROVE StageInv'
    <3>1. \A q \in Runs : q # r => todo'[q] = todo[q] /\ pc'[q] = pc[q]
      BY <2>9, ImportStep DEF TypeOK
    <3>2. unclean[r] = {}
      BY <2>9, ImportStep DEF StageInv
    <3> QED
      BY <2>9, <3>1, <3>2, ImportStep DEF StageInv, TypeOK
  <2>10. ASSUME NEW r \in Runs, Die(r) PROVE StageInv'
    BY <2>10 DEF Die, GoTo, local, StageInv, TypeOK
  <2>11. CASE UNCHANGED vars
    BY <2>11 DEF vars, service, local, StageInv
  <2> QED
    BY <2>1, <2>2, <2>3, <2>4, <2>5, <2>6, <2>7, <2>8, <2>9, <2>10, <2>11 DEF Next
<1> QED
  BY <1>1, <1>2, DeployTypeCorrect, PTL DEF Spec

-----------------------------------------------------------------------------
(* No title is lost unnoticed *)

\* LossIsAccounted: the run that deleted the last dashboard of a title is
\* still to import one, printed a failure, or was killed.
THEOREM LossesAreAccounted == Spec => []LossIsAccounted
<1>1. Init => LossIsAccounted
  BY DEF Init, LossIsAccounted
<1>2. TypeOK /\ StageInv /\ LossIsAccounted /\ [Next]_vars => LossIsAccounted'
  <2> SUFFICES ASSUME TypeOK, StageInv, LossIsAccounted, [Next]_vars
               PROVE  LossIsAccounted'
    OBVIOUS
  <2>1. CASE Tick
    BY <2>1 DEF Tick, service, local, LossIsAccounted, Accountable, Of
  <2>2. ASSUME NEW r \in Runs, Start(r) PROVE LossIsAccounted'
    <3>1. \A t \in Titles : ~(t \in todo[r])
      BY <2>2 DEF Start, StageInv
    <3>2. \A q \in Runs : q # r => todo'[q] = todo[q]
      BY <2>2 DEF Start, TypeOK
    <3>3. \A q \in Runs, t \in Titles : Accountable(q, t) => Accountable(q, t)'
      BY <2>2, <3>1, <3>2 DEF Start, GoTo, Accountable, TypeOK
    <3> QED
      BY <2>2, <3>3 DEF Start, service, LossIsAccounted, Of, TypeOK
  <2>3. ASSUME NEW r \in Runs, NEW t \in Titles, List(r, t) \/ ListFails(r, t)
        PROVE  LossIsAccounted'
    <3>1. \A q \in Runs, u \in Titles : Accountable(q, u) => Accountable(q, u)'
      BY <2>3 DEF List, ListFails, Choose, GoTo, Accountable, TypeOK
    <3> QED
      BY <2>3, <3>1 DEF List, ListFails, Choose, service, LossIsAccounted, Of, TypeOK
  <2>4. ASSUME NEW r \in Runs, NEW d \in found[r], Delete(r, d) PROVE LossIsAccounted'
    <3>1. d.title = title[r] /\ title[r] \in todo[r] /\ d.title \in Titles
      BY <2>4 DEF Delete, StageInv, TypeOK, Dashboard
    <3>2. \A q \in Runs, t \in Titles : Accountable(q, t)' = Accountable(q, t)
      BY <2>4 DEF Delete, local, Accountable
    <3> SUFFICES ASSUME NEW t \in Titles, Of(t)' = {}, NEW q \in remover'[t]
                 PROVE  Accountable(q, t)'
      BY DEF LossIsAccounted
    <3>3. CASE t = d.title /\ d \in live
      <4>1. q = r
        BY <2>4, <3>1, <3>3 DEF Delete, TypeOK
      <4> QED
        BY <3>1, <3>3, <4>1, <2>4 DEF Accountable, Delete, local
    <3>4. CASE ~(t = d.title /\ d \in live)
      <4>1. Of(t) = {} /\ remover'[t] = remover[t]
        BY <2>4, <3>4 DEF Delete, Of, TypeOK
      <4>2. q \in Runs
        BY <4>1 DEF TypeOK
      <4> QED
        BY <3>2, <4>1, <4>2 DEF LossIsAccounted
    <3> QED
      BY <3>3, <3>4
  <2>5. ASSUME NEW r \in Runs, NEW d \in found[r], DeleteFails(r, d) PROVE LossIsAccounted'
    BY <2>5 DEF DeleteFails, service, local, LossIsAccounted, Accountable, Of
  <2>6. ASSUME NEW r \in Runs, EndDelete(r) PROVE LossIsAccounted'
    <3>1. \A q \in Runs, t \in Titles : Accountable(q, t) => Accountable(q, t)'
      BY <2>6 DEF EndDelete, GoTo, Accountable, TypeOK
    <3> QED
      BY <2>6, <3>1 DEF EndDelete, service, LossIsAccounted, Of, TypeOK
  <2>7. ASSUME NEW r \in Runs, NEW d \in searches, Sweep(r, d) PROVE LossIsAccounted'
    BY <2>7 DEF Sweep, local, LossIsAccounted, Accountable, Of
  <2>8. ASSUME NEW r \in Runs, EndSweep(r) PROVE LossIsAccounted'
    <3>1. \A q \in Runs, t \in Titles : Accountable(q, t) => Accountable(q, t)'
      BY <2>8 DEF EndSweep, GoTo, local, Accountable, TypeOK
    <3> QED
      BY <2>8, <3>1 DEF EndSweep, service, LossIsAccounted, Of, TypeOK
  <2>9. ASSUME NEW r \in Runs, Imported(r) \/ Refused(r) \/ Unsettled(r) PROVE LossIsAccounted'
    <3>1. live \subseteq live' /\ remover' = remover /\ pc[r] = "import"
      BY <2>9, ImportStep DEF Applied, NotApplied, service
    <3>2. \A q \in Runs, t \in Titles :
            Accountable(q, t) => Accountable(q, t)' \/ (q = r /\ t = title[r])
      BY <2>9, <3>1, ImportStep DEF Accountable, TypeOK
    <3> SUFFICES ASSUME NEW t \in Titles, Of(t)' = {}, NEW q \in remover'[t]
                 PROVE  Accountable(q, t)'
      BY DEF LossIsAccounted
    <3>3. Of(t) = {}
      BY <3>1 DEF Of
    <3>4. q \in Runs /\ Accountable(q, t)
      BY <3>1, <3>3 DEF LossIsAccounted, TypeOK
    <3>5. CASE q = r /\ t = title[r]
      <4>1. ~Applied(r)
        BY <3>5 DEF Applied, Own, Of
      <4>2. title[r] \in todo[r]
        BY <3>1 DEF StageInv
      <4>3. title[r] \in todo'[r] \/ title[r] \in failed'[r]
        BY <2>9, <4>1, <4>2, ImportStep DEF TypeOK
      <4> QED
        BY <3>5, <4>3 DEF Accountable
    <3> QED
      BY <3>2, <3>4, <3>5
  <2>10. ASSUME NEW r \in Runs, Die(r) PROVE LossIsAccounted'
    <3>1. \A q \in Runs, t \in Titles : Accountable(q, t) => Accountable(q, t)'
      BY <2>10 DEF Die, GoTo, local, Accountable, TypeOK
    <3> QED
      BY <2>10, <3>1 DEF Die, service, LossIsAccounted, Of, TypeOK
  <2>11. CASE UNCHANGED vars
    BY <2>11 DEF vars, service, local, LossIsAccounted, Accountable, Of
  <2> QED
    BY <2>1, <2>2, <2>3, <2>4, <2>5, <2>6, <2>7, <2>8, <2>9, <2>10, <2>11 DEF Next
<1> QED
  BY <1>1, <1>2, DeployTypeCorrect, StageInvariant, PTL DEF Spec

-----------------------------------------------------------------------------
(* One dashboard replaces all *)

\* While a run that nothing interfered with deletes, it has listed all
\* dashboards of its title; when it imports, there is at most its own.
SoleInv ==
    \A r \in Runs : alone[r] =>
        /\ pc[r] = "delete" => Of(title[r]) \subseteq found[r]
        /\ pc[r] = "import" => Of(title[r]) \subseteq {Own(r)}

\* An import disturbs no run that stays alone.
LEMMA ImportDisturbsNone ==
    ASSUME TypeOK, NEW r \in Runs, Applied(r), NEW q \in Runs, alone'[q],
           title' = title, q # r
    PROVE  alone[q] /\ Of(title[q])' = Of(title[q])
<1>1. alone[q] /\ title[q] # title[r]
  BY DEF Applied
<1>2. Own(r).title = title[r]
  BY DEF Own
<1> QED
  BY <1>1, <1>2 DEF Applied, Of

LEMMA SoleInvariant == Spec => []SoleInv
<1>1. Init => SoleInv
  BY DEF Init, SoleInv
<1>2. TypeOK /\ StageInv /\ SoleInv /\ [Next]_vars => SoleInv'
  <2> SUFFICES ASSUME TypeOK, StageInv, SoleInv, [Next]_vars PROVE SoleInv'
    OBVIOUS
  <2>1. CASE Tick
    BY <2>1 DEF Tick, service, local, SoleInv, Of, Own
  <2>2. ASSUME NEW r \in Runs, Start(r) PROVE SoleInv'
    BY <2>2 DEF Start, GoTo, service, SoleInv, Of, Own, TypeOK
  <2>3. ASSUME NEW r \in Runs, NEW t \in Titles, List(r, t) \/ ListFails(r, t)
        PROVE  SoleInv'
    <3>1. pc' = [pc EXCEPT ![r] = "delete"] /\ title' = [title EXCEPT ![r] = t]
          /\ live' = live /\ stamp' = stamp
      BY <2>3 DEF List, ListFails, Choose, GoTo, service
    <3>2. alone'[r] => found'[r] = Of(t)
      BY <2>3 DEF List, ListFails, Listed, TypeOK
    <3>3. \A q \in Runs : q # r => alone'[q] = alone[q] /\ found'[q] = found[q]
      BY <2>3 DEF List, ListFails, TypeOK
    <3> QED
      BY <3>1, <3>2, <3>3 DEF SoleInv, Of, Own, TypeOK
  <2>4. ASSUME NEW r \in Runs, NEW d \in found[r], Delete(r, d) PROVE SoleInv'
    BY <2>4 DEF Delete, local, SoleInv, Of, Own, TypeOK
  <2>5. ASSUME NEW r \in Runs, NEW d \in found[r], DeleteFails(r, d) PROVE SoleInv'
    BY <2>5 DEF DeleteFails, service, local, SoleInv, Of, Own, TypeOK
  <2>6. ASSUME NEW r \in Runs, EndDelete(r) PROVE SoleInv'
    <3>1. \A q \in Runs : q # r => pc'[q] = pc[q] /\ stamp'[q] = stamp[q]
      BY <2>6 DEF EndDelete, GoTo, TypeOK
    <3>2. pc'[r] \in {"import", "sweep", "clean"} /\ pc[r] = "delete" /\ found[r] = {}
      BY <2>6 DEF EndDelete, GoTo, TypeOK
    <3>3. UNCHANGED <<live, title, found, alone>>
      BY <2>6 DEF EndDelete, service
    <3> QED
      BY <3>1, <3>2, <3>3 DEF SoleInv, Of, Own
  <2>7. ASSUME NEW r \in Runs, NEW d \in searches, Sweep(r, d) PROVE SoleInv'
    BY <2>7 DEF Sweep, local, SoleInv, Of, Own
  <2>8. ASSUME NEW r \in Runs, EndSweep(r) PROVE SoleInv'
    BY <2>8 DEF EndSweep, GoTo, service, local, SoleInv, Of, Own, TypeOK
  <2>9. ASSUME NEW r \in Runs, Imported(r) \/ Refused(r) \/ Unsettled(r) PROVE SoleInv'
    <3>1. \A q \in Runs : q # r => pc'[q] = pc[q]
      BY <2>9, ImportStep DEF TypeOK
    <3>2. /\ pc[r] = "import" /\ pc'[r] \in {"import", "list", "done"}
          /\ UNCHANGED <<title, found, stamp>>
      BY <2>9, ImportStep DEF TypeOK
    <3>3. CASE Applied(r)
      <4>1. \A q \in Runs : q # r /\ alone'[q] => alone[q] /\ Of(title[q])' = Of(title[q])
        BY <3>2, <3>3, ImportDisturbsNone
      <4>2. alone'[r] => alone[r]
        BY <3>3 DEF Applied
      <4>3. Of(title[r])' \subseteq Of(title[r]) \cup {Own(r)}
        BY <3>2, <3>3 DEF Applied, Of
      <4> QED
        BY <3>1, <3>2, <4>1, <4>2, <4>3 DEF SoleInv, Own
    <3>4. CASE NotApplied
      BY <3>1, <3>2, <3>4 DEF NotApplied, service, SoleInv, Of, Own
    <3> QED
      BY <2>9, <3>3, <3>4, ImportStep
  <2>10. ASSUME NEW r \in Runs, Die(r) PROVE SoleInv'
    BY <2>10 DEF Die, GoTo, service, local, SoleInv, Of, Own, TypeOK
  <2>11. CASE UNCHANGED vars
    BY <2>11 DEF vars, service, local, SoleInv, Of, Own
  <2> QED
    BY <2>1, <2>2, <2>3, <2>4, <2>5, <2>6, <2>7, <2>8, <2>9, <2>10, <2>11 DEF Next
<1> QED
  BY <1>1, <1>2, DeployTypeCorrect, StageInvariant, PTL DEF Spec

\* ReplacedByOne: an undisturbed run leaves one dashboard of the title.
THEOREM OneReplacesAll == Spec => ReplacedByOne
<1>1. TypeOK /\ SoleInv /\ [Next]_vars =>
        [\A r \in Runs : Imported(r) /\ alone[r] =>
           {d \in live' : d.title = title[r]} = {Own(r)}]_vars
  <2> SUFFICES ASSUME TypeOK, SoleInv, NEW r \in Runs, Imported(r), alone[r]
               PROVE  {d \in live' : d.title = title[r]} = {Own(r)}
    OBVIOUS
  <2>1. pc[r] = "import" /\ live' = live \cup {Own(r)}
    BY DEF Imported, Importing, Applied
  <2>2. Of(title[r]) \subseteq {Own(r)}
    BY <2>1 DEF SoleInv
  <2>3. Own(r).title = title[r]
    BY DEF Own
  <2> QED
    BY <2>1, <2>2, <2>3 DEF Of
<1> QED
  BY <1>1, DeployTypeCorrect, SoleInvariant, PTL DEF Spec, ReplacedByOne

-----------------------------------------------------------------------------
(* No dashboard stays without its saved searches *)

\* The run that stripped a dashboard was killed, or has its title before it:
\* it has not listed it, or has listed this dashboard too.
Pending(r, d) ==
    \/ pc[r] = "dead"
    \/ /\ d.title \in todo[r]
       /\ pc[r] = "delete" /\ title[r] = d.title => d \in found[r]
       /\ pc[r] = "import" => title[r] # d.title

StripInv ==
    \A d \in live \ searches :
        d \in spared \/ \E s \in stripped : s.dashboard = d /\ Pending(s.by, d)

\* A step that makes no other dashboard bare, and leaves what is pending so.
LEMMA StripKept ==
    ASSUME TypeOK, StripInv,
           live' \ searches' \subseteq live \ searches,
           spared \subseteq spared',
           \A s \in stripped : s.dashboard \in live' \ searches' => s \in stripped',
           \A r \in Runs, d \in live' \ searches' :
              Pending(r, d) => Pending(r, d)' \/ d \in spared'
    PROVE  StripInv'
<1> SUFFICES ASSUME NEW d \in live' \ searches', d \notin spared'
             PROVE  \E s \in stripped' : s.dashboard = d /\ Pending(s.by, d)'
  BY DEF StripInv
<1>1. PICK s \in stripped : s.dashboard = d /\ Pending(s.by, d)
  BY DEF StripInv
<1>2. s.by \in Runs /\ s \in stripped'
  BY <1>1 DEF TypeOK
<1>3. Pending(s.by, d)'
  BY <1>1, <1>2
<1> QED
  BY <1>1, <1>2, <1>3

LEMMA StripInvariant == Spec => []StripInv
<1>1. Init => StripInv
  BY DEF Init, StripInv
<1>2. TypeOK /\ StageInv /\ StripInv /\ [Next]_vars => StripInv'
  <2> SUFFICES ASSUME TypeOK, StageInv, StripInv, [Next]_vars PROVE StripInv'
    OBVIOUS
  <2>1. CASE Tick
    BY <2>1 DEF Tick, service, local, StripInv, Pending
  <2>2. ASSUME NEW r \in Runs, Start(r) PROVE StripInv'
    <3>1. \A q \in Runs, d \in live : Pending(q, d) => Pending(q, d)'
      BY <2>2 DEF Start, GoTo, StageInv, Pending, TypeOK
    <3> QED
      BY <2>2, <3>1, StripKept DEF Start, service
  <2>3. ASSUME NEW r \in Runs, NEW t \in Titles, List(r, t) \/ ListFails(r, t)
        PROVE  StripInv'
    <3>1. ASSUME NEW q \in Runs, NEW d \in live, Pending(q, d)
          PROVE  Pending(q, d)' \/ d \in spared'
      <4>1. CASE q # r
        BY <2>3, <3>1, <4>1 DEF List, ListFails, Choose, GoTo, Pending, TypeOK
      <4>2. CASE q = r /\ List(r, t)
        BY <3>1, <4>2 DEF List, Listed, Of, Choose, GoTo, Pending, TypeOK
      <4>3. CASE q = r /\ ListFails(r, t)
        BY <3>1, <4>3 DEF ListFails, Of, Choose, GoTo, Pending, TypeOK
      <4> QED
        BY <2>3, <4>1, <4>2, <4>3
    <3>2. UNCHANGED service /\ spared \subseteq spared'
      BY <2>3 DEF List, ListFails, Choose
    <3> QED
      BY <3>1, <3>2, StripKept DEF service
  <2>4. ASSUME NEW r \in Runs, NEW d \in found[r], Delete(r, d) PROVE StripInv'
    <3>1. \A q \in Runs, e \in live' : Pending(q, e) => Pending(q, e)'
      BY <2>4 DEF Delete, local, Pending, TypeOK
    <3> QED
      BY <2>4, <3>1, StripKept DEF Delete
  <2>5. ASSUME NEW r \in Runs, NEW d \in found[r], DeleteFails(r, d) PROVE StripInv'
    <3>1. \A q \in Runs, e \in live : Pending(q, e) => Pending(q, e)' \/ e \in spared'
      BY <2>5 DEF DeleteFails, local, Pending, TypeOK
    <3> QED
      BY <2>5, <3>1, StripKept DEF DeleteFails, service
  <2>6. ASSUME NEW r \in Runs, EndDelete(r) PROVE StripInv'
    <3>1. pc[r] = "delete" /\ found[r] = {} /\ UNCHANGED <<title, todo, found>>
      BY <2>6 DEF EndDelete
    <3>2. pc' = [pc EXCEPT ![r] = pc'[r]] /\ pc'[r] # "delete"
      BY <2>6 DEF EndDelete, GoTo, TypeOK
    <3>3. \A q \in Runs, d \in live : Pending(q, d) => Pending(q, d)'
      BY <3>1, <3>2 DEF Pending, TypeOK
    <3> QED
      BY <2>6, <3>3, StripKept DEF EndDelete, service
  <2>7. ASSUME NEW r \in Runs, NEW d \in searches, Sweep(r, d) PROVE StripInv'
    <3> SUFFICES ASSUME NEW e \in live' \ searches', e \notin spared'
                 PROVE  \E s \in stripped' : s.dashboard = e /\ Pending(s.by, e)'
      BY DEF StripInv
    <3>1. \A q, x : Pending(q, x)' = Pending(q, x)
      BY <2>7 DEF Sweep, local, Pending
    <3>2. CASE e = d
      <4>1. Pending(r, d)
        BY <2>7 DEF Sweep, Swept, Pending
      <4> DEFINE s == [dashboard |-> d, by |-> r]
      <4>2. s \in stripped' /\ s.dashboard = e /\ s.by = r
        BY <2>7, <3>2 DEF Sweep
      <4> QED
        BY <3>1, <3>2, <4>1, <4>2
    <3>3. CASE e # d
      <4>1. e \in live \ searches /\ e \notin spared /\ stripped \subseteq stripped'
        BY <2>7, <3>3 DEF Sweep
      <4> QED
        BY <3>1, <4>1 DEF StripInv
    <3> QED
      BY <3>2, <3>3
  <2>8. ASSUME NEW r \in Runs, EndSweep(r) PROVE StripInv'
    <3>1. \A q \in Runs, d \in live : Pending(q, d) => Pending(q, d)'
      BY <2>8 DEF EndSweep, GoTo, local, Pending, TypeOK
    <3> QED
      BY <2>8, <3>1, StripKept DEF EndSweep, service
  <2>9. ASSUME NEW r \in Runs, Imported(r) \/ Refused(r) \/ Unsettled(r) PROVE StripInv'
    <3>1. \A q \in Runs : q # r => pc'[q] = pc[q] /\ todo'[q] = todo[q]
      BY <2>9, ImportStep DEF TypeOK
    <3>2. /\ pc[r] = "import" /\ pc'[r] \in {"import", "list", "done"}
          /\ UNCHANGED <<title, found, spared>>
      BY <2>9, ImportStep DEF TypeOK
    <3>3. todo'[r] = todo[r] \/ todo'[r] = todo[r] \ {title[r]}
      BY <2>9, ImportStep DEF TypeOK
    <3>4. \A q \in Runs, d \in live' : Pending(q, d) => Pending(q, d)'
      BY <3>1, <3>2, <3>3 DEF Pending
    <3>5. /\ live' \ searches' \subseteq live \ searches
          /\ \A s \in stripped : s.dashboard \in live' \ searches' => s \in stripped'
      <4>1. CASE Applied(r)
        BY <4>1 DEF Applied
      <4>2. CASE NotApplied
        BY <4>2 DEF NotApplied, service
      <4> QED
        BY <2>9, <4>1, <4>2, ImportStep
    <3> QED
      BY <3>2, <3>4, <3>5, StripKept
  <2>10. ASSUME NEW r \in Runs, Die(r) PROVE StripInv'
    <3>1. \A q \in Runs, d \in live : Pending(q, d) => Pending(q, d)'
      BY <2>10 DEF Die, GoTo, local, Pending, TypeOK
    <3> QED
      BY <2>10, <3>1, StripKept DEF Die, service
  <2>11. CASE UNCHANGED vars
    BY <2>11 DEF vars, service, local, StripInv, Pending
  <2> QED
    BY <2>1, <2>2, <2>3, <2>4, <2>5, <2>6, <2>7, <2>8, <2>9, <2>10, <2>11 DEF Next
<1> QED
  BY <1>1, <1>2, DeployTypeCorrect, StageInvariant, PTL DEF Spec

\* NoDashboardLeftStripped: whoever deletes saved searches replaces the
\* dashboards that show them, unless their deletion fails or it is killed.
THEOREM NoneLeftStripped == Spec => []NoDashboardLeftStripped
<1>1. StripInv => NoDashboardLeftStripped
  BY DEF StripInv, Pending, NoDashboardLeftStripped
<1> QED
  BY <1>1, StripInvariant, PTL
=============================================================================
