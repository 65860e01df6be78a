------------------------- MODULE WazuhBridge_proofs -------------------------
(***************************************************************************)
(* Proofs about WazuhBridge, for any documents, page size, batch size and  *)
(* schedule that its assumptions allow.                                    *)
(***************************************************************************)
EXTENDS WazuhBridge, FiniteSetTheorems, WellFoundedInduction, TLAPS

-----------------------------------------------------------------------------
(* The first documents of a set *)

LEMMA FirstIsPart == \A n, S : First(n, S) \subseteq S
BY DEF First

\* What comes before one of the first documents is one of them too.
LEMMA FirstIsClosed ==
    ASSUME NEW n \in Nat, NEW S, S \subseteq Docs,
           NEW d \in First(n, S), NEW e \in S, e <= d
    PROVE  e \in First(n, S)
<1> DEFINE before(x) == {y \in S : y < x}
<1>1. d \in Nat /\ e \in Nat
  BY FirstIsPart, DocumentsAssumption
<1>2. before(e) \subseteq before(d)
  <2>1. S \subseteq Nat
    BY DocumentsAssumption
  <2>2. \A x \in Nat : x < e => x < d
    BY <1>1
  <2> QED
    BY <2>1, <2>2
<1>3. IsFiniteSet(before(d))
  <2>1. before(d) \subseteq Docs
    OBVIOUS
  <2> QED
    BY <2>1, DocumentsAssumption, FS_Subset, Zenon
<1>4. Cardinality(before(e)) <= Cardinality(before(d))
  BY <1>2, <1>3, FS_Subset, Zenon
<1>5. Cardinality(before(d)) \in Nat /\ Cardinality(before(e)) \in Nat
  BY <1>2, <1>3, FS_Subset, FS_CardinalityType, Zenon
<1>6. Cardinality(before(d)) < n
  BY DEF First
<1>7. Cardinality(before(e)) < n
  BY <1>4, <1>5, <1>6
<1> QED
  BY <1>7 DEF First

-----------------------------------------------------------------------------
(* Types *)

LEMMA LeaveCodes ==
    ASSUME NEW code \in 0 .. 2, TypeOK, Leave(code)
    PROVE  /\ pc' \in {"waiting", "read", "upload"}
           /\ exit' \in 0 .. 2
           /\ excused' \subseteq indexed
           /\ excused \subseteq excused'
BY DEF Leave, TypeOK

LEMMA BatchIsPart == \A s : Batch(s) \subseteq left
BY FirstIsPart DEF Batch

LEMMA NextBatchType ==
    ASSUME TypeOK, NEW s, NextBatch(s)
    PROVE  left' \subseteq got /\ attempt' \in 1 .. MaxRetries
BY LimitsAssumption DEF TypeOK, NextBatch

THEOREM BridgeTypeCorrect == Spec => []TypeOK
<1>1. Init => TypeOK
  <2>1. 1 \in 1 .. MaxRetries
    BY LimitsAssumption
  <2>2. Init => pit \in BOOLEAN
    BY Zenon DEF Init
  <2> QED
    BY <2>1, <2>2 DEF Init, TypeOK
<1>2. TypeOK /\ [Next]_vars => TypeOK'
  <2> SUFFICES ASSUME TypeOK, [Next]_vars PROVE TypeOK'
    OBVIOUS
  <2>1. CASE Tick
    BY <2>1, LimitsAssumption DEF Tick, TypeOK, run
  <2>2. CASE Start
    BY <2>2, LimitsAssumption DEF Start, TypeOK
  <2>3. CASE ReadPage
    <3>1. Matching \subseteq indexed
      BY DEF Matching, TypeOK
    <3>2. First(PageSize, Matching) \subseteq indexed
      BY <3>1, FirstIsPart
    <3> QED
      BY <2>3, <3>2 DEF ReadPage, TypeOK
  <2>4. CASE EndOfPages
    <3>1. CASE got = {}
      <4>1. Leave(0)
        BY <2>4, <3>1 DEF EndOfPages
      <4>2. /\ pc' \in {"waiting", "read", "upload"} /\ exit' \in 0 .. 2
            /\ excused' \subseteq indexed
        BY <4>1, LeaveCodes
      <4> QED
        BY <2>4, <4>2 DEF EndOfPages, TypeOK
    <3>2. CASE got # {}
      BY <2>4, <3>2 DEF EndOfPages, TypeOK
    <3> QED
      BY <3>1, <3>2
  <2>5. CASE Raise
    <3>1. /\ pc' \in {"waiting", "read", "upload"} /\ exit' \in 0 .. 2
          /\ excused' \subseteq indexed
      BY <2>5, LeaveCodes DEF Raise
    <3> QED
      BY <2>5, <3>1 DEF Raise, TypeOK, run
  <2>6. ASSUME NEW s \in Sources, UploadSucceeds(s) PROVE TypeOK'
    <3>1. left' \subseteq got /\ attempt' \in 1 .. MaxRetries
      BY <2>6, NextBatchType DEF UploadSucceeds
    <3>2. Batch(s) \subseteq indexed
      BY BatchIsPart DEF TypeOK
    <3> QED
      BY <2>6, <3>1, <3>2 DEF UploadSucceeds, Uploading, TypeOK
  <2>7. ASSUME NEW s \in Sources, UploadRefused(s) PROVE TypeOK'
    <3>1. left' \subseteq got /\ attempt' \in 1 .. MaxRetries
      BY <2>7, NextBatchType DEF UploadRefused
    <3> QED
      BY <2>7, <3>1 DEF UploadRefused, Uploading, SourceFails, TypeOK
  <2>8. ASSUME NEW s \in Sources, UploadUnsettled(s) PROVE TypeOK'
    <3>1. left' \subseteq got /\ attempt' \in 1 .. MaxRetries
      <4>1. CASE RetriesLeft
        BY <2>8, <4>1, LimitsAssumption DEF UploadUnsettled, RetriesLeft, TypeOK
      <4>2. CASE ~RetriesLeft
        BY <2>8, <4>2, NextBatchType DEF UploadUnsettled
      <4> QED
        BY <4>1, <4>2
    <3>2. failed' \subseteq Sources
      BY <2>8 DEF UploadUnsettled, SourceFails, TypeOK
    <3>3. Batch(s) \subseteq indexed
      BY BatchIsPart DEF TypeOK
    <3>4. stored' \subseteq indexed
      BY <2>8, <3>3 DEF UploadUnsettled, TypeOK
    <3> QED
      BY <2>8, <3>1, <3>2, <3>4 DEF Uploading, UploadUnsettled, TypeOK
  <2>9. CASE Finish
    <3>1. /\ pc' \in {"waiting", "read", "upload"} /\ exit' \in 0 .. 2
          /\ excused' \subseteq indexed
      BY <2>9, LeaveCodes DEF Finish
    <3> QED
      BY <2>9, <3>1 DEF Finish, TypeOK, run
  <2>10. CASE \E d \in Docs : Index(d)
    <3>1. PICK d \in Docs : Index(d)
      BY <2>10
    <3> QED
      BY <3>1 DEF Index, TypeOK, run
  <2>11. CASE UNCHANGED vars
    BY <2>11 DEF vars, run, TypeOK
  <2> QED
    BY <2>1, <2>2, <2>3, <2>4, <2>5, <2>6, <2>7, <2>8, <2>9, <2>10, <2>11 DEF Next, Upload
<1> QED
  BY <1>1, <1>2, PTL DEF Spec

-----------------------------------------------------------------------------
(* Reading: the cursor leaves behind no document of the start that is in    *)
(* the window.                                                             *)

ReadInv ==
    pc = "read" =>
        /\ \A d \in atStart : d <= cursor /\ InWindow(d) => d \in got
        /\ pit => got \subseteq atStart

\* A later page's window is not wider.
LEMMA WindowOnlyShrinks ==
    ASSUME TypeOK, now' \in Nat, now <= now', NEW d \in Docs, InWindow(d)'
    PROVE  InWindow(d)
BY DocumentsAssumption, LimitsAssumption DEF InWindow, TypeOK

LEMMA PageIsExact ==
    ASSUME TypeOK, ReadInv, ReadPage
    PROVE  ReadInv'
<1> DEFINE hits == First(PageSize, Matching)
<1>1. Matching \subseteq indexed
  BY DEF Matching, TypeOK
<1>2. hits \subseteq Matching
  BY FirstIsPart
<1>3. /\ pc = "read" /\ got' = got \cup hits
      /\ UNCHANGED <<now, indexed, pc, atStart, pit>>
  BY DEF ReadPage
<1>4. PICK last \in hits : (\A h \in hits : h <= last) /\ cursor' = last
  BY DEF ReadPage
<1>5. ASSUME NEW d \in atStart, d <= last, InWindow(d) PROVE d \in got \cup hits
  <2>1. CASE d <= cursor
    BY <2>1, <1>3, <1>5 DEF ReadInv
  <2>2. CASE ~(d <= cursor)
    <3>1. cursor < d
      BY <2>2, DocumentsAssumption DEF TypeOK
    <3>2. d \in Matching
      BY <1>5, <3>1 DEF Matching, After, TypeOK
    <3>3. Matching \subseteq Docs
      BY <1>1 DEF TypeOK
    <3> QED
      BY <1>5, <3>2, <3>3, LimitsAssumption, FirstIsClosed
  <2> QED
    BY <2>1, <2>2
<1>6. pit => hits \subseteq atStart
  BY <1>2 DEF Matching
<1>7. pit => got \cup hits \subseteq atStart
  BY <1>3, <1>6 DEF ReadInv
<1>8. \A d \in atStart : d <= last /\ Timestamp[d] + Lookback >= now => d \in got \cup hits
  BY <1>5 DEF InWindow
<1> QED
  BY <1>3, <1>4, <1>7, <1>8 DEF ReadInv, InWindow

LEMMA ReadInvariant == Spec => []ReadInv
<1>1. Init => ReadInv
  BY DEF Init, ReadInv
<1>2. TypeOK /\ ReadInv /\ [Next]_vars => ReadInv'
  <2> SUFFICES ASSUME TypeOK, ReadInv, [Next]_vars PROVE ReadInv'
    OBVIOUS
  <2>1. CASE Tick
    <3> SUFFICES ASSUME pc = "read"
                 PROVE  /\ \A d \in atStart : d <= cursor /\ InWindow(d)' => d \in got
                        /\ pit => got \subseteq atStart
      BY <2>1 DEF Tick, run, ReadInv, InWindow
    <3>1. now' \in Nat /\ now <= now'
      BY <2>1 DEF Tick, TypeOK
    <3>2. \A d \in atStart : InWindow(d)' => InWindow(d)
      BY <3>1, WindowOnlyShrinks DEF TypeOK
    <3> QED
      BY <3>2 DEF ReadInv
  <2>2. CASE Start
    <3> SUFFICES ASSUME NEW d \in atStart', d <= cursor' PROVE FALSE
      BY <2>2 DEF Start, ReadInv
    <3>1. d \in Docs /\ cursor' = 0
      BY <2>2 DEF Start, TypeOK
    <3> QED
      BY <3>1, DocumentsAssumption
  <2>3. CASE ReadPage
    BY <2>3, PageIsExact
  <2>4. CASE EndOfPages
    BY <2>4 DEF EndOfPages, Leave, ReadInv
  <2>5. CASE Raise
    BY <2>5 DEF Raise, Leave, ReadInv
  <2>6. ASSUME NEW s \in Sources,
               UploadSucceeds(s) \/ UploadRefused(s) \/ UploadUnsettled(s)
        PROVE  ReadInv'
    BY <2>6 DEF UploadSucceeds, UploadRefused, UploadUnsettled, Uploading, ReadInv
  <2>7. CASE Finish
    BY <2>7 DEF Finish, Leave, ReadInv
  <2>8. ASSUME NEW d \in Docs, Index(d) PROVE ReadInv'
    BY <2>8 DEF Index, run, ReadInv, InWindow
  <2>9. CASE UNCHANGED vars
    BY <2>9 DEF vars, run, ReadInv, InWindow
  <2> QED
    BY <2>1, <2>2, <2>3, <2>4, <2>5, <2>6, <2>7, <2>8, <2>9 DEF Next, Upload
<1> QED
  BY <1>1, <1>2, BridgeTypeCorrect, PTL DEF Spec

\* ReadIsExact: however the pages fall and whatever is indexed meanwhile,
\* reading ends only when every document of the start that is still in the
\* window was read.
THEOREM ReadingIsExact == Spec => ReadIsExact
<1>1. TypeOK /\ ReadInv /\ [Next]_vars =>
        [EndOfPages =>
           /\ {d \in atStart : Timestamp[d] + Lookback >= now} \subseteq got
           /\ pit => got \subseteq atStart]_vars
  <2> SUFFICES ASSUME TypeOK, ReadInv, EndOfPages
               PROVE  /\ {d \in atStart : Timestamp[d] + Lookback >= now} \subseteq got
                      /\ pit => got \subseteq atStart
    OBVIOUS
  <2>1. ASSUME NEW d \in atStart, Timestamp[d] + Lookback >= now PROVE d \in got
    <3>1. InWindow(d) /\ d \in indexed
      BY <2>1 DEF InWindow, TypeOK
    <3>2. ~After(d)
      BY <2>1, <3>1 DEF EndOfPages, Matching
    <3>3. d \in Nat /\ cursor \in Nat
      BY <3>1, DocumentsAssumption DEF TypeOK
    <3>4. d <= cursor
      BY <3>2, <3>3 DEF After
    <3> QED
      BY <2>1, <3>1, <3>4 DEF ReadInv, EndOfPages
  <2>2. pit => got \subseteq atStart
    BY DEF ReadInv, EndOfPages
  <2> QED
    BY <2>1, <2>2
<1> QED
  BY <1>1, BridgeTypeCorrect, ReadInvariant, PTL DEF Spec, ReadIsExact

-----------------------------------------------------------------------------
(* Uploading: what a run read is stored, left, or of a failed source.      *)

UploadInv ==
    /\ pc = "upload" =>
         \A d \in got : d \in stored \/ d \in left \/ SourceOf[d] \in failed
    /\ ExitIsTruthful

LEMMA BatchOfSource == \A s : \A d \in Batch(s) : SourceOf[d] = s
BY FirstIsPart DEF Batch

LEMMA UploadInvariant == Spec => []UploadInv
<1>1. Init => UploadInv
  BY DEF Init, UploadInv, ExitIsTruthful
<1>2. TypeOK /\ UploadInv /\ [Next]_vars => UploadInv'
  <2> SUFFICES ASSUME TypeOK, UploadInv, [Next]_vars PROVE UploadInv'
    OBVIOUS
  <2>1. CASE Tick
    BY <2>1 DEF Tick, run, UploadInv, ExitIsTruthful
  <2>2. CASE Start
    BY <2>2 DEF Start, UploadInv, ExitIsTruthful
  <2>3. CASE ReadPage
    BY <2>3 DEF ReadPage, UploadInv, ExitIsTruthful
  <2>4. CASE EndOfPages
    BY <2>4 DEF EndOfPages, Leave, UploadInv, ExitIsTruthful
  <2>5. CASE Raise
    BY <2>5 DEF Raise, Leave, UploadInv, ExitIsTruthful
  <2>6. ASSUME NEW s \in Sources,
               UploadSucceeds(s) \/ UploadRefused(s) \/ UploadUnsettled(s)
        PROVE  UploadInv'
    <3>1. /\ pc = "upload" /\ pc' = "upload" /\ got' = got
          /\ stored \subseteq stored' /\ failed \subseteq failed'
      BY <2>6 DEF UploadSucceeds, UploadRefused, UploadUnsettled, Uploading, SourceFails
    <3>2. \/ left' = left
          \/ left' = left \ Batch(s) /\ (Batch(s) \subseteq stored' \/ s \in failed')
      BY <2>6 DEF UploadSucceeds, UploadRefused, UploadUnsettled, NextBatch, SourceFails
    <3>3. ASSUME NEW d \in got
          PROVE  d \in stored' \/ d \in left' \/ SourceOf[d] \in failed'
      <4>1. d \in stored \/ d \in left \/ SourceOf[d] \in failed
        BY <3>1 DEF UploadInv
      <4> QED
        BY <4>1, <3>1, <3>2, BatchOfSource
    <3> QED
      BY <3>1, <3>3 DEF UploadInv, ExitIsTruthful
  <2>7. CASE Finish
    BY <2>7 DEF Finish, Leave, run, UploadInv, ExitIsTruthful
  <2>8. ASSUME NEW d \in Docs, Index(d) PROVE UploadInv'
    BY <2>8 DEF Index, run, UploadInv, ExitIsTruthful
  <2>9. CASE UNCHANGED vars
    BY <2>9 DEF vars, run, UploadInv, ExitIsTruthful
  <2> QED
    BY <2>1, <2>2, <2>3, <2>4, <2>5, <2>6, <2>7, <2>8, <2>9 DEF Next, Upload
<1> QED
  BY <1>1, <1>2, BridgeTypeCorrect, PTL DEF Spec

\* ExitIsTruthful: a run that exits with 0 forwarded every document it read.
THEOREM ExitMeansForwarded == Spec => []ExitIsTruthful
<1>1. UploadInv => ExitIsTruthful
  BY DEF UploadInv
<1> QED
  BY <1>1, UploadInvariant, PTL

-----------------------------------------------------------------------------
(* The schedule: no document falls between two windows.                    *)

\* The clock has passed no deadline, and only documents indexed since the
\* latest start are not in what that run saw.
ClockInv ==
    /\ now <= started + Period
    /\ pc = "read" => now <= started + ReadTime
    /\ \A d \in Docs \ indexed : now <= Timestamp[d] + MaxLag
    /\ \A d \in indexed \ atStart : started <= Timestamp[d] + MaxLag

LEMMA ClockInvariant == Spec => []ClockInv
<1>1. Init => ClockInv
  BY DocumentsAssumption, LimitsAssumption DEF Init, ClockInv
<1>2. TypeOK /\ ClockInv /\ [Next]_vars => ClockInv'
  <2> SUFFICES ASSUME TypeOK, ClockInv, [Next]_vars PROVE ClockInv'
    OBVIOUS
  <2> USE DocumentsAssumption, LimitsAssumption
  <2>1. CASE Tick
    <3>1. \A d \in Docs \ indexed : now + 1 <= Timestamp[d] + MaxLag
      BY <2>1 DEF Tick, TypeOK
    <3>2. now + 1 <= started + Period
      BY <2>1 DEF Tick, TypeOK
    <3>3. pc = "read" => now + 1 <= started + ReadTime
      BY <2>1 DEF Tick, TypeOK
    <3> QED
      BY <2>1, <3>1, <3>2, <3>3 DEF Tick, run, ClockInv
  <2>2. CASE Start
    BY <2>2 DEF Start, TypeOK, ClockInv
  <2>3. CASE ReadPage
    BY <2>3 DEF ReadPage, ClockInv
  <2>4. CASE EndOfPages
    BY <2>4 DEF EndOfPages, Leave, ClockInv
  <2>5. CASE Raise
    BY <2>5 DEF Raise, Leave, run, ClockInv
  <2>6. ASSUME NEW s \in Sources,
               UploadSucceeds(s) \/ UploadRefused(s) \/ UploadUnsettled(s)
        PROVE  ClockInv'
    BY <2>6 DEF UploadSucceeds, UploadRefused, UploadUnsettled, Uploading, ClockInv
  <2>7. CASE Finish
    BY <2>7 DEF Finish, Leave, run, ClockInv
  <2>8. ASSUME NEW d \in Docs, Index(d) PROVE ClockInv'
    <3>1. started <= Timestamp[d] + MaxLag
      BY <2>8 DEF Index, TypeOK
    <3> QED
      BY <2>8, <3>1 DEF Index, run, ClockInv
  <2>9. CASE UNCHANGED vars
    BY <2>9 DEF vars, run, ClockInv
  <2> QED
    BY <2>1, <2>2, <2>3, <2>4, <2>5, <2>6, <2>7, <2>8, <2>9 DEF Next, Upload
<1> QED
  BY <1>1, <1>2, BridgeTypeCorrect, PTL DEF Spec

Kept == stored \cup excused

\* What a run saw is forwarded or excused when it has ended, read when it
\* uploads, and young enough to be read as long as it reads.
MissInv ==
    /\ pc = "waiting" => atStart \subseteq Kept
    /\ pc = "read" =>
         \A d \in atStart : d \in Kept \/ started <= Timestamp[d] + MaxLag + Period
    /\ pc = "upload" => atStart \subseteq Kept \cup got

\* A run that fails excuses what it saw, and nothing is taken back.
LEMMA LeaveKeeps ==
    ASSUME TypeOK, NEW code \in 0 .. 2, Leave(code), stored' = stored
    PROVE  Kept \subseteq Kept' /\ (code # 0 => atStart \subseteq Kept')
BY DEF Leave, Kept

LEMMA StartFindsYoung ==
    ASSUME TypeOK, ClockInv, MissInv, Start
    PROVE  MissInv'
<1> SUFFICES ASSUME NEW d \in indexed, d \notin Kept
             PROVE  now <= Timestamp[d] + MaxLag + Period
  BY DEF Start, MissInv, Kept
<1>1. d \notin atStart
  BY DEF Start, MissInv
<1>2. started <= Timestamp[d] + MaxLag
  BY <1>1 DEF ClockInv
<1>3. now <= started + Period
  BY DEF ClockInv
<1> QED
  BY <1>2, <1>3, DocumentsAssumption, LimitsAssumption DEF TypeOK

LEMMA ReadingEnds ==
    ASSUME TypeOK, ClockInv, ReadInv, MissInv, EndOfPages
    PROVE  MissInv'
<1>1. ASSUME NEW d \in atStart, d \notin Kept PROVE d \in got
  <2>1. started <= Timestamp[d] + MaxLag + Period /\ now <= started + ReadTime
    BY <1>1 DEF EndOfPages, MissInv, ClockInv
  <2>2. d \in Docs /\ d \in indexed
    BY DEF TypeOK
  <2>3. InWindow(d)
    BY <2>1, <2>2, DocumentsAssumption, LimitsAssumption, ScheduleAssumption
       DEF InWindow, TypeOK
  <2>4. ~After(d)
    BY <2>2, <2>3 DEF EndOfPages, Matching
  <2>5. d <= cursor
    BY <2>2, <2>4, DocumentsAssumption DEF After, TypeOK
  <2> QED
    BY <2>3, <2>5 DEF EndOfPages, ReadInv
<1>2. CASE got = {}
  <2>1. Leave(0) /\ stored' = stored /\ atStart' = atStart
    BY <1>2 DEF EndOfPages
  <2>2. Kept \subseteq Kept'
    BY <2>1, LeaveKeeps
  <2> QED
    BY <1>1, <1>2, <2>1, <2>2 DEF Leave, MissInv
<1>3. CASE got # {}
  BY <1>1, <1>3 DEF EndOfPages, MissInv, Kept
<1> QED
  BY <1>2, <1>3

LEMMA MissInvariant == Spec => []MissInv
<1>1. Init => MissInv
  BY DEF Init, MissInv, Kept
<1>2. TypeOK /\ ClockInv /\ ReadInv /\ UploadInv /\ MissInv /\ [Next]_vars => MissInv'
  <2> SUFFICES ASSUME TypeOK, ClockInv, ReadInv, UploadInv, MissInv, [Next]_vars
               PROVE  MissInv'
    OBVIOUS
  <2>1. CASE Tick
    BY <2>1 DEF Tick, run, MissInv, Kept
  <2>2. CASE Start
    BY <2>2, StartFindsYoung
  <2>3. CASE ReadPage
    BY <2>3 DEF ReadPage, MissInv, Kept
  <2>4. CASE EndOfPages
    BY <2>4, ReadingEnds
  <2>5. CASE Raise
    <3>1. PICK code \in {1, 2} : Leave(code)
      BY <2>5 DEF Raise
    <3>2. stored' = stored /\ atStart' = atStart
      BY <2>5 DEF Raise, run
    <3>3. atStart \subseteq Kept'
      BY <3>1, <3>2, LeaveKeeps
    <3> QED
      BY <3>1, <3>2, <3>3 DEF Leave, MissInv
  <2>6. ASSUME NEW s \in Sources,
               UploadSucceeds(s) \/ UploadRefused(s) \/ UploadUnsettled(s)
        PROVE  MissInv'
    <3>1. /\ pc = "upload" /\ pc' = "upload" /\ stored \subseteq stored'
          /\ UNCHANGED <<atStart, got, excused>>
      BY <2>6 DEF UploadSucceeds, UploadRefused, UploadUnsettled, Uploading
    <3> QED
      BY <3>1 DEF MissInv, Kept
  <2>7. CASE Finish
    <3>1. stored' = stored /\ atStart' = atStart /\ pc' = "waiting" /\ pc = "upload"
      BY <2>7 DEF Finish, Leave, run
    <3>2. CASE failed = {}
      <4>1. Leave(0)
        BY <2>7, <3>2 DEF Finish
      <4>2. Kept \subseteq Kept'
        BY <3>1, <4>1, LeaveKeeps
      <4>3. got \subseteq stored
        BY <2>7, <3>2 DEF Finish, UploadInv
      <4> QED
        BY <3>1, <4>2, <4>3 DEF MissInv, Kept
    <3>3. CASE failed # {}
      <4>1. Leave(1)
        BY <2>7, <3>3 DEF Finish
      <4>2. atStart \subseteq Kept'
        BY <3>1, <4>1, LeaveKeeps
      <4> QED
        BY <3>1, <4>2 DEF MissInv
    <3> QED
      BY <3>2, <3>3
  <2>8. ASSUME NEW d \in Docs, Index(d) PROVE MissInv'
    BY <2>8 DEF Index, run, MissInv, Kept
  <2>9. CASE UNCHANGED vars
    BY <2>9 DEF vars, run, MissInv, Kept
  <2> QED
    BY <2>1, <2>2, <2>3, <2>4, <2>5, <2>6, <2>7, <2>8, <2>9 DEF Next, Upload
<1> QED
  BY <1>1, <1>2, BridgeTypeCorrect, ClockInvariant, ReadInvariant, UploadInvariant, PTL
     DEF Spec

\* NothingMissed: if the windows overlap by the indexing lag and the reading
\* time, every document too old for the next window is in Log Analytics, or
\* a run that was to forward it reported a failure.
THEOREM WindowsLeaveNoGap == Spec => []NothingMissed
<1>1. TypeOK /\ ClockInv /\ MissInv => NothingMissed
  <2> SUFFICES ASSUME TypeOK, ClockInv, MissInv, pc = "waiting",
                      NEW d \in Docs, Timestamp[d] + Lookback < now, d \notin Kept
               PROVE  FALSE
    BY DEF NothingMissed, Kept
  <2> USE DocumentsAssumption, LimitsAssumption, ScheduleAssumption
  <2>1. d \notin atStart
    BY DEF MissInv
  <2>2. CASE d \in indexed
    <3>1. started <= Timestamp[d] + MaxLag /\ now <= started + Period
      BY <2>1, <2>2 DEF ClockInv
    <3> QED
      BY <3>1 DEF TypeOK
  <2>3. CASE d \notin indexed
    <3>1. now <= Timestamp[d] + MaxLag
      BY <2>3 DEF ClockInv
    <3> QED
      BY <3>1 DEF TypeOK
  <2> QED
    BY <2>2, <2>3
<1> QED
  BY <1>1, BridgeTypeCorrect, ClockInvariant, MissInvariant, PTL

-----------------------------------------------------------------------------
(* Termination.                                                            *)

LEMMA NatHasSmallest ==
    ASSUME NEW S, S \subseteq Nat, S # {}
    PROVE  \E x \in S : \A y \in S : x <= y
<1> DEFINE below == {ss \in Nat \X Nat : ss[1] < ss[2]}
<1>1. IsWellFoundedOn(below, Nat)
  BY NatLessThanWellFounded DEF OpToRel
<1>2. PICK x \in S : \A y \in S : ~(<<y, x>> \in below)
  <2> HIDE DEF below
  <2> QED
    BY <1>1, WFMin
<1>3. ASSUME NEW y \in S PROVE x <= y
  <2>1. <<y, x>> \in Nat \X Nat
    OBVIOUS
  <2>2. ~(y < x)
    BY <1>2, <2>1
  <2> QED
    BY <2>2
<1> QED
  BY <1>3

\* A page and a batch are never empty while there is something to read or to
\* upload.
LEMMA FirstIsNonEmpty ==
    ASSUME NEW n \in Nat \ {0}, NEW S, S \subseteq Docs, S # {}
    PROVE  First(n, S) # {}
<1>1. S \subseteq Nat
  BY DocumentsAssumption
<1>2. PICK d \in S : \A e \in S : d <= e
  BY <1>1, NatHasSmallest
<1>3. {e \in S : e < d} = {}
  <2>1. ASSUME NEW e \in S PROVE ~(e < d)
    BY <1>1, <1>2
  <2> QED
    BY <2>1
<1>4. Cardinality({e \in S : e < d}) = 0
  BY <1>3, FS_EmptySet, Zenon
<1>5. d \in First(n, S)
  BY <1>4 DEF First
<1> QED
  BY <1>5

\* The part of a run, which ends at the timer.
Part == CASE pc = "read" -> 0 [] pc = "upload" -> 1 [] pc = "waiting" -> 2

progress == <<pc, cursor, left, attempt>>

\* Lexicographically: the part, the place in the sort order, the documents
\* that are left, the attempts.  Docs is finite and there are at most
\* MAX_RETRIES attempts (TypeOK).
Advances ==
    \/ Part' > Part
    \/ /\ Part' = Part
       /\ \/ cursor' > cursor
          \/ /\ cursor' = cursor
             /\ \/ left' \subseteq left /\ left' # left
                \/ left' = left /\ attempt' > attempt

ARunOnlyAdvances ==
    [][/\ Work => Advances
       /\ pc # "waiting" => Advances \/ UNCHANGED progress]_vars

LEMMA PageAdvances ==
    ASSUME TypeOK, ReadPage
    PROVE  Advances
<1>1. PICK last \in First(PageSize, Matching) : cursor' = last
  BY DEF ReadPage
<1>2. last \in Matching /\ Matching \subseteq Docs
  BY FirstIsPart DEF Matching, TypeOK
<1>3. cursor' > cursor
  BY <1>1, <1>2, DocumentsAssumption DEF Matching, After, TypeOK
<1>4. Part' = Part
  BY DEF ReadPage, Part
<1> QED
  BY <1>3, <1>4 DEF Advances

LEMMA UploadAdvances ==
    ASSUME TypeOK, NEW s \in Sources, Upload(s)
    PROVE  Advances
<1>1. Part' = Part /\ UNCHANGED cursor
  BY DEF Upload, UploadSucceeds, UploadRefused, UploadUnsettled, Uploading, Part
<1>2. CASE NextBatch(s)
  <2>1. Current(s)
    BY DEF Upload, UploadSucceeds, UploadRefused, UploadUnsettled, Uploading
  <2>2. {d \in left : SourceOf[d] = s} \subseteq Docs
    BY DEF TypeOK
  <2>3. {d \in left : SourceOf[d] = s} # {}
    BY <2>1 DEF Current
  <2>4. Batch(s) # {}
    BY <2>2, <2>3, FirstIsNonEmpty, LimitsAssumption DEF Batch
  <2>5. left' \subseteq left /\ left' # left
    BY <1>2, <2>4, BatchIsPart DEF NextBatch
  <2> QED
    BY <1>1, <2>5 DEF Advances
<1>3. CASE attempt' = attempt + 1 /\ UNCHANGED left
  <2>1. attempt' > attempt
    BY <1>3, LimitsAssumption DEF TypeOK
  <2> QED
    BY <1>1, <1>3, <2>1 DEF Advances
<1> QED
  BY <1>2, <1>3 DEF Upload, UploadSucceeds, UploadRefused, UploadUnsettled

\* No run lasts for ever, although documents arrive while it pages and Log
\* Analytics may fail every upload: each step of its work advances it, and no
\* other step sets it back.
THEOREM RunAdvances == Spec => ARunOnlyAdvances
<1>1. ASSUME TypeOK, EndOfPages \/ Finish \/ Raise PROVE Advances
  <2>1. Part' > Part
    BY <1>1 DEF EndOfPages, Finish, Raise, Leave, Part, TypeOK
  <2> QED
    BY <2>1 DEF Advances
<1>2. ASSUME TypeOK, [Next]_vars
      PROVE  /\ Work => Advances
             /\ pc # "waiting" => Advances \/ UNCHANGED progress
  <2>1. Work => Advances
    BY <1>1, <1>2, PageAdvances, UploadAdvances DEF Work
  <2>2. ASSUME pc # "waiting" PROVE Advances \/ UNCHANGED progress
    <3>1. CASE Tick \/ (\E d \in Docs : Index(d))
      BY <3>1 DEF Tick, Index, run, progress
    <3>2. CASE Start
      BY <2>2, <3>2 DEF Start
    <3>3. CASE Work \/ Raise
      BY <1>1, <1>2, <2>1, <3>3
    <3>4. CASE UNCHANGED vars
      BY <3>4 DEF vars, run, progress
    <3> QED
      BY <1>2, <3>1, <3>2, <3>3, <3>4 DEF Next, Work
  <2> QED
    BY <2>1, <2>2
<1>3. TypeOK /\ [Next]_vars
         => [/\ Work => Advances
             /\ pc # "waiting" => Advances \/ UNCHANGED progress]_vars
  BY <1>2
<1> QED
  BY <1>3, BridgeTypeCorrect, PTL DEF Spec, ARunOnlyAdvances
=============================================================================
