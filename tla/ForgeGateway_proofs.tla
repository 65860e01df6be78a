------------------------ MODULE ForgeGateway_proofs ------------------------
(* Proofs about ForgeGateway, for any clients, limits and requests. *)
EXTENDS ForgeGateway, FiniteSetTheorems, TLAPS

(* Types *)

LEMMA BucketMaps ==
    ASSUME TypeOK, NEW c \in Clients
    PROVE  /\ Reclaimed = [k \in DOMAIN Reclaimed |-> Reclaimed[k]]
           /\ DOMAIN Reclaimed \subseteq DOMAIN buckets
           /\ \A k \in DOMAIN Reclaimed : Reclaimed[k] = buckets[k]
           /\ \A k \in DOMAIN buckets : IsLive(buckets[k]) => k \in DOMAIN Reclaimed
           /\ TableIsFull(buckets) =>
                \A k \in DOMAIN Reclaimed : IsLive(buckets[k])
           /\ DOMAIN Opened(c) = DOMAIN Reclaimed \cup {c}
           /\ Opened(c)[c] = [resetAt |-> now + RateWindow, count |-> 1]
           /\ \A k \in DOMAIN Reclaimed \ {c} : Opened(c)[k] = buckets[k]
           /\ HasLiveBucket(c) =>
                /\ DOMAIN Counted(c) = DOMAIN buckets
                /\ Counted(c)[c] = [resetAt |-> buckets[c].resetAt,
                                    count |-> buckets[c].count + 1]
                /\ \A k \in DOMAIN buckets \ {c} : Counted(c)[k] = buckets[k]
<1>1. CASE TableIsFull(buckets)
  BY <1>1 DEF TypeOK, Reclaimed, Restrict, Opened, Counted, HasLiveBucket, Bucket,
              FirstCount
<1>2. CASE ~TableIsFull(buckets)
  BY <1>2 DEF TypeOK, Reclaimed, Opened, Counted, HasLiveBucket, Bucket, FirstCount
<1> QED
  BY <1>1, <1>2

LEMMA DecideTypes ==
    ASSUME TypeOK, NEW r \in Requests, NEW c \in Clients, NEW bucket \in Bucket,
           Decide(r, c, bucket)
    PROVE  /\ calls' \in [Requests -> Call]
           /\ admitted' \subseteq Admission
BY DEF Decide, TypeOK, Call, Idle, Admission, Bucket

LEMMA TryFields ==
    ASSUME NEW call \in Call, NEW converter \in {"remote", "local"},
           now + ConversionTimeout \in Nat
    PROVE  /\ Try(call, converter) \in Call
           /\ Try(call, converter).pc = converter
           /\ Try(call, converter).began = call.began
           /\ Try(call, converter).deadline = now + ConversionTimeout
<1>1. /\ DOMAIN call = {"pc", "status", "began", "deadline"}
      /\ call.status \in {0, 200, 400, 403, 429, 502} /\ call.began \in Nat
  BY DEF Call
<1>2. Try(call, converter) =
        [[call EXCEPT !.pc = converter] EXCEPT !.deadline = now + ConversionTimeout]
  BY DEF Try, TimerFrom
<1>3. [call EXCEPT !.pc = converter] =
        [pc |-> converter, status |-> call.status, began |-> call.began,
         deadline |-> call.deadline]
  BY <1>1 DEF Call
<1>4. Try(call, converter) =
        [pc |-> converter, status |-> call.status, began |-> call.began,
         deadline |-> now + ConversionTimeout]
  BY <1>2, <1>3
<1> QED
  BY <1>1, <1>4 DEF Call

LEMMA TypeStep ==
    ASSUME TypeOK, [Next]_vars
    PROVE  TypeOK'
<1> USE LimitsAssumption
<1>1. CASE UNCHANGED vars
  BY <1>1 DEF vars, TypeOK
<1>2. CASE Tick
  BY <1>2 DEF Tick, TypeOK
<1>3. ASSUME NEW r \in Requests, Forbid(r) \/ RejectBody(r) \/ Begin(r) \/ Settle(r)
      PROVE  TypeOK'
  <2>1. now + ConversionTimeout \in Nat /\ calls[r] \in Call
    BY DEF TypeOK
  <2>2. CASE Forbid(r) \/ RejectBody(r) \/ Convert(r) \/ Fail(r)
    BY <2>2 DEF Forbid, RejectBody, Convert, Fail, Idle, TypeOK, Call
  <2>3. CASE Begin(r)
    <3> DEFINE begun == [calls[r] EXCEPT !.began = now]
    <3>1. begun \in Call
      BY <2>1 DEF TypeOK, Call
    <3>2. Try(begun, IF RemoteConfigured THEN "remote" ELSE "local") \in Call
      BY <2>1, <3>1, TryFields
    <3> QED
      BY <2>3, <3>2 DEF Begin, TypeOK
  <2>4. CASE FallBack(r)
    <3>1. Try(calls[r], "local") \in Call
      BY <2>1, TryFields
    <3> QED
      BY <2>4, <3>1 DEF FallBack, TypeOK
  <2> QED
    BY <1>3, <2>2, <2>3, <2>4 DEF Settle
<1>4. ASSUME NEW r \in Requests, NEW c \in Clients, CountInBucket(r, c)
      PROVE  TypeOK'
  <2>0. HasLiveBucket(c) /\ c \in DOMAIN buckets
    BY <1>4 DEF CountInBucket, HasLiveBucket
  <2>1. Counted(c)[c] \in Bucket
    <3>1. Counted(c)[c] = [resetAt |-> buckets[c].resetAt,
                           count |-> buckets[c].count + 1]
      BY <2>0, BucketMaps
    <3>2. buckets[c] \in Bucket
      BY <2>0 DEF TypeOK
    <3> QED
      BY <3>1, <3>2 DEF Bucket
  <2>2. /\ calls' \in [Requests -> Call]
        /\ admitted' \subseteq Admission
    BY <1>4, <2>1, DecideTypes DEF CountInBucket
  <2>3. /\ DOMAIN buckets' = DOMAIN buckets
        /\ \A k \in DOMAIN buckets : buckets'[k] \in Bucket
    <3>1. buckets' = Counted(c)
      BY <1>4 DEF CountInBucket
    <3>2. /\ DOMAIN Counted(c) = DOMAIN buckets
          /\ \A k \in DOMAIN buckets \ {c} : Counted(c)[k] = buckets[k]
      BY <2>0, BucketMaps
    <3>3. \A k \in DOMAIN buckets : buckets[k] \in Bucket
      BY DEF TypeOK
    <3> QED
      BY <2>1, <3>1, <3>2, <3>3
  <2>4. buckets' = [k \in DOMAIN buckets' |-> buckets'[k]]
    BY <1>4 DEF CountInBucket, Counted, TypeOK
  <2> QED
    BY <1>4, <2>2, <2>3, <2>4 DEF CountInBucket, TypeOK
<1>5. ASSUME NEW r \in Requests, NEW c \in Clients, OpenBucket(r, c)
      PROVE  TypeOK'
  <2>1. Opened(c)[c] \in Bucket
    <3>1. Opened(c)[c] = [resetAt |-> now + RateWindow, count |-> 1]
      BY BucketMaps
    <3>2. now + RateWindow \in Nat
      BY DEF TypeOK
    <3> QED
      BY <3>1, <3>2 DEF Bucket
  <2>2. /\ calls' \in [Requests -> Call]
        /\ admitted' \subseteq Admission
    BY <1>5, <2>1, DecideTypes DEF OpenBucket
  <2>3. /\ DOMAIN buckets' \subseteq Clients
        /\ \A k \in DOMAIN buckets' : buckets'[k] \in Bucket
    <3>1. /\ DOMAIN Opened(c) = DOMAIN Reclaimed \cup {c}
          /\ DOMAIN Reclaimed \subseteq DOMAIN buckets
          /\ \A k \in DOMAIN Reclaimed \ {c} : Opened(c)[k] = buckets[k]
      BY BucketMaps
    <3> QED
      BY <1>5, <2>1, <3>1 DEF OpenBucket, TypeOK
  <2>4. buckets' = [k \in DOMAIN buckets' |-> buckets'[k]]
    BY <1>5 DEF OpenBucket, Opened
  <2> QED
    BY <1>5, <2>2, <2>3, <2>4 DEF OpenBucket, TypeOK
<1>6. ASSUME NEW r \in Requests, NEW c \in Clients, TurnAway(r, c)
      PROVE  TypeOK'
  <2>1. /\ Reclaimed = [k \in DOMAIN Reclaimed |-> Reclaimed[k]]
        /\ DOMAIN Reclaimed \subseteq DOMAIN buckets
        /\ \A k \in DOMAIN Reclaimed : Reclaimed[k] = buckets[k]
    BY BucketMaps
  <2>2. calls' \in [Requests -> Call]
    BY <1>6 DEF TurnAway, TypeOK, Idle, Call
  <2> QED
    BY <1>6, <2>1, <2>2 DEF TurnAway, TypeOK
<1> QED
  BY <1>1, <1>2, <1>3, <1>4, <1>5, <1>6 DEF Next, Arrive

LEMMA TypeInit == Init => TypeOK
BY DEF Init, TypeOK, Call, Idle, Bucket

\* The clock, the table, the requests and the history keep their types.
THEOREM GatewayTypeCorrect == Spec => []TypeOK
BY TypeInit, TypeStep, PTL DEF Spec

-----------------------------------------------------------------------------
(* The size of the table *)

LEMMA TrackedIsFinite ==
    ASSUME TypeOK
    PROVE  /\ IsFiniteSet(DOMAIN buckets)
           /\ Cardinality(DOMAIN buckets) \in Nat
           /\ IsFiniteSet(DOMAIN Reclaimed)
           /\ Cardinality(DOMAIN Reclaimed) \in Nat
           /\ Cardinality(DOMAIN Reclaimed) <= Cardinality(DOMAIN buckets)
<1>1. DOMAIN buckets \subseteq Clients /\ DOMAIN Reclaimed \subseteq DOMAIN buckets
  <2>1. CASE TableIsFull(buckets)
    BY <2>1 DEF TypeOK, Reclaimed, Restrict
  <2>2. CASE ~TableIsFull(buckets)
    BY <2>2 DEF TypeOK, Reclaimed
  <2> QED
    BY <2>1, <2>2
<1>2. IsFiniteSet(DOMAIN buckets)
  BY <1>1, FS_Subset, LimitsAssumption
<1>3. IsFiniteSet(DOMAIN Reclaimed)
      /\ Cardinality(DOMAIN Reclaimed) <= Cardinality(DOMAIN buckets)
  BY <1>1, <1>2, FS_Subset
<1> QED
  BY <1>2, <1>3, FS_CardinalityType

LEMMA TableStep ==
    ASSUME TypeOK, TableBounded, [Next]_vars
    PROVE  TableBounded'
<1> USE LimitsAssumption DEF TableBounded
<1>1. ASSUME NEW r \in Requests, NEW c \in Clients, CountInBucket(r, c)
      PROVE  TableBounded'
  <2>1. DOMAIN buckets' = DOMAIN buckets
    BY <1>1, BucketMaps DEF CountInBucket
  <2> QED
    BY <2>1
<1>2. ASSUME NEW r \in Requests, NEW c \in Clients, OpenBucket(r, c)
      PROVE  TableBounded'
  <2>1. DOMAIN buckets' = DOMAIN Reclaimed \cup {c}
    BY <1>2, BucketMaps DEF OpenBucket
  <2>2. Cardinality(DOMAIN buckets') <= Cardinality(DOMAIN Reclaimed) + 1
    <3>1. IsFiniteSet(DOMAIN Reclaimed) /\ Cardinality(DOMAIN Reclaimed) \in Nat
      BY TrackedIsFinite
    <3>2. Cardinality(DOMAIN Reclaimed \cup {c})
            = IF c \in DOMAIN Reclaimed THEN Cardinality(DOMAIN Reclaimed)
                                        ELSE Cardinality(DOMAIN Reclaimed) + 1
      BY <3>1, FS_AddElement
    <3> QED
      BY <2>1, <3>1, <3>2
  <2>3. Cardinality(DOMAIN Reclaimed) < MaxTracked
    BY <1>2, TrackedIsFinite DEF OpenBucket, TableIsFull
  <2>4. IsFiniteSet(DOMAIN buckets')
    BY <2>1, TrackedIsFinite, FS_AddElement
  <2> QED
    BY <2>2, <2>3, <2>4, TrackedIsFinite, FS_CardinalityType
<1>3. ASSUME NEW r \in Requests, NEW c \in Clients, TurnAway(r, c)
      PROVE  TableBounded'
  BY <1>3, TrackedIsFinite DEF TurnAway
<1>4. CASE UNCHANGED buckets
  BY <1>4
<1> QED
  BY <1>1, <1>2, <1>3, <1>4 DEF Next, Arrive, vars, Tick, Forbid, RejectBody, Begin,
     Settle, Convert, FallBack, Fail

\* However many clients come, the table never holds more than its limit.
THEOREM TableIsBounded == Spec => []TableBounded
<1>1. Init => TableBounded
  BY LimitsAssumption, FS_EmptySet DEF Init, TableBounded
<1> QED
  BY <1>1, TypeInit, TypeStep, TableStep, PTL DEF Spec

-----------------------------------------------------------------------------
(* The history of admissions and the buckets *)

\* What an admission says of the bucket it was counted in.
AdmissionInv ==
    \A a \in admitted :
        /\ a.number <= RateLimit
        /\ a.time <= now
        /\ a.time < a.resetAt
        /\ a.resetAt <= a.time + RateWindow
        /\ a.number = 1 => a.resetAt = a.time + RateWindow

\* The buckets of one client follow one another, each longer than a window,
\* and no number of a bucket is given twice.
SuccessionInv ==
    \A a, b \in admitted : a.client = b.client =>
        /\ a.resetAt < b.resetAt => a.resetAt + RateWindow <= b.resetAt
        /\ a.resetAt = b.resetAt /\ a.number = b.number => a = b

\* A bucket in the table is its client's latest, and has counted every
\* admission; the bucket of a client that is not in the table is over.
LatestInv ==
    \A a \in admitted :
        IF a.client \in DOMAIN buckets
        THEN LET bucket == buckets[a.client] IN
             /\ a.resetAt # bucket.resetAt => a.resetAt + RateWindow <= bucket.resetAt
             /\ a.resetAt = bucket.resetAt => a.number <= bucket.count
        ELSE a.resetAt <= now

\* A bucket's first requests, up to the limit, were admitted.
CountInv ==
    \A c \in DOMAIN buckets : \A n \in 1 .. RateLimit :
        n <= buckets[c].count =>
            \E a \in admitted : /\ a.client = c
                                /\ a.resetAt = buckets[c].resetAt
                                /\ a.number = n

QuotaInv == AdmissionInv /\ SuccessionInv /\ LatestInv /\ CountInv

LEMMA QuotaInit == Init => QuotaInv
BY DEF Init, QuotaInv, AdmissionInv, SuccessionInv, LatestInv, CountInv

\* An admission that opens a bucket, or is counted in a live one.
LEMMA DecideKeeps ==
    ASSUME TypeOK, QuotaInv, NEW r \in Requests, NEW c \in Clients,
           NEW bucket \in Bucket,
           Decide(r, c, bucket), now' = now,
           bucket.resetAt > now,
           bucket.resetAt <= now + RateWindow,
           bucket.count = 1 => bucket.resetAt = now + RateWindow,
           \A a \in admitted : a.client = c =>
               /\ a.resetAt # bucket.resetAt => a.resetAt + RateWindow <= bucket.resetAt
               /\ a.resetAt = bucket.resetAt => a.number < bucket.count,
           c \in DOMAIN buckets', buckets'[c] = bucket,
           \A k \in DOMAIN buckets' \ {c} : k \in DOMAIN buckets /\ buckets'[k] = buckets[k],
           \A k \in DOMAIN buckets \ DOMAIN buckets' : buckets[k].resetAt <= now,
           \A n \in 1 .. RateLimit : n < bucket.count =>
               \E a \in admitted : /\ a.client = c
                                   /\ a.resetAt = bucket.resetAt
                                   /\ a.number = n
    PROVE  QuotaInv'
<1> USE LimitsAssumption
<1> DEFINE new == [client |-> c, resetAt |-> bucket.resetAt,
                   number |-> bucket.count, time |-> now]
<1>1. /\ admitted' = IF bucket.count <= RateLimit THEN admitted \cup {new} ELSE admitted
      /\ \A a \in admitted' : a \in admitted \/ (a = new /\ bucket.count <= RateLimit)
      /\ \A a \in admitted : a \in admitted'
  BY DEF Decide, WithinLimit
<1>2. /\ new \in Admission /\ now \in Nat
      /\ bucket.resetAt \in Nat /\ bucket.count \in Nat \ {0}
      /\ \A a \in admitted : a \in Admission
  BY DEF TypeOK, Admission, Bucket
<1>3. /\ new.client = c /\ new.resetAt = bucket.resetAt
      /\ new.number = bucket.count /\ new.time = now
  OBVIOUS
<1> HIDE DEF new
<1>4. AdmissionInv'
  BY <1>1, <1>2, <1>3 DEF QuotaInv, AdmissionInv, Admission
<1>5. SuccessionInv'
  <2> SUFFICES ASSUME NEW a \in admitted', NEW b \in admitted',
                      a.client = b.client
               PROVE  /\ a.resetAt < b.resetAt => a.resetAt + RateWindow <= b.resetAt
                      /\ a.resetAt = b.resetAt /\ a.number = b.number => a = b
    BY DEF SuccessionInv
  <2>1. CASE a \in admitted /\ b \in admitted
    BY <2>1 DEF QuotaInv, SuccessionInv
  <2>2. CASE a = new /\ b = new
    BY <2>2, <1>2, <1>3
  <2>3. CASE a \in admitted /\ b = new
    BY <2>3, <1>2, <1>3 DEF Admission
  <2>4. CASE a = new /\ b \in admitted
    BY <2>4, <1>2, <1>3 DEF Admission
  <2> QED
    BY <1>1, <2>1, <2>2, <2>3, <2>4
<1>6. LatestInv'
  <2> SUFFICES ASSUME NEW a \in admitted'
               PROVE  IF a.client \in DOMAIN buckets'
                      THEN /\ a.resetAt # buckets'[a.client].resetAt =>
                                a.resetAt + RateWindow <= buckets'[a.client].resetAt
                           /\ a.resetAt = buckets'[a.client].resetAt =>
                                a.number <= buckets'[a.client].count
                      ELSE a.resetAt <= now'
    BY DEF LatestInv
  <2>1. CASE a = new
    BY <2>1, <1>2, <1>3
  <2>2. CASE a \in admitted /\ a.client = c
    BY <2>2, <1>2 DEF Admission
  <2>3. CASE a \in admitted /\ a.client # c
    <3>1. CASE a.client \in DOMAIN buckets'
      BY <2>3, <3>1 DEF QuotaInv, LatestInv
    <3>2. CASE a.client \notin DOMAIN buckets' /\ a.client \in DOMAIN buckets
      <4>1. buckets[a.client] \in Bucket /\ buckets[a.client].resetAt <= now
        BY <3>2 DEF TypeOK
      <4> QED
        BY <2>3, <3>2, <4>1, <1>2 DEF QuotaInv, LatestInv, Bucket, Admission
    <3>3. CASE a.client \notin DOMAIN buckets' /\ a.client \notin DOMAIN buckets
      BY <2>3, <3>3 DEF QuotaInv, LatestInv
    <3> QED
      BY <3>1, <3>2, <3>3
  <2> QED
    BY <1>1, <2>1, <2>2, <2>3
<1>7. CountInv'
  <2> SUFFICES ASSUME NEW k \in DOMAIN buckets', NEW n \in 1 .. RateLimit,
                      n <= buckets'[k].count
               PROVE  \E a \in admitted' : /\ a.client = k
                                           /\ a.resetAt = buckets'[k].resetAt
                                           /\ a.number = n
    BY DEF CountInv
  <2>1. CASE k # c
    BY <2>1, <1>1 DEF QuotaInv, CountInv
  <2>2. CASE k = c /\ n < bucket.count
    BY <2>2, <1>1
  <2>3. CASE k = c /\ n = bucket.count
    BY <2>3, <1>1, <1>3
  <2> QED
    BY <2>1, <2>2, <2>3, <1>2
<1> QED
  BY <1>4, <1>5, <1>6, <1>7 DEF QuotaInv

LEMMA QuotaStep ==
    ASSUME TypeOK, QuotaInv, [Next]_vars
    PROVE  QuotaInv'
<1> USE LimitsAssumption
<1>1. ASSUME NEW r \in Requests, NEW c \in Clients, CountInBucket(r, c)
      PROVE  QuotaInv'
  <2> DEFINE bucket == Counted(c)[c]
  <2>1. c \in DOMAIN buckets /\ HasLiveBucket(c)
    BY <1>1 DEF CountInBucket, HasLiveBucket
  <2>2. /\ DOMAIN Counted(c) = DOMAIN buckets
        /\ bucket = [resetAt |-> buckets[c].resetAt, count |-> buckets[c].count + 1]
        /\ \A k \in DOMAIN buckets \ {c} : Counted(c)[k] = buckets[k]
    BY <2>1, BucketMaps
  <2>3. /\ buckets[c].resetAt \in Nat /\ buckets[c].count \in Nat \ {0}
        /\ buckets[c].resetAt > now /\ now \in Nat
        /\ \A a \in admitted : a \in Admission
    BY <2>1 DEF TypeOK, Bucket, HasLiveBucket, IsLive
  <2>4. /\ bucket \in Bucket
        /\ bucket.resetAt = buckets[c].resetAt
        /\ bucket.count = buckets[c].count + 1
    BY <2>2, <2>3 DEF Bucket
  <2>5. PICK a \in admitted : a.client = c /\ a.resetAt = buckets[c].resetAt
    BY <2>1, <2>3 DEF QuotaInv, CountInv
  <2>6. bucket.resetAt <= now + RateWindow
    BY <2>3, <2>4, <2>5 DEF QuotaInv, AdmissionInv, Admission
  <2>7. \A b \in admitted : b.client = c =>
          /\ b.resetAt # bucket.resetAt => b.resetAt + RateWindow <= bucket.resetAt
          /\ b.resetAt = bucket.resetAt => b.number < bucket.count
    BY <2>1, <2>3, <2>4 DEF QuotaInv, LatestInv, Admission
  <2>8. \A n \in 1 .. RateLimit : n < bucket.count =>
          \E b \in admitted : /\ b.client = c
                              /\ b.resetAt = bucket.resetAt
                              /\ b.number = n
    BY <2>1, <2>3, <2>4 DEF QuotaInv, CountInv
  <2>9. /\ buckets' = Counted(c) /\ Decide(r, c, bucket) /\ now' = now
    BY <1>1 DEF CountInBucket
  <2>10. bucket.count # 1 /\ bucket.resetAt > now
    BY <2>3, <2>4
  <2> HIDE DEF bucket
  <2>11. /\ c \in DOMAIN buckets' /\ DOMAIN buckets' = DOMAIN buckets
         /\ \A k \in DOMAIN buckets' \ {c} : k \in DOMAIN buckets /\ buckets'[k] = buckets[k]
    BY <2>1, <2>2, <2>9
  <2>12. buckets'[c] = bucket
    BY <2>9 DEF bucket
  <2> QED
    BY <2>4, <2>6, <2>7, <2>8, <2>9, <2>10, <2>11, <2>12, DecideKeeps
<1>2. ASSUME NEW r \in Requests, NEW c \in Clients, OpenBucket(r, c)
      PROVE  QuotaInv'
  <2> DEFINE bucket == Opened(c)[c]
  <2>1. /\ DOMAIN Opened(c) = DOMAIN Reclaimed \cup {c}
        /\ DOMAIN Reclaimed \subseteq DOMAIN buckets
        /\ bucket = [resetAt |-> now + RateWindow, count |-> 1]
        /\ \A k \in DOMAIN Reclaimed \ {c} : Opened(c)[k] = buckets[k]
        /\ \A k \in DOMAIN buckets : IsLive(buckets[k]) => k \in DOMAIN Reclaimed
    BY BucketMaps
  <2>2. now \in Nat /\ \A a \in admitted : a \in Admission
    BY DEF TypeOK
  <2>3. bucket \in Bucket /\ bucket.resetAt = now + RateWindow /\ bucket.count = 1
    BY <2>1, <2>2 DEF Bucket
  <2>4. \A a \in admitted : a.client = c => a.resetAt <= now
    <3> SUFFICES ASSUME NEW a \in admitted, a.client = c
                 PROVE  a.resetAt <= now
      OBVIOUS
    <3>1. CASE c \in DOMAIN buckets
      <4>1. /\ buckets[c] \in Bucket /\ ~(buckets[c].resetAt > now)
        BY <1>2, <3>1 DEF OpenBucket, HasLiveBucket, IsLive, TypeOK
      <4> QED
        BY <3>1, <4>1, <2>2 DEF QuotaInv, LatestInv, Bucket, Admission
    <3>2. CASE c \notin DOMAIN buckets
      BY <3>2 DEF QuotaInv, LatestInv
    <3> QED
      BY <3>1, <3>2
  <2>5. \A a \in admitted : a.client = c =>
          /\ a.resetAt # bucket.resetAt => a.resetAt + RateWindow <= bucket.resetAt
          /\ a.resetAt = bucket.resetAt => a.number < bucket.count
    BY <2>2, <2>3, <2>4 DEF Admission
  <2>6. buckets' = Opened(c) /\ Decide(r, c, bucket) /\ now' = now
    BY <1>2 DEF OpenBucket
  <2> HIDE DEF bucket
  <2>7. /\ c \in DOMAIN buckets'
        /\ \A k \in DOMAIN buckets' \ {c} : k \in DOMAIN buckets /\ buckets'[k] = buckets[k]
        /\ DOMAIN buckets \ DOMAIN buckets' \subseteq DOMAIN buckets \ DOMAIN Reclaimed
    BY <2>1, <2>6
  <2>8. buckets'[c] = bucket
    BY <2>6 DEF bucket
  <2>9. \A k \in DOMAIN buckets \ DOMAIN buckets' : buckets[k].resetAt <= now
    BY <2>1, <2>2, <2>7 DEF TypeOK, Bucket, IsLive
  <2>10. /\ bucket.resetAt > now /\ bucket.resetAt <= now + RateWindow
         /\ \A n \in 1 .. RateLimit : ~(n < bucket.count)
    BY <2>2, <2>3
  <2> QED
    BY <2>3, <2>5, <2>6, <2>7, <2>8, <2>9, <2>10, DecideKeeps
<1>3. ASSUME NEW r \in Requests, NEW c \in Clients, TurnAway(r, c)
      PROVE  QuotaInv'
  <2>1. /\ DOMAIN Reclaimed \subseteq DOMAIN buckets
        /\ \A k \in DOMAIN Reclaimed : Reclaimed[k] = buckets[k]
        /\ \A k \in DOMAIN buckets : IsLive(buckets[k]) => k \in DOMAIN Reclaimed
    BY BucketMaps
  <2>2. buckets' = Reclaimed /\ admitted' = admitted /\ now' = now
    BY <1>3 DEF TurnAway
  <2>3. \A k \in DOMAIN buckets \ DOMAIN buckets' : buckets[k].resetAt <= now
    BY <2>1, <2>2 DEF TypeOK, Bucket, IsLive
  <2>4. LatestInv'
    <3> SUFFICES ASSUME NEW a \in admitted, a.client \notin DOMAIN buckets',
                        a.client \in DOMAIN buckets
                 PROVE  a.resetAt <= now
      BY <2>1, <2>2 DEF QuotaInv, LatestInv
    <3>1. /\ buckets[a.client] \in Bucket /\ buckets[a.client].resetAt <= now
          /\ a \in Admission /\ now \in Nat
      BY <2>3 DEF TypeOK
    <3> QED
      BY <3>1 DEF QuotaInv, LatestInv, Bucket, Admission
  <2> QED
    BY <2>1, <2>2, <2>4 DEF QuotaInv, AdmissionInv, SuccessionInv, CountInv
<1>4. CASE UNCHANGED <<buckets, admitted>> /\ now' \in {now, now + 1}
  <2>1. now \in Nat /\ \A a \in admitted : a \in Admission
    BY DEF TypeOK
  <2>2. AdmissionInv' /\ LatestInv'
    BY <1>4, <2>1 DEF QuotaInv, AdmissionInv, LatestInv, Admission
  <2> QED
    BY <1>4, <2>2 DEF QuotaInv, SuccessionInv, CountInv
<1> QED
  BY <1>1, <1>2, <1>3, <1>4 DEF Next, Arrive, vars, Tick, Forbid, RejectBody, Begin,
     Settle, Convert, FallBack, Fail

-----------------------------------------------------------------------------
(* The quota over any window *)

\* The admissions of a client within a span of one window are numbered apart
\* by 1 .. 2 * RateLimit - 1: those of the later bucket after the others.
LEMMA QuotaFromInv ==
    ASSUME TypeOK, QuotaInv
    PROVE  QuotaOverAnyWindow
<1> USE LimitsAssumption
<1> SUFFICES ASSUME NEW a \in admitted
             PROVE  Cardinality({b \in admitted :
                        /\ b.client = a.client
                        /\ b.time \in a.time .. (a.time + RateWindow - 1)})
                      <= 2 * RateLimit - 1
  BY DEF QuotaOverAnyWindow
<1> DEFINE Span == {b \in admitted :
                        /\ b.client = a.client
                        /\ b.time \in a.time .. (a.time + RateWindow - 1)}
<1>1. \A b \in Span :
        /\ b \in admitted /\ b \in Admission /\ b.client = a.client
        /\ b.time \in Nat /\ b.resetAt \in Nat /\ b.number \in Nat
        /\ b.number \in 1 .. RateLimit
        /\ a.time <= b.time /\ b.time < a.time + RateWindow
        /\ b.time < b.resetAt /\ b.resetAt <= b.time + RateWindow
        /\ b.number = 1 => b.resetAt = b.time + RateWindow
  BY DEF TypeOK, Admission, QuotaInv, AdmissionInv
<1>2. \A b, d \in Span :
        /\ b.resetAt < d.resetAt => b.resetAt + RateWindow <= d.resetAt
        /\ b.resetAt = d.resetAt /\ b.number = d.number => b = d
  BY <1>1 DEF QuotaInv, SuccessionInv
<1>3. a.time \in Nat
  BY DEF TypeOK, Admission
<1> HIDE DEF Span
<1>4. \A b, d, e \in Span : ~(b.resetAt < d.resetAt /\ d.resetAt < e.resetAt)
  BY <1>1, <1>2, <1>3
<1>5. \A b, d \in Span : b.resetAt < d.resetAt => b.number >= 2
  BY <1>1, <1>2, <1>3
<1>6. PICK late \in Nat :
        \A b \in Span : b.resetAt <= late /\ (b.resetAt < late => b.number >= 2)
                        /\ \A d \in Span :
                              b.resetAt < late /\ d.resetAt < late => b.resetAt = d.resetAt
  <2>1. CASE \E b, d \in Span : b.resetAt < d.resetAt
    <3>1. PICK b \in Span, d \in Span : b.resetAt < d.resetAt
      BY <2>1
    <3>2. \A e \in Span : e.resetAt <= d.resetAt
      BY <1>1, <1>4, <3>1
    <3>3. \A e, f \in Span : e.resetAt < d.resetAt /\ f.resetAt < d.resetAt
                               => e.resetAt = f.resetAt
      BY <1>1, <1>4, <3>1
    <3>4. \A e \in Span : e.resetAt < d.resetAt => e.number >= 2
      BY <1>5, <3>1
    <3>5. d.resetAt \in Nat
      BY <1>1, <3>1
    <3> QED
      BY <3>2, <3>3, <3>4, <3>5
  <2>2. CASE Span # {} /\ ~\E b, d \in Span : b.resetAt < d.resetAt
    <3>1. PICK b \in Span : TRUE
      BY <2>2
    <3>2. \A e \in Span : e.resetAt = b.resetAt
      BY <1>1, <2>2, <3>1
    <3>3. b.resetAt \in Nat
      BY <1>1, <3>1
    <3> QED
      BY <3>2, <3>3
  <2>3. CASE Span = {}
    BY <2>3
  <2> QED
    BY <2>1, <2>2, <2>3
<1> DEFINE Rank == [b \in Span |-> IF b.resetAt = late THEN RateLimit - 1 + b.number
                                                       ELSE b.number - 1]
<1>7. Rank \in [Span -> 1 .. (2 * RateLimit - 1)]
  BY <1>1, <1>6
<1>8. \A b, d \in Span : Rank[b] = Rank[d] => b = d
  <2> SUFFICES ASSUME NEW b \in Span, NEW d \in Span, Rank[b] = Rank[d]
               PROVE  b = d
    OBVIOUS
  <2>1. b.number \in 1 .. RateLimit /\ d.number \in 1 .. RateLimit
    BY <1>1
  <2>2. CASE b.resetAt = late /\ d.resetAt = late
    BY <2>1, <2>2, <1>2
  <2>3. CASE b.resetAt # late /\ d.resetAt # late
    <3>1. b.resetAt = d.resetAt
      BY <2>3, <1>1, <1>6
    <3> QED
      BY <2>1, <2>3, <3>1, <1>2
  <2>4. CASE (b.resetAt = late /\ d.resetAt # late) \/ (b.resetAt # late /\ d.resetAt = late)
    BY <2>1, <2>4
  <2> QED
    BY <2>2, <2>3, <2>4
<1>9. Rank \in Injection(Span, 1 .. (2 * RateLimit - 1))
  BY <1>7, <1>8 DEF Injection, IsInjective
<1>10. /\ IsFiniteSet(1 .. (2 * RateLimit - 1))
       /\ Cardinality(1 .. (2 * RateLimit - 1)) = 2 * RateLimit - 1
  BY FS_Interval
<1> HIDE DEF Rank
<1>11. Cardinality(Span) <= 2 * RateLimit - 1
  BY <1>9, <1>10, FS_Injection
<1> QED
  BY <1>11 DEF Span

\* No client gets twice its limit within one window's length, wherever the
\* span starts and whatever other clients do to the table.
THEOREM QuotaHolds == Spec => []QuotaOverAnyWindow
BY TypeInit, TypeStep, QuotaInit, QuotaStep, QuotaFromInv, PTL DEF Spec

-----------------------------------------------------------------------------
(* Refusals *)

LEMMA RecentIsNumbered ==
    ASSUME TypeOK, QuotaInv, NEW c \in Clients, HasLiveBucket(c)
    PROVE  \A n \in 1 .. RateLimit : n <= buckets[c].count =>
              \E a \in Recent(c) : a.number = n
<1> SUFFICES ASSUME NEW n \in 1 .. RateLimit, n <= buckets[c].count
             PROVE  \E a \in Recent(c) : a.number = n
  OBVIOUS
<1>1. c \in DOMAIN buckets /\ buckets[c].resetAt > now
  BY DEF HasLiveBucket, IsLive
<1>2. PICK a \in admitted : a.client = c /\ a.resetAt = buckets[c].resetAt /\ a.number = n
  BY <1>1 DEF QuotaInv, CountInv
<1>3. a.resetAt <= a.time + RateWindow /\ a.resetAt \in Nat /\ a.time \in Nat /\ now \in Nat
  BY DEF QuotaInv, AdmissionInv, TypeOK, Admission
<1> QED
  BY <1>1, <1>2, <1>3, LimitsAssumption DEF Recent

\* The verdict on a request adds at most one admission to the history.
LEMMA DecideAdmits ==
    ASSUME NEW r, NEW c, NEW bucket, Decide(r, c, bucket)
    PROVE  admitted' = admitted \/ \E x : admitted' = admitted \cup {x}
<1>1. CASE WithinLimit(bucket.count)
  BY <1>1 DEF Decide
<1>2. CASE ~WithinLimit(bucket.count)
  BY <1>2 DEF Decide
<1> QED
  BY <1>1, <1>2

\* So does a step, whoever takes it.
LEMMA StepAdmits ==
    ASSUME [Next]_vars
    PROVE  admitted' = admitted \/ \E x : admitted' = admitted \cup {x}
<1>1. CASE UNCHANGED vars
  BY <1>1 DEF vars
<1>2. CASE Tick
  BY <1>2 DEF Tick
<1>3. ASSUME NEW r \in Requests, Forbid(r) \/ RejectBody(r) \/ Begin(r)
      PROVE  admitted' = admitted
  BY <1>3 DEF Forbid, RejectBody, Begin
<1>4. ASSUME NEW r \in Requests, Settle(r)
      PROVE  admitted' = admitted
  BY <1>4 DEF Settle, Convert, FallBack, Fail
<1>5. ASSUME NEW r \in Requests, NEW c \in Clients, CountInBucket(r, c)
      PROVE  admitted' = admitted \/ \E x : admitted' = admitted \cup {x}
  <2>1. Decide(r, c, Counted(c)[c])
    BY <1>5 DEF CountInBucket
  <2> QED
    BY <2>1, DecideAdmits
<1>6. ASSUME NEW r \in Requests, NEW c \in Clients, OpenBucket(r, c)
      PROVE  admitted' = admitted \/ \E x : admitted' = admitted \cup {x}
  <2>1. Decide(r, c, Opened(c)[c])
    BY <1>6 DEF OpenBucket
  <2> QED
    BY <2>1, DecideAdmits
<1>7. ASSUME NEW r \in Requests, NEW c \in Clients, TurnAway(r, c)
      PROVE  admitted' = admitted
  BY <1>7 DEF TurnAway
<1> QED
  BY <1>1, <1>2, <1>3, <1>4, <1>5, <1>6, <1>7 DEF Next, Arrive

LEMMA HistoryStep ==
    ASSUME IsFiniteSet(admitted), [Next]_vars
    PROVE  IsFiniteSet(admitted)'
<1>1. CASE admitted' = admitted
  BY <1>1
<1>2. CASE \E x : admitted' = admitted \cup {x}
  BY <1>2, FS_AddElement
<1> QED
  BY <1>1, <1>2, StepAdmits

LEMMA RefusalFromInv ==
    ASSUME TypeOK, QuotaInv, IsFiniteSet(admitted),
           NEW r \in Requests, NEW c \in Clients,
           Arrive(r, c), calls'[r].status = 429, calls'[r].pc = "idle"
    PROVE  \/ Cardinality(Recent(c)) >= RateLimit
           \/ Cardinality({k \in Clients : Recent(k) # {}}) >= MaxTracked
<1> USE LimitsAssumption
<1>0. calls \in [Requests -> Call]
  BY DEF TypeOK
<1>1. ASSUME CountInBucket(r, c)
      PROVE  Cardinality(Recent(c)) >= RateLimit
  <2>1. HasLiveBucket(c) /\ c \in DOMAIN buckets
    BY <1>1 DEF CountInBucket, HasLiveBucket
  <2>2. /\ Counted(c)[c].count = buckets[c].count + 1
        /\ buckets[c].count \in Nat
    <3>1. Counted(c)[c] = [resetAt |-> buckets[c].resetAt, count |-> buckets[c].count + 1]
      BY <2>1, BucketMaps
    <3> QED
      BY <2>1, <3>1 DEF TypeOK, Bucket
  <2>3. ~(Counted(c)[c].count <= RateLimit)
    <3>1. SUFFICES ASSUME Counted(c)[c].count <= RateLimit
                   PROVE  FALSE
      OBVIOUS
    <3>2. calls' = [calls EXCEPT ![r].pc = "body", ![r].status = 0]
      BY <1>1, <3>1 DEF CountInBucket, Decide, WithinLimit
    <3>3. calls'[r].status = 0
      BY <1>0, <3>2 DEF Call
    <3> QED
      BY <3>3
  <2>4. \A n \in 1 .. RateLimit : \E a \in Recent(c) : a.number = n
    BY <2>1, <2>2, <2>3, RecentIsNumbered
  <2> DEFINE Pick == [n \in 1 .. RateLimit |-> CHOOSE a \in Recent(c) : a.number = n]
  <2>5. \A n \in 1 .. RateLimit : Pick[n] \in Recent(c) /\ Pick[n].number = n
    BY <2>4
  <2>6. Pick \in Injection(1 .. RateLimit, Recent(c))
    <3>1. Pick \in [1 .. RateLimit -> Recent(c)]
      BY <2>5
    <3>2. \A m, n \in 1 .. RateLimit : Pick[m] = Pick[n] => m = n
      BY <2>5
    <3> QED
      BY <3>1, <3>2 DEF Injection, IsInjective
  <2>7. IsFiniteSet(Recent(c))
    BY FS_Subset DEF Recent
  <2>8. Cardinality(1 .. RateLimit) = RateLimit
    BY FS_Interval
  <2> HIDE DEF Pick
  <2>9. Cardinality(1 .. RateLimit) <= Cardinality(Recent(c))
    BY <2>6, <2>7, FS_Injection
  <2> QED
    BY <2>7, <2>8, <2>9, FS_CardinalityType
<1>2. ASSUME OpenBucket(r, c)
      PROVE  FALSE
  <2>1. Opened(c)[c].count = 1
    <3>1. Opened(c)[c] = [resetAt |-> now + RateWindow, count |-> 1]
      BY BucketMaps
    <3> QED
      BY <3>1
  <2>2. calls' = [calls EXCEPT ![r].pc = "body", ![r].status = 0]
    BY <1>2, <2>1 DEF OpenBucket, Decide, WithinLimit
  <2>3. calls'[r].status = 0
    BY <1>0, <2>2 DEF Call
  <2> QED
    BY <2>3
<1>3. ASSUME TurnAway(r, c)
      PROVE  Cardinality({k \in Clients : Recent(k) # {}}) >= MaxTracked
  <2>1. TableIsFull(Reclaimed)
    BY <1>3 DEF TurnAway
  <2>2. /\ DOMAIN Reclaimed \subseteq DOMAIN buckets
        /\ TableIsFull(buckets) => \A k \in DOMAIN Reclaimed : IsLive(buckets[k])
    BY BucketMaps
  <2>3. TableIsFull(buckets)
    BY <2>1, TrackedIsFinite DEF TableIsFull
  <2>4. \A k \in DOMAIN Reclaimed : k \in Clients /\ HasLiveBucket(k)
    BY <2>2, <2>3 DEF TypeOK, HasLiveBucket
  <2>5. \A k \in DOMAIN Reclaimed : Recent(k) # {}
    <3> SUFFICES ASSUME NEW k \in DOMAIN Reclaimed
                 PROVE  Recent(k) # {}
      OBVIOUS
    <3>1. 1 \in 1 .. RateLimit /\ 1 <= buckets[k].count
      BY <2>4 DEF HasLiveBucket, TypeOK, Bucket
    <3> QED
      BY <2>4, <3>1, RecentIsNumbered
  <2>6. DOMAIN Reclaimed \subseteq {k \in Clients : Recent(k) # {}}
    BY <2>4, <2>5
  <2>7. IsFiniteSet({k \in Clients : Recent(k) # {}})
    BY FS_Subset
  <2>8. Cardinality(DOMAIN Reclaimed) <= Cardinality({k \in Clients : Recent(k) # {}})
    BY <2>6, <2>7, FS_Subset
  <2>9. Cardinality({k \in Clients : Recent(k) # {}}) \in Nat
    BY <2>7, FS_CardinalityType
  <2> QED
    BY <2>1, <2>8, <2>9, TrackedIsFinite DEF TableIsFull
<1> QED
  BY <1>1, <1>2, <1>3 DEF Arrive

\* A client is refused only when it had its limit within the last window, or
\* the table is full of clients that were admitted within it.
THEOREM RefusalsAreJustified == Spec => RefusalIsJustified
<1>1. Init => IsFiniteSet(admitted)
  BY FS_EmptySet DEF Init
<1>2. ASSUME TypeOK, QuotaInv, IsFiniteSet(admitted), [Next]_vars
      PROVE  [\A r \in Requests, c \in Clients :
                 Arrive(r, c) /\ calls'[r].status = 429 /\ calls'[r].pc = "idle" =>
                    \/ Cardinality(Recent(c)) >= RateLimit
                    \/ Cardinality({k \in Clients : Recent(k) # {}}) >= MaxTracked]_vars
  BY <1>2, RefusalFromInv
<1> QED
  BY <1>1, <1>2, TypeInit, TypeStep, QuotaInit, QuotaStep, HistoryStep, PTL
     DEF Spec, RefusalIsJustified

-----------------------------------------------------------------------------
(* Conversions *)

\* A running conversion has a timer that is not overdue; the second
\* converter's follows the first's.
TimerInv ==
    \A r \in Requests : Converting(r) =>
        /\ now <= calls[r].deadline
        /\ calls[r].pc = "remote" =>
             RemoteConfigured /\ calls[r].deadline <= calls[r].began + ConversionTimeout
        /\ calls[r].deadline <= calls[r].began
             + (IF RemoteConfigured THEN 2 ELSE 1) * ConversionTimeout

LEMMA TimerStep ==
    ASSUME TypeOK, TimerInv, [Next]_vars
    PROVE  TimerInv'
<1> USE LimitsAssumption
<1>0. now \in Nat /\ calls \in [Requests -> Call] /\ now + ConversionTimeout \in Nat
  BY DEF TypeOK
<1>1. CASE Tick
  <2> SUFFICES ASSUME NEW r \in Requests, Converting(r)
               PROVE  now' <= calls[r].deadline
    BY <1>1 DEF Tick, TimerInv, Converting
  <2>1. now < calls[r].deadline /\ calls[r].deadline \in Nat
    BY <1>0, <1>1 DEF Tick, Call
  <2> QED
    BY <1>0, <1>1, <2>1 DEF Tick
<1>2. ASSUME NEW r \in Requests,
             \/ Forbid(r) \/ RejectBody(r) \/ Convert(r) \/ Fail(r)
             \/ \E c \in Clients : Arrive(r, c)
      PROVE  TimerInv'
  <2>1. /\ now' = now /\ calls'[r].pc \in {"idle", "body"}
        /\ \A q \in Requests \ {r} : calls'[q] = calls[q]
    BY <1>0, <1>2 DEF Forbid, RejectBody, Convert, Fail, Arrive, CountInBucket,
       OpenBucket, TurnAway, Decide, Idle, Call
  <2> QED
    BY <2>1 DEF TimerInv, Converting
<1>3. ASSUME NEW r \in Requests, Begin(r)
      PROVE  TimerInv'
  <2> DEFINE begun == [calls[r] EXCEPT !.began = now]
             converter == IF RemoteConfigured THEN "remote" ELSE "local"
  <2>1. begun \in Call /\ begun.began = now
    BY <1>0 DEF Call
  <2>2. /\ Try(begun, converter).pc = converter
        /\ Try(begun, converter).began = now
        /\ Try(begun, converter).deadline = now + ConversionTimeout
    BY <1>0, <2>1, TryFields
  <2>3. /\ now' = now /\ calls'[r] = Try(begun, converter)
        /\ \A q \in Requests \ {r} : calls'[q] = calls[q]
    BY <1>0, <1>3 DEF Begin
  <2> HIDE DEF begun
  <2>4. /\ now' <= calls'[r].deadline
        /\ calls'[r].pc = "remote" => RemoteConfigured
        /\ calls'[r].deadline <= calls'[r].began + ConversionTimeout
        /\ calls'[r].deadline <= calls'[r].began
             + (IF RemoteConfigured THEN 2 ELSE 1) * ConversionTimeout
    BY <1>0, <2>2, <2>3
  <2> QED
    BY <2>3, <2>4 DEF TimerInv, Converting
<1>4. ASSUME NEW r \in Requests, FallBack(r)
      PROVE  TimerInv'
  <2>1. /\ Try(calls[r], "local").pc = "local"
        /\ Try(calls[r], "local").began = calls[r].began
        /\ Try(calls[r], "local").deadline = now + ConversionTimeout
    BY <1>0, TryFields
  <2>2. /\ now' = now /\ calls'[r] = Try(calls[r], "local")
        /\ \A q \in Requests \ {r} : calls'[q] = calls[q]
        /\ calls[r].pc = "remote"
    BY <1>0, <1>4 DEF FallBack
  <2>3. /\ now <= calls[r].deadline /\ RemoteConfigured
        /\ calls[r].deadline <= calls[r].began + ConversionTimeout
        /\ calls[r].deadline \in Nat /\ calls[r].began \in Nat
    BY <1>0, <2>2 DEF TimerInv, Converting, Call
  <2>4. /\ now' <= calls'[r].deadline
        /\ calls'[r].pc = "local"
        /\ calls'[r].deadline <= calls'[r].began
             + (IF RemoteConfigured THEN 2 ELSE 1) * ConversionTimeout
    BY <1>0, <2>1, <2>2, <2>3
  <2> QED
    BY <2>2, <2>4 DEF TimerInv, Converting
<1>5. CASE UNCHANGED vars
  BY <1>5 DEF vars, TimerInv, Converting
<1> QED
  BY <1>1, <1>2, <1>3, <1>4, <1>5 DEF Next, Settle

\* A conversion is never older than one time-out per converter.
THEOREM ConversionsAreBounded == Spec => []ConversionBounded
<1>1. Init => TimerInv
  BY DEF Init, TimerInv, Converting, Idle
<1>2. TypeOK /\ TimerInv => ConversionBounded
  BY LimitsAssumption DEF TypeOK, Call, TimerInv, ConversionBounded, Converting
<1> QED
  BY <1>1, <1>2, TypeInit, TypeStep, TimerStep, PTL DEF Spec
=============================================================================
