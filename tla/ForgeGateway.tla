---------------------------- MODULE ForgeGateway ----------------------------
(***************************************************************************)
(* The conversion endpoint of the web application,                         *)
(* webapp/app/api/forge/convert/route.ts: a table of rate-limit buckets    *)
(* shared by all requests, and for each admitted request a conversion by   *)
(* the remote backend, by the bundled script, or by one after the other.   *)
(*                                                                         *)
(* JavaScript runs one callback at a time: rateLimit is one step, and      *)
(* requests interleave where the handler awaits (the body, the backend,    *)
(* the script's process).  A key of Clients is what getClientKey returns;  *)
(* without trusted proxies there is the one key "shared".  Not modelled:   *)
(* the texts, the headers of an answer, and telemetry.                     *)
(***************************************************************************)
EXTENDS Naturals, FiniteSets, Functions

CONSTANTS
    Clients,            \* the keys that getClientKey returns
    Requests,           \* connections; one carries many requests in turn
    RateLimit,          \* RATE_LIMIT
    RateWindow,         \* RATE_WINDOW_MS
    MaxTracked,         \* MAX_TRACKED_CLIENTS
    ConversionTimeout,  \* CONVERSION_TIMEOUT_MS
    RemoteConfigured,   \* is LOGAN_FORGE_BACKEND_URL set?
    MaxCount,           \* bound: counted requests of one bucket
    MaxTime             \* bound: nothing arrives or begins after it

ASSUME LimitsAssumption ==
    /\ IsFiniteSet(Clients)
    /\ RateLimit \in Nat \ {0}
    /\ RateWindow \in Nat \ {0}
    /\ MaxTracked \in Nat \ {0}
    /\ ConversionTimeout \in Nat \ {0}
    /\ RemoteConfigured \in BOOLEAN
    /\ MaxCount \in Nat
    /\ MaxTime \in Nat

VARIABLES
    now,        \* Date.now()
    buckets,    \* the Map: tracked client |-> its bucket
    calls,      \* the request that each connection carries
    admitted    \* history: when each admitted request was counted

vars == <<now, buckets, calls, admitted>>

Bucket == [resetAt : Nat, count : Nat \ {0}]

Call == [pc       : {"idle", "body", "remote", "local"},
         status   : {0, 200, 400, 403, 429, 502},   \* of the latest answer
         began    : Nat,                            \* when the conversion began
         deadline : Nat]                            \* when its timer fires

Admission == [client : Clients, resetAt : Nat, number : Nat \ {0}, time : Nat]

\* A connection whose latest request was answered with this status.
Idle(status) == [pc |-> "idle", status |-> status, began |-> 0, deadline |-> 0]

Init ==
    /\ now = 0
    /\ buckets = [c \in {} |-> [resetAt |-> 0, count |-> 1]]
    /\ calls = [r \in Requests |-> Idle(0)]
    /\ admitted = {}

-----------------------------------------------------------------------------
(* rateLimit *)

IsLive(bucket) == bucket.resetAt > now

HasLiveBucket(c) == c \in DOMAIN buckets /\ IsLive(buckets[c])

\* Mutant: one bucket too many.
TableIsFullTooLate(table) == Cardinality(DOMAIN table) > MaxTracked

TableIsFull(table) == Cardinality(DOMAIN table) >= MaxTracked

\* Mutant: the whole table is cleared, live buckets too.
Emptied ==
    IF TableIsFull(buckets) THEN Restrict(buckets, {}) ELSE buckets

\* A full table is cleared of the buckets whose window is over.
Reclaimed ==
    IF TableIsFull(buckets)
    THEN Restrict(buckets, {c \in DOMAIN buckets : IsLive(buckets[c])})
    ELSE buckets

Counted(c) == [buckets EXCEPT ![c].count = @ + 1]

\* Mutant: the first request is not counted.
NotCounted == 0

FirstCount == 1

Opened(c) ==
    [k \in DOMAIN Reclaimed \cup {c} |->
        IF k = c THEN [resetAt |-> now + RateWindow, count |-> FirstCount]
                 ELSE Reclaimed[k]]

\* Mutant: the last request of the limit is refused.
BelowLimit(count) == count < RateLimit

WithinLimit(count) == count <= RateLimit

\* What the handler does with the verdict on a request counted in bucket.
Decide(r, c, bucket) ==
    IF WithinLimit(bucket.count)
    THEN /\ calls' = [calls EXCEPT ![r].pc = "body", ![r].status = 0]
         /\ admitted' = admitted \cup
              {[client |-> c, resetAt |-> bucket.resetAt,
                number |-> bucket.count, time |-> now]}
    ELSE /\ calls' = [calls EXCEPT ![r] = Idle(429)]
         /\ UNCHANGED admitted

Arrives(r) == calls[r].pc = "idle" /\ now <= MaxTime

\* Another origin, or no valid CSRF token: refused before it is counted.
Forbid(r) ==
    /\ Arrives(r)
    /\ calls' = [calls EXCEPT ![r] = Idle(403)]
    /\ UNCHANGED <<now, buckets, admitted>>

CountInBucket(r, c) ==
    /\ Arrives(r)
    /\ HasLiveBucket(c)
    /\ buckets[c].count < MaxCount
    /\ buckets' = Counted(c)
    /\ Decide(r, c, Counted(c)[c])
    /\ UNCHANGED now

OpenBucket(r, c) ==
    /\ Arrives(r)
    /\ ~HasLiveBucket(c)
    /\ ~TableIsFull(Reclaimed)
    /\ buckets' = Opened(c)
    /\ Decide(r, c, Opened(c)[c])
    /\ UNCHANGED now

\* The table is full of live buckets of other clients.
TurnAway(r, c) ==
    /\ Arrives(r)
    /\ ~HasLiveBucket(c)
    /\ TableIsFull(Reclaimed)
    /\ buckets' = Reclaimed
    /\ calls' = [calls EXCEPT ![r] = Idle(429)]
    /\ UNCHANGED <<now, admitted>>

Arrive(r, c) == CountInBucket(r, c) \/ OpenBucket(r, c) \/ TurnAway(r, c)

-----------------------------------------------------------------------------
(* POST after rateLimit, proxyToBackend and runLocalScript *)

\* Mutant: a timer for both converters is given to each of them.
TimerForBoth(start) == start + 2 * ConversionTimeout

TimerFrom(start) == start + ConversionTimeout

\* Mutant: a backend that failed is tried again.
TryAgain(call, converter) ==
    [call EXCEPT !.pc = IF call.pc = "remote" THEN "remote" ELSE converter,
                 !.deadline = TimerFrom(now)]

Try(call, converter) ==
    [call EXCEPT !.pc = converter, !.deadline = TimerFrom(now)]

RejectBody(r) ==
    /\ calls[r].pc = "body"
    /\ calls' = [calls EXCEPT ![r] = Idle(400)]
    /\ UNCHANGED <<now, buckets, admitted>>

Begin(r) ==
    /\ calls[r].pc = "body"
    /\ now <= MaxTime
    /\ calls' = [calls EXCEPT ![r] =
         Try([@ EXCEPT !.began = now],
             IF RemoteConfigured THEN "remote" ELSE "local")]
    /\ UNCHANGED <<now, buckets, admitted>>

\* The converter returned a valid conversion; the timer is cleared.
Convert(r) ==
    /\ calls[r].pc \in {"remote", "local"}
    /\ calls' = [calls EXCEPT ![r] = Idle(200)]
    /\ UNCHANGED <<now, buckets, admitted>>

\* The backend's answer is an error or invalid, or the fetch was aborted by
\* its timer: the bundled script is tried, under a timer of its own.
FallBack(r) ==
    /\ calls[r].pc = "remote"
    /\ calls' = [calls EXCEPT ![r] = Try(@, "local")]
    /\ UNCHANGED <<now, buckets, admitted>>

\* The script could not be started, printed no valid conversion, or was
\* killed by its timer.
Fail(r) ==
    /\ calls[r].pc = "local"
    /\ calls' = [calls EXCEPT ![r] = Idle(502)]
    /\ UNCHANGED <<now, buckets, admitted>>

Converting(r) == calls[r].pc \in {"remote", "local"}

\* Timers fire when they are due: the clock does not pass one that is set.
Tick ==
    /\ now < MaxTime + 2 * ConversionTimeout
    /\ \A r \in Requests : Converting(r) => now < calls[r].deadline
    /\ now' = now + 1
    /\ UNCHANGED <<buckets, calls, admitted>>

Settle(r) == Convert(r) \/ FallBack(r) \/ Fail(r)

Next ==
    \/ Tick
    \/ \E r \in Requests :
         \/ Forbid(r) \/ RejectBody(r) \/ Begin(r) \/ Settle(r)
         \/ \E c \in Clients : Arrive(r, c)

Spec == Init /\ [][Next]_vars

\* Time passes.  A timer that is due stops the clock until it has fired, so
\* a converter that hangs is settled too.  Nothing makes a client send its
\* body.
FairSpec ==
    /\ Spec
    /\ WF_vars(Tick)
    /\ \A r \in Requests : WF_vars(Settle(r) /\ now = calls[r].deadline)

-----------------------------------------------------------------------------
(* Properties *)

TypeOK ==
    /\ now \in Nat
    /\ buckets = [c \in DOMAIN buckets |-> buckets[c]]
    /\ DOMAIN buckets \subseteq Clients
    /\ \A c \in DOMAIN buckets : buckets[c] \in Bucket
    /\ calls \in [Requests -> Call]
    /\ admitted \subseteq Admission

\* In any span of one window's length, wherever it starts, a client gets at
\* most one request less than twice its limit: the span may reach over the
\* end of one bucket and the start of the next, but then misses the request
\* that opened the first.  Neither other clients nor a full table give it
\* more (route.ts:43-51).
QuotaOverAnyWindow ==
    \A a \in admitted :
        Cardinality({b \in admitted :
            b.client = a.client /\ b.time \in a.time .. (a.time + RateWindow - 1)})
          <= 2 * RateLimit - 1

\* The table never holds more than its limit of buckets.
TableBounded == Cardinality(DOMAIN buckets) <= MaxTracked

Recent(c) == {a \in admitted : a.client = c /\ now < a.time + RateWindow}

\* A client is refused for the rate only if it had its whole limit within
\* the last window, or the table is full of clients that were admitted
\* within the last window (route.ts:138-147).
RefusalIsJustified ==
    [][\A r \in Requests, c \in Clients :
         Arrive(r, c) /\ calls'[r].status = 429 /\ calls'[r].pc = "idle" =>
            \/ Cardinality(Recent(c)) >= RateLimit
            \/ Cardinality({k \in Clients : Recent(k) # {}}) >= MaxTracked]_vars

\* A conversion is never older than one time-out per converter tried: with a
\* backend configured two, otherwise one (route.ts:258, 335, 450).
ConversionBounded ==
    \A r \in Requests : Converting(r) =>
        now <= calls[r].began
                 + (IF RemoteConfigured THEN 2 ELSE 1) * ConversionTimeout

\* Every conversion is answered, even if both converters hang.
ConversionEnds == \A r \in Requests : Converting(r) ~> ~Converting(r)
=============================================================================
