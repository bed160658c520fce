-------------------------- MODULE ProviderRequests --------------------------
(***************************************************************************)
(* IngestionRunner with the inside of an attempt: refresh_symbol asks the  *)
(* provider for daily bars, then for fundamentals, and stores both.  The   *)
(* HTTP clients send a request again after a fault; yfinance runs in a     *)
(* thread of the event loop's pool.  The runner gives an attempt a limited *)
(* time: an HTTP request is cancelled with it, a thread cannot be.         *)
(* Abstracted: back-off delays, request intervals and what an answer says. *)
(***************************************************************************)
EXTENDS IngestionRunner

CONSTANTS
    MaxRetries,  \* of a request by an HTTP client
    PoolSize     \* threads of a process

ASSUME ProvidersAreRegistered ==
    Providers \subseteq {"alpha_vantage", "finnhub", "yahoo_finance"}

ASSUME RetriesAndPool == MaxRetries \in Nat /\ PoolSize \in Nat \ {0}

VARIABLES
    fetch,    \* the attempt in progress: [Calls -> Fetch]
    wire,     \* requests a connection or a thread is busy with: set of Request
    answered  \* requests whose answer the attempt has used

fetching     == <<fetch, wire, answered>>
providerVars == <<vars, fetching>>

Kinds   == {"bars", "fundamentals"}
Phases  == {"none", "send", "wait", "store"}
Fetch   == [phase : Phases, kind : Kinds, tries : 0 .. MaxRetries + 1]
Request == [call : Calls, symbol : Symbols, attempt : 1 .. MaxAttempts, kind : Kinds]

NoFetch == [phase |-> "none", kind |-> "bars", tries |-> 0]

\* Connection fault, HTTP 5xx, HTTP 429, another refusal (4xx or an error in the
\* payload), data that does not parse, good data.
Responses == {"lost", "server_error", "throttled", "refused", "unusable", "good"}

ProviderInit ==
    /\ Init
    /\ fetch = [c \in Calls |-> NoFetch]
    /\ wire = {}
    /\ answered = {}

-----------------------------------------------------------------------------
(* The clients *)

\* Faults and server errors are retried, a rate limit is not.
AlphaVantageVerdict(response, tries) ==
    IF response = "good" THEN "accept"
    ELSE IF response \in {"lost", "server_error"} /\ tries <= MaxRetries THEN "again"
    ELSE "give_up"

\* Mutant: one request too many.
FinnhubAsksMore(response, tries) ==
    IF response \in {"lost", "server_error"} /\ tries <= MaxRetries + 1 THEN "again"
    ELSE IF response = "good" THEN "accept"
    ELSE "give_up"

FinnhubVerdict(response, tries) ==
    IF response \in {"lost", "server_error"} /\ tries < MaxRetries + 1 THEN "again"
    ELSE IF response = "good" THEN "accept"
    ELSE "give_up"

YahooVerdict(response) == IF response = "good" THEN "accept" ELSE "give_up"

\* create_data_source: the adapter of each provider.
Verdict(provider, response, tries) ==
    CASE provider = "alpha_vantage" -> AlphaVantageVerdict(response, tries)
      [] provider = "finnhub"       -> FinnhubVerdict(response, tries)
      [] provider = "yahoo_finance" -> YahooVerdict(response)

\* YahooFinanceAdapter hands its requests to asyncio.to_thread.
Threaded(c) == job[c].provider = "yahoo_finance"

Attempting(c) == pc[c] = "attempt" /\ fetch[c].phase # "none"

\* q is the request whose answer call c waits for.
Awaits(c, q) ==
    /\ Attempting(c) /\ fetch[c].phase = "wait"
    /\ q.call = c /\ IsNext(c, q.symbol) /\ q.attempt = attempt[c] /\ q.kind = fetch[c].kind

RequestsOf(c) == {q \in wire : q.call = c}

-----------------------------------------------------------------------------
(* The inside of an attempt *)

FetchNext(c, phase, kind, tries) ==
    fetch' = [fetch EXCEPT ![c] = [phase |-> phase, kind |-> kind, tries |-> tries]]

\* Mutant: bars that an earlier attempt fetched are not fetched again.
ReuseBars(c) ==
    LET has == \E q \in answered : q.call = c /\ q.kind = "bars" /\ IsNext(c, q.symbol) IN
    /\ pc[c] = "attempt"
    /\ fetch[c].phase = "none"
    /\ \E s \in Symbols : IsNext(c, s) /\ requests' = [requests EXCEPT ![c][s] = @ + 1]
    /\ FetchNext(c, "send", IF has THEN "fundamentals" ELSE "bars", 0)
    /\ UNCHANGED <<tables, lock, pc, job, attempt, failures, outcomes, exitCode>>
    /\ UNCHANGED <<wire, answered>>

BeginAttempt(c) ==
    /\ pc[c] = "attempt"
    /\ fetch[c].phase = "none"
    /\ \E s \in Symbols : IsNext(c, s) /\ requests' = [requests EXCEPT ![c][s] = @ + 1]
    /\ FetchNext(c, "send", "bars", 0)
    /\ UNCHANGED <<tables, lock, pc, job, attempt, failures, outcomes, exitCode>>
    /\ UNCHANGED <<wire, answered>>

\* A thread needs a place in the pool; until then the request is queued.
Send(c) ==
    /\ Attempting(c) /\ fetch[c].phase = "send"
    /\ Threaded(c) => Cardinality(RequestsOf(c)) < PoolSize
    /\ \E s \in Symbols :
          IsNext(c, s) /\ wire' = wire \cup {[call |-> c, symbol |-> s, attempt |-> attempt[c],
                                             kind |-> fetch[c].kind]}
    /\ FetchNext(c, "wait", fetch[c].kind, fetch[c].tries + 1)
    /\ UNCHANGED <<vars, answered>>

\* The attempt is over without data to store.
FailAttempt(c) ==
    /\ RetryOrGiveUp(c)
    /\ fetch' = [fetch EXCEPT ![c] = NoFetch]
    /\ UNCHANGED <<tables, lock, job, outcomes, requests, exitCode, answered>>

Respond(c, q, response) ==
    LET verdict == Verdict(job[c].provider, response, fetch[c].tries) IN
    /\ Awaits(c, q)
    /\ wire' = wire \ {q}
    /\ \/ /\ verdict = "accept"
          /\ IF q.kind = "bars" THEN FetchNext(c, "send", "fundamentals", 0)
             ELSE FetchNext(c, "store", "fundamentals", 0)
          /\ answered' = answered \cup {q}
          /\ UNCHANGED vars
       \/ /\ verdict = "again"
          /\ FetchNext(c, "send", q.kind, fetch[c].tries)
          /\ UNCHANGED <<vars, answered>>
       \/ verdict = "give_up" /\ FailAttempt(c)

\* Upserts and item are committed together.  The answers may be of another
\* symbol, the database may fail, and the answer of a commit that took effect may
\* be lost.
Store(c) ==
    /\ Attempting(c) /\ fetch[c].phase = "store"
    /\ \/ FailAttempt(c)
       \/ \E s \in Symbols :
            /\ IsNext(c, s)
            /\ ~HasItem(c, s)
            /\ items' = items \cup {ItemOf(c, s, "succeeded")}
            /\ refreshed' = refreshed \cup {<<c, s>>}
            /\ fetch' = [fetch EXCEPT ![c] = NoFetch]
            /\ \/ /\ failures' = [failures EXCEPT ![c] = 0]
                  /\ outcomes' = [outcomes EXCEPT ![c] = @ \cup {<<s, TRUE>>}]
                  /\ Goto(c, "next_symbol")
                  /\ UNCHANGED attempt
               \/ RetryOrGiveUp(c) /\ UNCHANGED outcomes
            /\ UNCHANGED <<runs, lock, job, requests, exitCode, answered>>
    /\ UNCHANGED wire

\* Mutant: the time-out bounds the wait for an answer only.
TimeOutOfAnswers(c) ==
    /\ Attempting(c) /\ fetch[c].phase = "wait"
    /\ FailAttempt(c)
    /\ wire' = IF Threaded(c) THEN wire ELSE wire \ RequestsOf(c)

\* Mutant: the request goes on behind the back of the runner.
LeaveRequest(c) == Attempting(c) /\ FailAttempt(c) /\ UNCHANGED wire

\* Mutant: an attempt that ran out of time does not count.
UncountedTimeOut(c) ==
    /\ Attempting(c)
    /\ fetch' = [fetch EXCEPT ![c] = NoFetch]
    /\ wire' = IF Threaded(c) THEN wire ELSE wire \ RequestsOf(c)
    /\ UNCHANGED <<vars, answered>>

\* asyncio.wait_for ends the attempt in whatever it waits for, a place in the
\* pool included.  A thread that has started goes on.
TimeOut(c) ==
    /\ Attempting(c)
    /\ FailAttempt(c)
    /\ wire' = IF Threaded(c) THEN wire ELSE wire \ RequestsOf(c)

\* A thread nobody waits for ends and its result is dropped.
ThreadEnds(q) ==
    /\ q \in wire
    /\ Threaded(q.call) /\ ~Awaits(q.call, q)
    /\ wire' = wire \ {q}
    /\ UNCHANGED <<vars, fetch, answered>>

-----------------------------------------------------------------------------
(* The runner around it *)

RunnerWork(c) ==
    /\ \/ TryLock(c) \/ CreateRun(c) \/ OpenSource(c) \/ NextSymbol(c)
       \/ SaveFailed(c) \/ CompleteRun(c) \/ Unlock(c)
    /\ UNCHANGED fetching

\* The requests and threads of a process end with it.
DieAsking(c) ==
    /\ Die(c)
    /\ wire' = wire \ RequestsOf(c)
    /\ UNCHANGED <<fetch, answered>>

ProviderNext ==
    \/ \E c \in Calls :
        \/ Refuse(c) /\ UNCHANGED fetching
        \/ \E p \in Providers, S \in SUBSET Symbols : Start(c, p, S) /\ UNCHANGED fetching
        \/ RunnerWork(c)
        \/ BeginAttempt(c)
        \/ Send(c)
        \/ \E q \in wire, response \in Responses : Respond(c, q, response)
        \/ Store(c)
        \/ TimeOut(c)
        \/ LoseConnection(c) /\ UNCHANGED fetching
        \/ DieAsking(c)
    \/ \E q \in wire : ThreadEnds(q)

ProviderSpec == ProviderInit /\ [][ProviderNext]_providerVars

\* The event loop and the database go on; nobody promises that a provider
\* answers or that a thread ends.
Progress(c) == RunnerWork(c) \/ BeginAttempt(c) \/ Store(c) \/ TimeOut(c)

FairProviderSpec == ProviderSpec /\ \A c \in Calls : WF_providerVars(Progress(c))

-----------------------------------------------------------------------------
(* Properties *)

\* Every variable has its type; a request is sent MaxRetries + 1 times at most.
ProviderTypeOK ==
    /\ TypeOK
    /\ fetch \in [Calls -> Fetch]
    /\ wire \subseteq Request
    /\ answered \subseteq Request

\* Over HTTP a call has no request open but the one its attempt waits for: no
\* attempt, retry or symbol begins while an earlier one still asks.  With the
\* lock of the provider (OneRunPerProvider) that is one request per provider.
OneHttpRequest == \A q \in wire : Threaded(q.call) \/ Awaits(q.call, q)

\* What a run stores was fetched by one attempt, which asked for both parts and
\* was still in time when they came: nothing of an attempt that timed out, of a
\* thread that answered late, or of another attempt is mixed in.
StoredFromOneAttempt ==
    \A c \in Calls, s \in Symbols : <<c, s>> \in refreshed =>
        \E a \in 1 .. MaxAttempts : \A kind \in Kinds :
            [call |-> c, symbol |-> s, attempt |-> a, kind |-> kind] \in answered

\* The attempts that are over, by call and symbol.
AttemptsEnded ==
    [c \in Calls |-> [s \in Symbols |->
        IF fetch[c].phase # "none" /\ IsNext(c, s) THEN requests[c][s] - 1 ELSE requests[c][s]]]

Runner == INSTANCE IngestionRunner WITH requests <- AttemptsEnded

\* Whatever client, threads and time-outs do, the runner sees an attempt that
\* stored everything, or one that failed and stored nothing it knows of.
RunnerSpec == Runner!Spec
=============================================================================
