------------------------ MODULE ProviderRequestsProofs ------------------------
(***************************************************************************)
(* For any number of calls, symbols, attempts, retries and threads: HTTP   *)
(* clients have no request open that nobody awaits, what is stored was     *)
(* fetched by one attempt, and a run that asks its provider step by step   *)
(* behaves like one of IngestionRunner.                                    *)
(***************************************************************************)
EXTENDS ProviderRequests, IngestionRunnerProofs

\* Types, as far as the steps of an attempt depend on them.
Shape ==
    /\ pc \in [Calls -> Labels]
    /\ job \in [Calls -> [provider : Providers, symbols : SUBSET Symbols] \cup {NoJob}]
    /\ attempt \in [Calls -> Nat]
    /\ DOMAIN outcomes = Calls
    /\ requests \in [Calls -> [Symbols -> Int]]
    /\ fetch \in [Calls -> [phase : Phases, kind : Kinds, tries : Nat]]
    /\ wire \subseteq [call : Calls, symbol : Symbols, attempt : Nat, kind : Kinds]

Reply(c, s, a, kind) == [call |-> c, symbol |-> s, attempt |-> a, kind |-> kind]

\* An attempt has its number and, once it has begun, its symbol; nothing is
\* fetched outside of one, and nothing asked before the start; it has the
\* answers to the parts it no longer asks for; an HTTP request is one it waits for.
InStep(c) ==
    /\ pc[c] = "attempt" => attempt[c] \in 1 .. MaxAttempts
    /\ Attempting(c) => \E s \in Symbols : IsNext(c, s)
    /\ pc[c] \notin {"attempt", "ended"} => fetch[c].phase = "none"
    /\ \A s \in Symbols : Attempting(c) /\ IsNext(c, s) =>
          /\ fetch[c].kind = "fundamentals" => Reply(c, s, attempt[c], "bars") \in answered
          /\ fetch[c].phase = "store" =>
                /\ fetch[c].kind = "fundamentals"
                /\ Reply(c, s, attempt[c], "fundamentals") \in answered
    /\ pc[c] = "ready" => RequestsOf(c) = {}
    /\ \A q \in RequestsOf(c) : Threaded(c) \/ Awaits(c, q)

\* The inductive invariant.
AttemptsAreOrderly ==
    /\ Shape
    /\ \A c \in Calls : InStep(c)
    /\ StoredFromOneAttempt

\* A step of call c.
CallStep(c) ==
    \/ Refuse(c) /\ UNCHANGED fetching
    \/ \E p \in Providers, S \in SUBSET Symbols : Start(c, p, S) /\ UNCHANGED fetching
    \/ RunnerWork(c)
    \/ BeginAttempt(c)
    \/ Send(c)
    \/ \E q \in wire, response \in Responses : Respond(c, q, response)
    \/ Store(c)
    \/ TimeOut(c)
    \/ LoseConnection(c) /\ UNCHANGED fetching
    \/ DieAsking(c)

-----------------------------------------------------------------------------

\* A call has one next symbol.
LEMMA OneNextSymbol ==
    ASSUME NEW c \in Calls, NEW s \in Symbols, NEW t \in Symbols,
           IsNext(c, s), IsNext(c, t)
    PROVE  s = t
  BY SymbolsAreSorted DEF IsNext

\* What is next depends on the call's job and outcomes only.
LEMMA NextStays ==
    ASSUME NEW c \in Calls, NEW s,
           job'[c] = job[c], outcomes'[c] = outcomes[c]
    PROVE  IsNext(c, s)' <=> IsNext(c, s)
  BY DEF IsNext, Remaining, Settled

\* The end of an attempt: the next one or a failed symbol.
LEMMA AttemptIsOver ==
    ASSUME Shape, NEW c \in Calls, InStep(c), pc[c] = "attempt", RetryOrGiveUp(c)
    PROVE  /\ \/ pc' = pc
              \/ pc' = [pc EXCEPT ![c] = "save_failed"]
           /\ pc' \in [Calls -> Labels]
           /\ attempt' \in [Calls -> Nat]
           /\ \A d \in Calls : d # c => pc'[d] = pc[d] /\ attempt'[d] = attempt[d]
           /\ pc'[c] = "attempt" => attempt'[c] \in 1 .. MaxAttempts
           /\ pc'[c] \in {"attempt", "save_failed"}
<1>1. attempt[c] \in Nat /\ 1 <= attempt[c] /\ MaxAttempts \in Nat
  BY LimitsArePositive DEF InStep
<1>2. CASE /\ attempt[c] < MaxAttempts
           /\ attempt' = [attempt EXCEPT ![c] = @ + 1] /\ pc' = pc
  <2>1. attempt[c] + 1 \in Nat /\ attempt[c] + 1 \in 1 .. MaxAttempts
    BY <1>1, <1>2
  <2> QED
    BY <1>2, <2>1 DEF Shape
<1>3. CASE attempt' = attempt /\ pc' = [pc EXCEPT ![c] = "save_failed"]
  BY <1>3 DEF Shape, Labels
<1> QED
  BY <1>2, <1>3 DEF RetryOrGiveUp, Goto

\* Where the steps that are not part of an attempt leave a call.
LEMMA RunnerSteps ==
    ASSUME Shape, NEW c \in Calls,
           \/ Refuse(c)
           \/ \E p \in Providers, S \in SUBSET Symbols : Start(c, p, S)
           \/ TryLock(c) \/ CreateRun(c) \/ OpenSource(c) \/ NextSymbol(c)
           \/ SaveFailed(c) \/ CompleteRun(c) \/ Unlock(c)
    PROVE  /\ pc[c] \notin {"attempt", "ended"}
           /\ pc' \in [Calls -> Labels]
           /\ job' \in [Calls -> [provider : Providers, symbols : SUBSET Symbols] \cup {NoJob}]
           /\ attempt' \in [Calls -> Nat]
           /\ DOMAIN outcomes' = Calls
           /\ \A d \in Calls : d # c =>
                 /\ pc'[d] = pc[d] /\ job'[d] = job[d]
                 /\ attempt'[d] = attempt[d] /\ outcomes'[d] = outcomes[d]
           /\ pc'[c] = "attempt" => attempt'[c] = 1
           /\ pc'[c] # "ready"
           /\ UNCHANGED <<requests, refreshed>>
<1>1. CASE Refuse(c)
  BY <1>1 DEF Shape, Refuse, Leave, Goto, Labels, tables
<1>2. CASE \E p \in Providers, S \in SUBSET Symbols : Start(c, p, S)
  BY <1>2 DEF Shape, Start, Goto, Labels, tables
<1>3. CASE TryLock(c)
  BY <1>3 DEF Shape, TryLock, Leave, Goto, Labels, tables
<1>4. CASE CreateRun(c)
  BY <1>4 DEF Shape, CreateRun, Raise, Leave, Goto, Labels
<1>5. CASE OpenSource(c)
  BY <1>5 DEF Shape, OpenSource, Raise, Leave, Goto, Labels, tables
<1>6. CASE NextSymbol(c)
  <2>1. /\ \E l \in {"complete_run", "save_failed", "attempt"} :
               /\ pc' = [pc EXCEPT ![c] = l]
               /\ attempt' = attempt \/ attempt' = [attempt EXCEPT ![c] = 1]
               /\ l = "attempt" => attempt' = [attempt EXCEPT ![c] = 1]
        /\ pc[c] = "next_symbol"
        /\ UNCHANGED <<job, outcomes, requests, refreshed>>
    BY <1>6 DEF NextSymbol, Goto, tables
  <2> QED
    BY <2>1 DEF Shape, Labels
<1>7. CASE SaveFailed(c)
  <2>1. /\ \E l \in {"unlock", "next_symbol"} : pc' = [pc EXCEPT ![c] = l]
        /\ pc[c] = "save_failed"
        /\ \/ outcomes' = outcomes
           \/ \E s \in Symbols : outcomes' = [outcomes EXCEPT ![c] = @ \cup {<<s, FALSE>>}]
        /\ UNCHANGED <<job, attempt, requests, refreshed>>
    BY <1>7 DEF SaveFailed, Raise, Leave, Goto
  <2> QED
    BY <2>1 DEF Shape, Labels
<1>8. CASE CompleteRun(c)
  BY <1>8 DEF Shape, CompleteRun, Raise, Leave, Goto, Labels
<1>9. CASE Unlock(c)
  BY <1>9 DEF Shape, Unlock, Leave, Goto, Labels, tables
<1> QED
  BY <1>1, <1>2, <1>3, <1>4, <1>5, <1>6, <1>7, <1>8, <1>9

-----------------------------------------------------------------------------

\* A step of another call leaves call d in step.
LEMMA UnmovedStaysInStep ==
    ASSUME NEW d \in Calls, InStep(d),
           pc'[d] = pc[d], job'[d] = job[d], attempt'[d] = attempt[d],
           outcomes'[d] = outcomes[d], fetch'[d] = fetch[d],
           \A q \in wire' : q.call = d => q \in wire,
           answered \subseteq answered'
    PROVE  InStep(d)'
<1>1. \A s : IsNext(d, s)' <=> IsNext(d, s)
  BY NextStays
<1>2. /\ Attempting(d)' <=> Attempting(d)
      /\ Threaded(d)' <=> Threaded(d)
  BY DEF Attempting, Threaded
<1>3. \A q \in RequestsOf(d)' : q \in RequestsOf(d)
  BY DEF RequestsOf
<1>4. ASSUME NEW q \in RequestsOf(d), Awaits(d, q) PROVE Awaits(d, q)'
  BY <1>1, <1>2, <1>4 DEF Awaits
<1>5. \A s \in Symbols, kind \in Kinds : Reply(d, s, attempt[d], kind) \in answered =>
         Reply(d, s, attempt'[d], kind) \in answered'
  BY DEF Reply
<1> QED
  BY <1>1, <1>2, <1>3, <1>4, <1>5 DEF InStep, Kinds

\* A call outside of an attempt, or at the begin of one, is in step.
LEMMA IdleIsInStep ==
    ASSUME NEW c \in Calls, fetch'[c].phase = "none", pc'[c] # "ready",
           pc'[c] = "attempt" => attempt'[c] \in 1 .. MaxAttempts,
           \A q \in wire' : q.call = c => Threaded(c)'
    PROVE  InStep(c)'
  BY DEF InStep, Attempting, RequestsOf

-----------------------------------------------------------------------------

\* Begin, request, answer and the end of an attempt, as seen from the call.
\* A step inside an attempt keeps the runner's variables.
LEMMA BeginKeepsStep ==
    ASSUME AttemptsAreOrderly, NEW c \in Calls, BeginAttempt(c)
    PROVE  InStep(c)'
<1>1. /\ pc[c] = "attempt" /\ fetch[c].phase = "none"
      /\ fetch'[c] = [phase |-> "send", kind |-> "bars", tries |-> 0]
      /\ UNCHANGED <<pc, job, attempt, outcomes, wire, answered>>
      /\ \E s \in Symbols : IsNext(c, s)
  BY DEF BeginAttempt, FetchNext, AttemptsAreOrderly, Shape
<1>2. \A s : IsNext(c, s)' <=> IsNext(c, s)
  BY <1>1, NextStays
<1>3. \A q \in RequestsOf(c)' : Threaded(c)'
  BY <1>1 DEF RequestsOf, AttemptsAreOrderly, InStep, Awaits, Attempting, Threaded
<1> QED
  BY <1>1, <1>2, <1>3 DEF InStep, AttemptsAreOrderly, Attempting

LEMMA SendKeepsStep ==
    ASSUME AttemptsAreOrderly, NEW c \in Calls, Send(c)
    PROVE  InStep(c)'
<1>1. PICK s \in Symbols :
         /\ Attempting(c) /\ fetch[c].phase = "send" /\ IsNext(c, s)
         /\ wire' = wire \cup {[call |-> c, symbol |-> s, attempt |-> attempt[c],
                                kind |-> fetch[c].kind]}
         /\ UNCHANGED <<vars, answered>>
         /\ fetch'[c] = [phase |-> "wait", kind |-> fetch[c].kind, tries |-> fetch[c].tries + 1]
  BY DEF Send, FetchNext, AttemptsAreOrderly, Shape
<1>2. UNCHANGED <<pc, job, attempt, outcomes>>
  BY <1>1 DEF vars, process
<1>3. \A x : IsNext(c, x)' <=> IsNext(c, x)
  BY <1>2, NextStays
<1>4. \A q \in RequestsOf(c)' : Threaded(c)' \/ Awaits(c, q)'
  <2>1. SUFFICES ASSUME NEW q \in RequestsOf(c)' PROVE Threaded(c)' \/ Awaits(c, q)'
    OBVIOUS
  <2>2. CASE q \in RequestsOf(c)
    BY <1>1, <1>2, <2>2 DEF AttemptsAreOrderly, InStep, Awaits, Threaded
  <2>3. CASE q = [call |-> c, symbol |-> s, attempt |-> attempt[c], kind |-> fetch[c].kind]
    BY <1>1, <1>2, <1>3, <2>3 DEF Awaits, Attempting
  <2> QED
    BY <1>1, <2>1, <2>2, <2>3 DEF RequestsOf
<1>5. Attempting(c)' /\ UNCHANGED answered
  BY <1>1, <1>2 DEF Attempting
<1>6. \A x \in Symbols : IsNext(c, x)' =>
         /\ fetch'[c].kind = "fundamentals" => Reply(c, x, attempt[c], "bars")' \in answered'
         /\ fetch'[c].phase # "store"
  <2>1. fetch'[c].kind = fetch[c].kind /\ fetch'[c].phase = "wait"
    BY <1>1
  <2>2. \A x \in Symbols : IsNext(c, x) /\ fetch[c].kind = "fundamentals" =>
           Reply(c, x, attempt[c], "bars") \in answered
    BY <1>1 DEF InStep, AttemptsAreOrderly
  <2> QED
    BY <1>2, <1>3, <1>5, <2>1, <2>2 DEF Reply
<1>7. /\ pc'[c] = "attempt" /\ attempt'[c] \in 1 .. MaxAttempts
      /\ \E x \in Symbols : IsNext(c, x)'
  BY <1>1, <1>2, <1>3 DEF InStep, AttemptsAreOrderly, Attempting
<1> QED
  BY <1>4, <1>5, <1>6, <1>7 DEF InStep, Reply

\* An attempt that fails, with its HTTP request ended, leaves the call idle.
LEMMA FailKeepsStep ==
    ASSUME AttemptsAreOrderly, NEW c \in Calls, Attempting(c), FailAttempt(c),
           \A q \in wire' : q.call = c => Threaded(c)
    PROVE  InStep(c)'
<1>1. /\ fetch'[c] = NoFetch
      /\ UNCHANGED job
  BY DEF FailAttempt, AttemptsAreOrderly, Shape
<1>2. /\ pc'[c] = "attempt" => attempt'[c] \in 1 .. MaxAttempts
      /\ pc'[c] # "ready"
  BY AttemptIsOver DEF AttemptsAreOrderly, Attempting, FailAttempt
<1> QED
  BY <1>1, <1>2, IdleIsInStep DEF NoFetch, Threaded

\* The answer an HTTP client uses is that of its only request.
LEMMA AnswerEndsRequest ==
    ASSUME AttemptsAreOrderly, NEW c \in Calls, NEW q \in wire, Awaits(c, q),
           wire' = wire \ {q}
    PROVE  \A x \in wire' : x.call = c => Threaded(c)
<1>1. SUFFICES ASSUME NEW x \in wire, x # q, x.call = c, ~Threaded(c) PROVE FALSE
  BY DEF AttemptsAreOrderly
<1>2. Awaits(c, x)
  BY <1>1 DEF AttemptsAreOrderly, InStep, RequestsOf
<1>3. /\ x \in [call : Calls, symbol : Symbols, attempt : Nat, kind : Kinds]
      /\ q \in [call : Calls, symbol : Symbols, attempt : Nat, kind : Kinds]
  BY DEF AttemptsAreOrderly, Shape
<1>4. /\ x.call = q.call /\ x.attempt = q.attempt /\ x.kind = q.kind
      /\ IsNext(c, x.symbol) /\ IsNext(c, q.symbol)
  BY <1>2 DEF Awaits
<1>5. x.symbol = q.symbol
  BY <1>3, <1>4, OneNextSymbol
<1>6. x = [call |-> x.call, symbol |-> x.symbol, attempt |-> x.attempt, kind |-> x.kind]
  BY <1>3
<1>7. q = [call |-> q.call, symbol |-> q.symbol, attempt |-> q.attempt, kind |-> q.kind]
  BY <1>3
<1> QED
  BY <1>1, <1>4, <1>5, <1>6, <1>7

LEMMA RespondKeepsStep ==
    ASSUME AttemptsAreOrderly, NEW c \in Calls, NEW q \in wire, NEW response,
           Respond(c, q, response)
    PROVE  InStep(c)'
<1>1. /\ Awaits(c, q) /\ Attempting(c) /\ q.kind = fetch[c].kind /\ q.attempt = attempt[c]
      /\ q.call = c /\ IsNext(c, q.symbol)
      /\ wire' = wire \ {q}
  BY DEF Respond, Awaits
<1>2. \A x \in wire' : x.call = c => Threaded(c)
  BY <1>1, AnswerEndsRequest
<1>3. CASE FailAttempt(c)
  BY <1>1, <1>2, <1>3, FailKeepsStep
<1>4. CASE UNCHANGED vars
  <2>1. UNCHANGED <<pc, job, attempt, outcomes>>
    BY <1>4 DEF vars, process
  <2>2. \A x : IsNext(c, x)' <=> IsNext(c, x)
    BY <2>1, NextStays
  <2>3. \A x \in RequestsOf(c)' : Threaded(c)'
    BY <1>2, <2>1 DEF RequestsOf, Threaded
  <2>4. /\ pc'[c] = "attempt" /\ attempt'[c] \in 1 .. MaxAttempts
        /\ \E x \in Symbols : IsNext(c, x)'
    BY <1>1, <2>1, <2>2 DEF InStep, AttemptsAreOrderly, Attempting
  <2>5. q.symbol \in Symbols /\ q = Reply(c, q.symbol, attempt[c], q.kind)
    BY <1>1 DEF AttemptsAreOrderly, Shape, Reply
  <2>6. \A x \in Symbols : IsNext(c, x) => x = q.symbol
    BY <1>1, <2>5, OneNextSymbol
  <2>7. fetch[c].kind = "fundamentals" => Reply(c, q.symbol, attempt[c], "bars") \in answered
    BY <1>1, <2>5 DEF AttemptsAreOrderly, InStep
  <2>8. CASE /\ fetch' = [fetch EXCEPT ![c] = [phase |-> "send", kind |-> q.kind,
                                             tries |-> fetch[c].tries]]
             /\ UNCHANGED answered
    <3>1. fetch'[c].phase = "send" /\ fetch'[c].kind = fetch[c].kind
      BY <1>1, <2>8 DEF AttemptsAreOrderly, Shape
    <3> QED
      BY <2>1, <2>2, <2>3, <2>4, <2>6, <2>7, <2>8, <3>1 DEF InStep, Reply
  <2>9. CASE /\ q.kind = "bars" /\ answered' = answered \cup {q}
             /\ fetch' = [fetch EXCEPT ![c] = [phase |-> "send", kind |-> "fundamentals",
                                             tries |-> 0]]
    <3>1. fetch'[c].phase = "send"
      BY <2>9 DEF AttemptsAreOrderly, Shape
    <3> QED
      BY <2>1, <2>2, <2>3, <2>4, <2>5, <2>6, <2>9, <3>1 DEF InStep, Reply
  <2>10. CASE /\ q.kind = "fundamentals" /\ answered' = answered \cup {q}
              /\ fetch' = [fetch EXCEPT ![c] = [phase |-> "store", kind |-> "fundamentals",
                                             tries |-> 0]]
    <3>1. fetch'[c].phase = "store" /\ fetch'[c].kind = "fundamentals"
      BY <2>10 DEF AttemptsAreOrderly, Shape
    <3> QED
      BY <1>1, <2>1, <2>2, <2>3, <2>4, <2>5, <2>6, <2>7, <2>10, <3>1 DEF InStep, Reply
  <2>11. q.kind \in {"bars", "fundamentals"}
    BY DEF AttemptsAreOrderly, Shape, Kinds
  <2> QED
    BY <1>3, <2>8, <2>9, <2>10, <2>11 DEF Respond, FetchNext
<1> QED
  BY <1>3, <1>4 DEF Respond

LEMMA StoreKeepsStep ==
    ASSUME AttemptsAreOrderly, NEW c \in Calls, Store(c)
    PROVE  InStep(c)'
<1>1. /\ fetch[c].phase = "store" /\ Attempting(c) /\ UNCHANGED <<wire, job>>
      /\ fetch' = [fetch EXCEPT ![c] = NoFetch]
      /\ \/ RetryOrGiveUp(c)
         \/ pc' = [pc EXCEPT ![c] = "next_symbol"]
  BY DEF Store, FailAttempt, Goto
<1>2. \A q \in wire' : q.call = c => Threaded(c)'
  BY <1>1 DEF AttemptsAreOrderly, InStep, RequestsOf, Awaits, Threaded
<1>3. fetch'[c].phase = "none"
  BY <1>1 DEF AttemptsAreOrderly, Shape, NoFetch
<1>4. /\ pc'[c] = "attempt" => attempt'[c] \in 1 .. MaxAttempts
      /\ pc'[c] # "ready"
  <2>1. CASE RetryOrGiveUp(c)
    BY <1>1, <2>1, AttemptIsOver DEF AttemptsAreOrderly, Attempting
  <2>2. CASE pc' = [pc EXCEPT ![c] = "next_symbol"]
    BY <2>2 DEF AttemptsAreOrderly, Shape
  <2> QED
    BY <1>1, <2>1, <2>2
<1> QED
  BY <1>2, <1>3, <1>4, IdleIsInStep

LEMMA TimeOutKeepsStep ==
    ASSUME AttemptsAreOrderly, NEW c \in Calls, TimeOut(c)
    PROVE  InStep(c)'
<1>1. \A q \in wire' : q.call = c => Threaded(c)
  BY DEF TimeOut, RequestsOf
<1> QED
  BY <1>1, FailKeepsStep DEF TimeOut

\* What happens to the process from outside.
LEMMA EndKeepsStep ==
    ASSUME AttemptsAreOrderly, NEW c \in Calls,
           DieAsking(c) \/ (LoseConnection(c) /\ UNCHANGED fetching)
    PROVE  InStep(c)'
<1>1. CASE LoseConnection(c) /\ UNCHANGED fetching
  <2>1. UNCHANGED <<pc, job, attempt, outcomes, fetch, wire, answered>>
    BY <1>1 DEF LoseConnection, process, fetching
  <2> QED
    BY <2>1, UnmovedStaysInStep DEF AttemptsAreOrderly
<1>2. CASE DieAsking(c)
  <2>1. /\ pc'[c] = "ended"
        /\ \A q \in wire' : q.call # c
    BY <1>2 DEF DieAsking, Die, Leave, Goto, RequestsOf, AttemptsAreOrderly, Shape
  <2> QED
    BY <2>1 DEF InStep, Attempting, RequestsOf
<1> QED
  BY <1>1, <1>2

\* The runner around the attempts.
LEMMA RunnerKeepsStep ==
    ASSUME AttemptsAreOrderly, NEW c \in Calls, UNCHANGED fetching,
           \/ Refuse(c)
           \/ \E p \in Providers, S \in SUBSET Symbols : Start(c, p, S)
           \/ TryLock(c) \/ CreateRun(c) \/ OpenSource(c) \/ NextSymbol(c)
           \/ SaveFailed(c) \/ CompleteRun(c) \/ Unlock(c)
    PROVE  InStep(c)'
<1>1. /\ pc[c] \notin {"attempt", "ended"}
      /\ pc'[c] = "attempt" => attempt'[c] = 1
      /\ pc'[c] # "ready"
  BY RunnerSteps DEF AttemptsAreOrderly
<1>2. fetch'[c].phase = "none" /\ wire' = wire
  BY <1>1 DEF AttemptsAreOrderly, InStep, fetching
<1>3. \A q \in wire' : q.call = c => Threaded(c)
  BY <1>1, <1>2 DEF AttemptsAreOrderly, InStep, RequestsOf, Awaits, Attempting
<1>4. \A q \in wire' : q.call = c => Threaded(c)'
  <2>1. CASE UNCHANGED job
    BY <1>3, <2>1 DEF Threaded
  <2>2. CASE pc[c] = "ready"
    BY <1>2, <2>2 DEF AttemptsAreOrderly, InStep, RequestsOf
  <2> QED
    BY <2>1, <2>2 DEF Refuse, Start, TryLock, CreateRun, OpenSource, NextSymbol,
       SaveFailed, CompleteRun, Unlock
<1> QED
  BY <1>1, <1>2, <1>4, IdleIsInStep, LimitsArePositive

-----------------------------------------------------------------------------

\* A step of call c keeps the types and touches no other call.
StaysLocal(c) ==
    /\ Shape'
    /\ \A d \in Calls : d # c =>
          /\ pc'[d] = pc[d] /\ job'[d] = job[d] /\ attempt'[d] = attempt[d]
          /\ outcomes'[d] = outcomes[d] /\ fetch'[d] = fetch[d]
          /\ \A q \in wire' : q.call = d => q \in wire
    /\ answered \subseteq answered'

LEMMA RunnerStepsAreLocal ==
    ASSUME AttemptsAreOrderly, NEW c \in Calls, UNCHANGED fetching,
           \/ Refuse(c)
           \/ \E p \in Providers, S \in SUBSET Symbols : Start(c, p, S)
           \/ TryLock(c) \/ CreateRun(c) \/ OpenSource(c) \/ NextSymbol(c)
           \/ SaveFailed(c) \/ CompleteRun(c) \/ Unlock(c)
    PROVE  StaysLocal(c)
  BY RunnerSteps DEF AttemptsAreOrderly, StaysLocal, Shape, fetching

\* A failed attempt changes one call's place in the loop.
LEMMA FailIsLocal ==
    ASSUME AttemptsAreOrderly, NEW c \in Calls, Attempting(c), FailAttempt(c),
           wire' \subseteq wire
    PROVE  StaysLocal(c)
<1>1. /\ pc' \in [Calls -> Labels] /\ attempt' \in [Calls -> Nat]
      /\ \A d \in Calls : d # c => pc'[d] = pc[d] /\ attempt'[d] = attempt[d]
  BY AttemptIsOver DEF AttemptsAreOrderly, Attempting, FailAttempt
<1>2. /\ fetch' = [fetch EXCEPT ![c] = NoFetch]
      /\ UNCHANGED <<job, outcomes, requests, answered>>
  BY DEF FailAttempt
<1>3. NoFetch \in [phase : Phases, kind : Kinds, tries : Nat]
  BY DEF NoFetch, Phases, Kinds
<1> QED
  BY <1>1, <1>2, <1>3 DEF AttemptsAreOrderly, StaysLocal, Shape

LEMMA FetchIsLocal ==
    ASSUME AttemptsAreOrderly, NEW c \in Calls,
           NEW phase \in Phases, NEW kind \in Kinds, NEW tries \in Nat,
           FetchNext(c, phase, kind, tries),
           UNCHANGED <<pc, job, attempt, outcomes>>,
           requests' \in [Calls -> [Symbols -> Int]],
           wire' \subseteq wire \cup [call : {c}, symbol : Symbols, attempt : Nat, kind : Kinds],
           answered \subseteq answered'
    PROVE  StaysLocal(c)
<1>1. fetch' \in [Calls -> [phase : Phases, kind : Kinds, tries : Nat]]
  BY DEF AttemptsAreOrderly, Shape, FetchNext
<1>2. \A d \in Calls : d # c => fetch'[d] = fetch[d]
  BY DEF AttemptsAreOrderly, Shape, FetchNext
<1>3. wire' \subseteq [call : Calls, symbol : Symbols, attempt : Nat, kind : Kinds]
  BY DEF AttemptsAreOrderly, Shape
<1>4. \A d \in Calls : d # c => \A q \in wire' : q.call = d => q \in wire
  OBVIOUS
<1> QED
  BY <1>1, <1>2, <1>3, <1>4 DEF AttemptsAreOrderly, StaysLocal, Shape

LEMMA StepsAreLocal ==
    ASSUME AttemptsAreOrderly, NEW c \in Calls, CallStep(c)
    PROVE  StaysLocal(c)
<1> USE DEF Phases, Kinds
<1>1. CASE \/ Refuse(c) /\ UNCHANGED fetching
           \/ \E p \in Providers, S \in SUBSET Symbols : Start(c, p, S) /\ UNCHANGED fetching
           \/ RunnerWork(c)
  BY <1>1, RunnerStepsAreLocal DEF RunnerWork
<1>2. CASE BeginAttempt(c)
  <2>1. requests' \in [Calls -> [Symbols -> Int]]
    BY <1>2 DEF BeginAttempt, AttemptsAreOrderly, Shape
  <2> QED
    BY <1>2, <2>1, FetchIsLocal DEF BeginAttempt
<1>3. CASE Send(c)
  <2>1. /\ FetchNext(c, "wait", fetch[c].kind, fetch[c].tries + 1)
        /\ UNCHANGED <<pc, job, attempt, outcomes, requests, answered>>
    BY <1>3 DEF Send, vars, process
  <2>2. fetch[c].kind \in Kinds /\ fetch[c].tries + 1 \in Nat /\ attempt[c] \in Nat
    BY DEF AttemptsAreOrderly, Shape
  <2>3. wire' \subseteq wire \cup [call : {c}, symbol : Symbols, attempt : Nat, kind : Kinds]
    BY <1>3, <2>2 DEF Send
  <2>4. requests' \in [Calls -> [Symbols -> Int]]
    BY <2>1 DEF AttemptsAreOrderly, Shape
  <2> QED
    BY <2>1, <2>2, <2>3, <2>4, FetchIsLocal
<1>4. CASE \E q \in wire, response \in Responses : Respond(c, q, response)
  <2>1. PICK q \in wire, response \in Responses : Respond(c, q, response)
    BY <1>4
  <2>2. q.kind \in Kinds /\ fetch[c].tries \in Nat
    BY DEF AttemptsAreOrderly, Shape
  <2>3. CASE FailAttempt(c)
    BY <2>1, <2>3, FailIsLocal DEF Respond, Awaits
  <2>4. CASE UNCHANGED vars
    <3>1. UNCHANGED <<pc, job, attempt, outcomes, requests>>
      BY <2>4 DEF vars, process
    <3>2. requests' \in [Calls -> [Symbols -> Int]]
      BY <3>1 DEF AttemptsAreOrderly, Shape
    <3>3. wire' \subseteq wire
      BY <2>1 DEF Respond
    <3>4. CASE FetchNext(c, "send", "fundamentals", 0) /\ answered' = answered \cup {q}
      BY <3>1, <3>2, <3>3, <3>4, FetchIsLocal
    <3>5. CASE FetchNext(c, "store", "fundamentals", 0) /\ answered' = answered \cup {q}
      BY <3>1, <3>2, <3>3, <3>5, FetchIsLocal
    <3>6. CASE FetchNext(c, "send", q.kind, fetch[c].tries) /\ UNCHANGED answered
      BY <2>2, <3>1, <3>2, <3>3, <3>6, FetchIsLocal
    <3> QED
      BY <2>1, <2>3, <3>4, <3>5, <3>6, FailIsLocal DEF Respond, Awaits
  <2> QED
    BY <2>1, <2>3, <2>4 DEF Respond
<1>5. CASE Store(c)
  <2>1. CASE FailAttempt(c)
    BY <1>5, <2>1, FailIsLocal DEF Store
  <2>2. CASE \E s \in Symbols :
               /\ fetch' = [fetch EXCEPT ![c] = NoFetch]
               /\ \/ /\ outcomes' = [outcomes EXCEPT ![c] = @ \cup {<<s, TRUE>>}]
                     /\ pc' = [pc EXCEPT ![c] = "next_symbol"]
                     /\ UNCHANGED attempt
                  \/ RetryOrGiveUp(c) /\ UNCHANGED outcomes
               /\ UNCHANGED <<job, requests, wire, answered>>
    <3>1. fetch' \in [Calls -> [phase : Phases, kind : Kinds, tries : Nat]]
      BY <2>2 DEF AttemptsAreOrderly, Shape, NoFetch
    <3>2. /\ DOMAIN outcomes' = Calls
          /\ \A d \in Calls : d # c => outcomes'[d] = outcomes[d] /\ fetch'[d] = fetch[d]
      BY <2>2 DEF AttemptsAreOrderly, Shape
    <3>3. /\ pc' \in [Calls -> Labels] /\ attempt' \in [Calls -> Nat]
          /\ \A d \in Calls : d # c => pc'[d] = pc[d] /\ attempt'[d] = attempt[d]
      <4>1. CASE RetryOrGiveUp(c)
        BY <1>5, <4>1, AttemptIsOver DEF AttemptsAreOrderly, Attempting, Store
      <4>2. CASE UNCHANGED attempt /\ pc' = [pc EXCEPT ![c] = "next_symbol"]
        BY <4>2 DEF AttemptsAreOrderly, Shape, Labels
      <4> QED
        BY <2>2, <4>1, <4>2
    <3> QED
      BY <2>2, <3>1, <3>2, <3>3 DEF AttemptsAreOrderly, StaysLocal, Shape
  <2> QED
    BY <1>5, <2>1, <2>2 DEF Store, Goto
<1>6. CASE TimeOut(c)
  BY <1>6, FailIsLocal DEF TimeOut
<1>7. CASE LoseConnection(c) /\ UNCHANGED fetching
  <2>1. UNCHANGED <<pc, job, attempt, outcomes, requests, fetch, wire, answered>>
    BY <1>7 DEF LoseConnection, process, fetching
  <2> QED
    BY <2>1 DEF AttemptsAreOrderly, StaysLocal, Shape
<1>8. CASE DieAsking(c)
  <2>1. /\ UNCHANGED <<job, attempt, outcomes, requests, fetch, answered>>
        /\ pc' = [pc EXCEPT ![c] = "ended"]
        /\ wire' \subseteq wire
    BY <1>8 DEF DieAsking, Die, Leave, Goto
  <2> QED
    BY <2>1 DEF AttemptsAreOrderly, StaysLocal, Shape, Labels
<1> QED
  BY <1>1, <1>2, <1>3, <1>4, <1>5, <1>6, <1>7, <1>8 DEF CallStep

-----------------------------------------------------------------------------

\* The call that moves stays in step.
LEMMA MovedStaysInStep ==
    ASSUME AttemptsAreOrderly, NEW c \in Calls, CallStep(c)
    PROVE  InStep(c)'
<1>1. CASE \/ Refuse(c) /\ UNCHANGED fetching
           \/ \E p \in Providers, S \in SUBSET Symbols : Start(c, p, S) /\ UNCHANGED fetching
           \/ RunnerWork(c)
  BY <1>1, RunnerKeepsStep DEF RunnerWork
<1>2. CASE \E q \in wire, response \in Responses : Respond(c, q, response)
  BY <1>2, RespondKeepsStep
<1> QED
  BY <1>1, <1>2, BeginKeepsStep, SendKeepsStep, StoreKeepsStep, TimeOutKeepsStep,
     EndKeepsStep
  DEF CallStep

\* Only Store adds to what is stored, and it has both answers of its attempt.
LEMMA StoredStaysFetched ==
    ASSUME AttemptsAreOrderly, NEW c \in Calls, CallStep(c)
    PROVE  StoredFromOneAttempt'
<1>1. answered \subseteq answered'
  BY StepsAreLocal DEF StaysLocal
<1>2. CASE refreshed' = refreshed
  BY <1>1, <1>2 DEF AttemptsAreOrderly, StoredFromOneAttempt
<1>3. ASSUME NEW s \in Symbols, IsNext(c, s), Store(c), refreshed' = refreshed \cup {<<c, s>>}
      PROVE  StoredFromOneAttempt'
  <2>1. /\ Attempting(c) /\ fetch[c].phase = "store"
    BY <1>3 DEF Store
  <2>2. /\ attempt[c] \in 1 .. MaxAttempts
        /\ Reply(c, s, attempt[c], "bars") \in answered
        /\ Reply(c, s, attempt[c], "fundamentals") \in answered
    BY <1>3, <2>1 DEF AttemptsAreOrderly, InStep, Attempting
  <2>3. \A kind \in Kinds :
           [call |-> c, symbol |-> s, attempt |-> attempt[c], kind |-> kind] \in answered
    BY <2>2 DEF Kinds, Reply
  <2> QED
    BY <1>1, <1>3, <2>2, <2>3 DEF AttemptsAreOrderly, StoredFromOneAttempt
<1>4. CASE Store(c)
  BY <1>2, <1>3, <1>4 DEF Store, FailAttempt, tables
<1>5. CASE ~Store(c)
  <2>1. CASE \/ Refuse(c) /\ UNCHANGED fetching
             \/ \E p \in Providers, S \in SUBSET Symbols : Start(c, p, S) /\ UNCHANGED fetching
             \/ RunnerWork(c)
    BY <1>2, <2>1, RunnerSteps DEF RunnerWork, AttemptsAreOrderly
  <2> QED
    BY <1>2, <1>5, <2>1
    DEF CallStep, BeginAttempt, Send, Respond, TimeOut, FailAttempt, LoseConnection,
        DieAsking, Die, vars, tables
<1> QED
  BY <1>4, <1>5

LEMMA AttemptsStayOrderly ==
    AttemptsAreOrderly /\ [ProviderNext]_providerVars => AttemptsAreOrderly'
<1>1. SUFFICES ASSUME AttemptsAreOrderly, [ProviderNext]_providerVars
               PROVE  AttemptsAreOrderly'
  OBVIOUS
<1>2. ASSUME NEW c \in Calls, CallStep(c) PROVE AttemptsAreOrderly'
  <2>1. \A d \in Calls : InStep(d)'
    <3>1. SUFFICES ASSUME NEW d \in Calls, d # c PROVE InStep(d)'
      BY <1>1, <1>2, MovedStaysInStep
    <3>2. StaysLocal(c) /\ InStep(d)
      BY <1>1, <1>2, StepsAreLocal DEF AttemptsAreOrderly
    <3> QED
      BY <3>1, <3>2, UnmovedStaysInStep DEF StaysLocal
  <2> QED
    BY <1>1, <1>2, <2>1, StepsAreLocal, StoredStaysFetched DEF StaysLocal, AttemptsAreOrderly
<1>3. ASSUME UNCHANGED <<vars, fetch, answered>>, wire' \subseteq wire
      PROVE  AttemptsAreOrderly'
  <2>1. UNCHANGED <<pc, job, attempt, outcomes, requests, refreshed>>
    BY <1>3 DEF vars, process, tables
  <2>2. \A d \in Calls : InStep(d)'
    BY <1>1, <1>3, <2>1, UnmovedStaysInStep DEF AttemptsAreOrderly
  <2> QED
    BY <1>1, <1>3, <2>1, <2>2 DEF AttemptsAreOrderly, Shape, StoredFromOneAttempt
<1>4. CASE \E q \in wire : ThreadEnds(q)
  BY <1>3, <1>4 DEF ThreadEnds
<1>5. CASE UNCHANGED providerVars
  BY <1>3, <1>5 DEF providerVars, fetching
<1> QED
  BY <1>1, <1>2, <1>4, <1>5 DEF ProviderNext, CallStep

LEMMA InitIsInStep == ProviderInit => AttemptsAreOrderly
<1>1. SUFFICES ASSUME ProviderInit PROVE AttemptsAreOrderly
  OBVIOUS
<1>2. Shape
  BY <1>1 DEF ProviderInit, Init, Shape, Labels, NoFetch, Phases, Kinds
<1>3. \A c \in Calls : InStep(c)
  BY <1>1 DEF ProviderInit, Init, InStep, Attempting, RequestsOf, NoFetch
<1>4. StoredFromOneAttempt
  BY <1>1 DEF ProviderInit, Init, StoredFromOneAttempt
<1> QED
  BY <1>2, <1>3, <1>4 DEF AttemptsAreOrderly

THEOREM AttemptOrder == ProviderSpec => []AttemptsAreOrderly
  BY InitIsInStep, AttemptsStayOrderly, PTL DEF ProviderSpec

\* Whatever is retried, cut off by the time-out or killed, an HTTP client has no
\* request open but the one that is awaited.
THEOREM OneRequestAtATime == ProviderSpec => []OneHttpRequest
<1>1. AttemptsAreOrderly => OneHttpRequest
  BY DEF AttemptsAreOrderly, InStep, Shape, OneHttpRequest, RequestsOf
<1> QED
  BY <1>1, AttemptOrder, PTL

\* Nothing of two attempts is mixed in what is stored.
THEOREM StoredTogether == ProviderSpec => []StoredFromOneAttempt
<1>1. AttemptsAreOrderly => StoredFromOneAttempt
  BY DEF AttemptsAreOrderly
<1> QED
  BY <1>1, AttemptOrder, PTL

-----------------------------------------------------------------------------
(* The refinement *)

\* The runner sees no attempt end when requests stay and what is being fetched
\* and is next stays, or when nothing is being fetched before and after.
LEMMA NoAttemptEnds ==
    ASSUME UNCHANGED requests,
           \A d \in Calls :
              \/ fetch[d].phase = "none" /\ fetch'[d].phase = "none"
              \/ /\ (fetch'[d].phase = "none") <=> (fetch[d].phase = "none")
                 /\ job'[d] = job[d] /\ outcomes'[d] = outcomes[d]
    PROVE  AttemptsEnded' = AttemptsEnded
<1>1. \A d \in Calls, s \in Symbols :
         (fetch'[d].phase # "none" /\ IsNext(d, s)') <=> (fetch[d].phase # "none" /\ IsNext(d, s))
  BY NextStays
<1> QED
  BY <1>1 DEF AttemptsEnded

\* An attempt that begins is not over.
LEMMA BeginIsSilent ==
    ASSUME AttemptsAreOrderly, NEW c \in Calls, BeginAttempt(c)
    PROVE  AttemptsEnded' = AttemptsEnded
<1>1. PICK s \in Symbols : IsNext(c, s) /\ requests' = [requests EXCEPT ![c][s] = @ + 1]
  BY DEF BeginAttempt
<1>2. /\ UNCHANGED <<job, outcomes>>
      /\ fetch[c].phase = "none" /\ fetch'[c].phase # "none"
      /\ \A d \in Calls : d # c => fetch'[d] = fetch[d]
  BY DEF BeginAttempt, FetchNext, AttemptsAreOrderly, Shape
<1>3. \A d \in Calls, x \in Symbols : IsNext(d, x)' <=> IsNext(d, x)
  BY <1>2, NextStays
<1>4. \A x \in Symbols : IsNext(c, x) <=> x = s
  BY <1>1, OneNextSymbol
<1>5. requests \in [Calls -> [Symbols -> Int]]
  BY DEF AttemptsAreOrderly, Shape
<1>6. \A d \in Calls, x \in Symbols :
         requests'[d][x] = IF d = c /\ x = s THEN requests[d][x] + 1 ELSE requests[d][x]
  BY <1>1, <1>5
<1>7. \A d \in Calls, x \in Symbols :
         (IF fetch'[d].phase # "none" /\ IsNext(d, x)' THEN requests'[d][x] - 1
          ELSE requests'[d][x])
         = (IF fetch[d].phase # "none" /\ IsNext(d, x) THEN requests[d][x] - 1
            ELSE requests[d][x])
  <2>1. SUFFICES ASSUME NEW d \in Calls, NEW x \in Symbols
                 PROVE  (IF fetch'[d].phase # "none" /\ IsNext(d, x)' THEN requests'[d][x] - 1
                         ELSE requests'[d][x])
                        = (IF fetch[d].phase # "none" /\ IsNext(d, x) THEN requests[d][x] - 1
                           ELSE requests[d][x])
    OBVIOUS
  <2>2. requests[d][x] \in Int
    BY <1>5
  <2>3. CASE d = c
    BY <1>2, <1>3, <1>4, <1>6, <2>2, <2>3
  <2>4. CASE d # c
    BY <1>2, <1>3, <1>6, <2>4
  <2> QED
    BY <2>3, <2>4
<1> QED
  BY <1>7 DEF AttemptsEnded

\* The end of an attempt is counted, at the symbol that was next.
LEMMA EndIsCounted ==
    ASSUME AttemptsAreOrderly, NEW c \in Calls, NEW s \in Symbols,
           Attempting(c), IsNext(c, s),
           fetch' = [fetch EXCEPT ![c] = NoFetch],
           UNCHANGED requests,
           \A d \in Calls : d # c => job'[d] = job[d] /\ outcomes'[d] = outcomes[d]
    PROVE  AttemptsEnded' = [AttemptsEnded EXCEPT ![c][s] = @ + 1]
<1>1. /\ fetch[c].phase # "none" /\ fetch'[c].phase = "none"
      /\ \A d \in Calls : d # c => fetch'[d] = fetch[d]
  BY DEF Attempting, AttemptsAreOrderly, Shape, NoFetch
<1>2. \A d \in Calls, x \in Symbols : d # c => (IsNext(d, x)' <=> IsNext(d, x))
  BY NextStays
<1>3. \A x \in Symbols : IsNext(c, x) <=> x = s
  BY OneNextSymbol
<1>4. requests \in [Calls -> [Symbols -> Int]]
  BY DEF AttemptsAreOrderly, Shape
<1>5. ASSUME NEW d \in Calls, NEW x \in Symbols
      PROVE  AttemptsEnded'[d][x] = [AttemptsEnded EXCEPT ![c][s] = @ + 1][d][x]
  <2>1. /\ AttemptsEnded[d][x] = IF fetch[d].phase # "none" /\ IsNext(d, x)
                                 THEN requests[d][x] - 1 ELSE requests[d][x]
        /\ AttemptsEnded'[d][x] = IF fetch'[d].phase # "none" /\ IsNext(d, x)'
                                  THEN requests[d][x] - 1 ELSE requests[d][x]
    BY DEF AttemptsEnded
  <2>2. [AttemptsEnded EXCEPT ![c][s] = @ + 1][d][x]
           = IF d = c /\ x = s THEN AttemptsEnded[d][x] + 1 ELSE AttemptsEnded[d][x]
    BY DEF AttemptsEnded
  <2>3. requests[d][x] \in Int
    BY <1>4
  <2>4. CASE d = c
    BY <1>1, <1>3, <2>1, <2>2, <2>3, <2>4
  <2>5. CASE d # c
    BY <1>1, <1>2, <2>1, <2>2, <2>5
  <2> QED
    BY <2>4, <2>5
<1>6. /\ DOMAIN AttemptsEnded' = Calls
      /\ DOMAIN [AttemptsEnded EXCEPT ![c][s] = @ + 1] = Calls
      /\ \A d \in Calls :
            /\ AttemptsEnded'[d] = [x \in Symbols |-> AttemptsEnded'[d][x]]
            /\ [AttemptsEnded EXCEPT ![c][s] = @ + 1][d]
                  = [x \in Symbols |-> [AttemptsEnded EXCEPT ![c][s] = @ + 1][d][x]]
  BY DEF AttemptsEnded
<1>7. \A d \in Calls : AttemptsEnded'[d] = [AttemptsEnded EXCEPT ![c][s] = @ + 1][d]
  <2>1. SUFFICES ASSUME NEW d \in Calls
                 PROVE  AttemptsEnded'[d] = [AttemptsEnded EXCEPT ![c][s] = @ + 1][d]
    OBVIOUS
  <2> DEFINE counted == [AttemptsEnded EXCEPT ![c][s] = @ + 1]
             ended == AttemptsEnded'
  <2>2. \A x \in Symbols : ended[d][x] = counted[d][x]
    BY <1>5
  <2>3. /\ ended[d] = [x \in Symbols |-> ended[d][x]]
        /\ counted[d] = [x \in Symbols |-> counted[d][x]]
    BY <1>6
  <2> HIDE DEF counted, ended
  <2>4. ended[d] = counted[d]
    BY <2>2, <2>3
  <2> QED
    BY <2>4 DEF counted, ended
<1>8. /\ AttemptsEnded' = [d \in Calls |-> AttemptsEnded'[d]]
      /\ [AttemptsEnded EXCEPT ![c][s] = @ + 1]
            = [d \in Calls |-> [AttemptsEnded EXCEPT ![c][s] = @ + 1][d]]
  BY DEF AttemptsEnded
<1> QED
  BY <1>7, <1>8

\* Both modules count the same way.
LEMMA SameCardinality == \A S : Cardinality(S) = Runner!Cardinality(S)
  BY DEF Cardinality, Runner!Cardinality

\* Steps outside of attempts are those of the runner.
LEMMA RunnerStepsMap ==
    ASSUME AttemptsEnded' = AttemptsEnded, NEW c \in Calls
    PROVE  /\ Refuse(c) => Runner!Refuse(c)
           /\ \A p \in Providers, S \in SUBSET Symbols : Start(c, p, S) => Runner!Start(c, p, S)
           /\ TryLock(c) => Runner!TryLock(c)
           /\ CreateRun(c) => Runner!CreateRun(c)
           /\ OpenSource(c) => Runner!OpenSource(c)
           /\ NextSymbol(c) => Runner!NextSymbol(c)
           /\ SaveFailed(c) => Runner!SaveFailed(c)
           /\ CompleteRun(c) => Runner!CompleteRun(c)
           /\ Unlock(c) => Runner!Unlock(c)
           /\ LoseConnection(c) => Runner!LoseConnection(c)
           /\ Die(c) => Runner!Die(c)
<1> USE DEF tables, lock, process, Runner!tables, Runner!lock, Runner!process,
            Goto, Leave, Raise, Release, Runner!Goto, Runner!Leave, Runner!Raise, Runner!Release
<1>1. Refuse(c) => Runner!Refuse(c)
  BY DEF Refuse, Runner!Refuse
<1>2. \A p \in Providers, S \in SUBSET Symbols : Start(c, p, S) => Runner!Start(c, p, S)
  BY DEF Start, Runner!Start
<1>3. TryLock(c) => Runner!TryLock(c)
  BY DEF TryLock, Runner!TryLock, LockIsFree, Runner!LockIsFree
<1>4. CreateRun(c) => Runner!CreateRun(c)
  BY SameCardinality DEF CreateRun, Runner!CreateRun
<1>5. OpenSource(c) => Runner!OpenSource(c)
  BY DEF OpenSource, Runner!OpenSource
<1>6. NextSymbol(c) => Runner!NextSymbol(c)
  BY DEF NextSymbol, Runner!NextSymbol, Remaining, Runner!Remaining, Settled, Runner!Settled,
         CircuitIsOpen, Runner!CircuitIsOpen
<1>7. SaveFailed(c) => Runner!SaveFailed(c)
  BY DEF SaveFailed, Runner!SaveFailed, IsNext, Runner!IsNext, Remaining, Runner!Remaining,
         Settled, Runner!Settled, HasItem, Runner!HasItem, ItemOf, Runner!ItemOf
<1>8. CompleteRun(c) => Runner!CompleteRun(c)
  BY SameCardinality
     DEF CompleteRun, Runner!CompleteRun, Count, Runner!Count, RunStatusOf, Runner!RunStatusOf,
         ExitCodeOf, Runner!ExitCodeOf
<1>9. Unlock(c) => Runner!Unlock(c)
  BY DEF Unlock, Runner!Unlock
<1>10. LoseConnection(c) => Runner!LoseConnection(c)
  BY DEF LoseConnection, Runner!LoseConnection
<1>11. Die(c) => Runner!Die(c)
  BY DEF Die, Runner!Die
<1> QED
  BY <1>1, <1>2, <1>3, <1>4, <1>5, <1>6, <1>7, <1>8, <1>9, <1>10, <1>11

\* The end of an attempt is the runner's attempt, from its first request on.
LEMMA EndsMap ==
    ASSUME AttemptsAreOrderly, NEW c \in Calls, Attempting(c), FailAttempt(c) \/ Store(c)
    PROVE  Runner!Attempt(c)
<1> USE DEF tables, lock, Runner!tables, Runner!lock, Goto, Runner!Goto,
            RetryOrGiveUp, Runner!RetryOrGiveUp
<1>1. \A s \in Symbols : IsNext(c, s) => Runner!IsNext(c, s)
  BY DEF IsNext, Runner!IsNext, Remaining, Runner!Remaining, Settled, Runner!Settled
<1>2. pc[c] = "attempt"
  BY DEF Attempting
<1>3. PICK s \in Symbols : IsNext(c, s)
  BY DEF AttemptsAreOrderly, InStep
<1>4. CASE FailAttempt(c)
  <2>1. AttemptsEnded' = [AttemptsEnded EXCEPT ![c][s] = @ + 1]
    BY <1>3, <1>4, EndIsCounted DEF FailAttempt
  <2> QED
    BY <1>1, <1>2, <1>3, <1>4, <2>1 DEF FailAttempt, Runner!Attempt
<1>5. CASE Store(c) /\ ~FailAttempt(c)
  <2>1. PICK x \in Symbols :
           /\ IsNext(c, x)
           /\ ~HasItem(c, x)
           /\ items' = items \cup {ItemOf(c, x, "succeeded")}
           /\ refreshed' = refreshed \cup {<<c, x>>}
           /\ fetch' = [fetch EXCEPT ![c] = NoFetch]
           /\ \/ /\ failures' = [failures EXCEPT ![c] = 0]
                 /\ outcomes' = [outcomes EXCEPT ![c] = @ \cup {<<x, TRUE>>}]
                 /\ Goto(c, "next_symbol")
                 /\ UNCHANGED attempt
              \/ RetryOrGiveUp(c) /\ UNCHANGED outcomes
           /\ UNCHANGED <<runs, lock, job, requests, exitCode, answered>>
    BY <1>5 DEF Store
  <2>2. \A d \in Calls : d # c => job'[d] = job[d] /\ outcomes'[d] = outcomes[d]
    BY <2>1 DEF AttemptsAreOrderly, Shape
  <2>3. AttemptsEnded' = [AttemptsEnded EXCEPT ![c][x] = @ + 1]
    BY <2>1, <2>2, EndIsCounted
  <2>4. ~Runner!HasItem(c, x) /\ Runner!ItemOf(c, x, "succeeded") = ItemOf(c, x, "succeeded")
    BY <2>1 DEF HasItem, Runner!HasItem, ItemOf, Runner!ItemOf
  <2> QED
    BY <1>1, <1>2, <2>1, <2>3, <2>4 DEF Runner!Attempt
<1> QED
  BY <1>4, <1>5

\* Every step of a call is one of the runner's, or the runner does not see it.
LEMMA StepsMap ==
    ASSUME AttemptsAreOrderly, NEW c \in Calls, CallStep(c)
    PROVE  Runner!Next \/ UNCHANGED Runner!vars
<1>1. ASSUME UNCHANGED vars, AttemptsEnded' = AttemptsEnded PROVE UNCHANGED Runner!vars
  BY <1>1 DEF vars, tables, lock, process, Runner!vars, Runner!tables, Runner!lock,
              Runner!process
<1>2. CASE \/ Refuse(c) /\ UNCHANGED fetching
           \/ \E p \in Providers, S \in SUBSET Symbols : Start(c, p, S) /\ UNCHANGED fetching
           \/ RunnerWork(c)
  <2>1. /\ pc[c] \notin {"attempt", "ended"}
        /\ UNCHANGED <<requests, fetch>>
        /\ \A d \in Calls : d # c => job'[d] = job[d] /\ outcomes'[d] = outcomes[d]
    BY <1>2, RunnerSteps DEF RunnerWork, AttemptsAreOrderly, fetching
  <2>2. fetch[c].phase = "none"
    BY <2>1 DEF AttemptsAreOrderly, InStep
  <2>3. AttemptsEnded' = AttemptsEnded
    BY <2>1, <2>2, NoAttemptEnds
  <2> QED
    BY <1>2, <2>3, RunnerStepsMap DEF RunnerWork, Runner!Next, Runner!Work
<1>3. CASE BeginAttempt(c)
  <2>1. AttemptsEnded' = AttemptsEnded
    BY <1>3, BeginIsSilent
  <2> QED
    BY <1>3, <2>1
    DEF BeginAttempt, tables, lock, Runner!vars, Runner!tables, Runner!lock, Runner!process
<1>4. ASSUME FailAttempt(c) \/ Store(c), Attempting(c) PROVE Runner!Next
  BY <1>4, EndsMap DEF Runner!Next, Runner!Work
<1>5. ASSUME UNCHANGED vars, Attempting(c), fetch'[c].phase # "none",
             \A d \in Calls : d # c => fetch'[d] = fetch[d]
      PROVE  UNCHANGED Runner!vars
  <2>1. UNCHANGED <<job, outcomes, requests>>
    BY <1>5 DEF vars, process
  <2>2. AttemptsEnded' = AttemptsEnded
    BY <1>5, <2>1, NoAttemptEnds DEF Attempting
  <2> QED
    BY <1>1, <1>5, <2>2
<1>6. CASE Send(c)
  BY <1>5, <1>6 DEF Send, FetchNext, AttemptsAreOrderly, Shape
<1>7. CASE \E q \in wire, response \in Responses : Respond(c, q, response)
  <2>1. PICK q \in wire, response \in Responses : Respond(c, q, response)
    BY <1>7
  <2>2. Attempting(c)
    BY <2>1 DEF Respond, Awaits
  <2>3. CASE FailAttempt(c)
    BY <1>4, <2>2, <2>3
  <2>4. CASE /\ UNCHANGED vars
             /\ \E phase \in {"send", "store"} : \E kind, tries : FetchNext(c, phase, kind, tries)
    BY <1>5, <2>2, <2>4 DEF FetchNext, AttemptsAreOrderly, Shape
  <2> QED
    BY <2>1, <2>3, <2>4 DEF Respond
<1>8. CASE Store(c) \/ TimeOut(c)
  BY <1>4, <1>8 DEF Store, TimeOut
<1>9. CASE LoseConnection(c) /\ UNCHANGED fetching
  <2>1. UNCHANGED <<fetch, job, outcomes, requests>>
    BY <1>9 DEF LoseConnection, process, fetching
  <2>2. AttemptsEnded' = AttemptsEnded
    BY <2>1, NoAttemptEnds
  <2> QED
    BY <1>9, <2>2, RunnerStepsMap DEF Runner!Next
<1>10. CASE DieAsking(c)
  <2>1. UNCHANGED <<fetch, job, outcomes, requests>>
    BY <1>10 DEF DieAsking, Die
  <2>2. AttemptsEnded' = AttemptsEnded
    BY <2>1, NoAttemptEnds
  <2> QED
    BY <1>10, <2>2, RunnerStepsMap DEF DieAsking, Runner!Next
<1> QED
  BY <1>2, <1>3, <1>6, <1>7, <1>8, <1>9, <1>10 DEF CallStep

\* Whatever clients, threads and time-outs do, a run behaves like one of
\* IngestionRunner, whose attempts are single steps.
THEOREM ProviderRefinement == ProviderSpec => RunnerSpec
<1>1. ProviderInit => Runner!Init
  BY DEF ProviderInit, Init, Runner!Init, AttemptsEnded, NoFetch, NoRun, Runner!NoRun,
         NoJob, Runner!NoJob
<1>2. AttemptsAreOrderly /\ [ProviderNext]_providerVars => [Runner!Next]_(Runner!vars)
  <2>1. SUFFICES ASSUME AttemptsAreOrderly, [ProviderNext]_providerVars
                 PROVE  Runner!Next \/ UNCHANGED Runner!vars
    OBVIOUS
  <2>2. CASE \E c \in Calls : CallStep(c)
    BY <2>1, <2>2, StepsMap
  <2>3. ASSUME UNCHANGED <<vars, fetch>> PROVE UNCHANGED Runner!vars
    <3>1. UNCHANGED <<fetch, job, outcomes, requests>>
      BY <2>3 DEF vars, process
    <3>2. AttemptsEnded' = AttemptsEnded
      BY <3>1, NoAttemptEnds
    <3> QED
      BY <2>3, <3>2
      DEF vars, tables, lock, process, Runner!vars, Runner!tables, Runner!lock, Runner!process
  <2>4. CASE \E q \in wire : ThreadEnds(q)
    BY <2>3, <2>4 DEF ThreadEnds
  <2>5. CASE UNCHANGED providerVars
    BY <2>3, <2>5 DEF providerVars, fetching
  <2> QED
    BY <2>1, <2>2, <2>4, <2>5 DEF ProviderNext, CallStep
<1> QED
  BY <1>1, <1>2, AttemptOrder, PTL DEF ProviderSpec, RunnerSpec, Runner!Spec

-----------------------------------------------------------------------------
(* Types.  That no symbol is attempted too often and no request sent too    *)
(* often takes an invariant of its own.                                     *)

\* The attempts at a symbol are counted when they begin, not when they end.
InsideFits(c) ==
    IF Attempting(c)
    THEN /\ attempt[c] >= 1
         /\ \A s \in Remaining(c) :
               requests[c][s] = IF IsNext(c, s) THEN attempt[c] ELSE 0
    ELSE CountsFit(c)

\* A client that is about to send has not used up its retries.
RetriesFit(c) == fetch[c].phase = "send" => fetch[c].tries <= MaxRetries

FetchTypes ==
    /\ fetch \in [Calls -> Fetch]
    /\ wire \subseteq Request
    /\ answered \subseteq Request

\* The second inductive invariant, given the first.
RequestsAreBounded ==
    /\ TypeOK /\ WorkIsRecorded
    /\ \A c \in Calls : InsideFits(c) /\ RetriesFit(c)
    /\ FetchTypes

\* A call that a step leaves alone keeps its counts.
LEMMA OthersStayBounded ==
    ASSUME NEW d \in Calls, InsideFits(d), RetriesFit(d),
           pc'[d] = pc[d], job'[d] = job[d], attempt'[d] = attempt[d],
           outcomes'[d] = outcomes[d], fetch'[d] = fetch[d], requests'[d] = requests[d]
    PROVE  InsideFits(d)' /\ RetriesFit(d)'
<1>1. /\ Remaining(d)' = Remaining(d)
      /\ \A s : IsNext(d, s)' <=> IsNext(d, s)
  BY DEF Remaining, Settled, IsNext
<1>2. Attempting(d)' <=> Attempting(d)
  BY DEF Attempting
<1>3. CountsFit(d) => CountsFit(d)'
  BY <1>1 DEF CountsFit
<1> QED
  BY <1>1, <1>2, <1>3 DEF InsideFits, RetriesFit

\* The runner counts as it does without the inside of an attempt.
LEMMA RunnerStaysBounded ==
    ASSUME AttemptsAreOrderly, RequestsAreBounded, NEW c \in Calls, UNCHANGED fetching,
           \/ Refuse(c)
           \/ \E p \in Providers, S \in SUBSET Symbols : Start(c, p, S)
           \/ TryLock(c) \/ CreateRun(c) \/ OpenSource(c) \/ NextSymbol(c)
           \/ SaveFailed(c) \/ CompleteRun(c) \/ Unlock(c)
    PROVE  RequestsAreBounded'
<1>1. PICK p \in Providers, S \in SUBSET Symbols :
         /\ Refuse(c) \/ Start(c, p, S) \/ Work(c) \/ LoseConnection(c) \/ Die(c)
         /\ \/ Refuse(c) \/ Start(c, p, S) \/ TryLock(c) \/ CreateRun(c) \/ OpenSource(c)
            \/ NextSymbol(c) \/ SaveFailed(c) \/ CompleteRun(c) \/ Unlock(c)
  BY ProvidersExist DEF Work
<1>2. /\ pc[c] \notin {"attempt", "ended"} /\ fetch[c].phase = "none"
      /\ UNCHANGED requests
      /\ \A d \in Calls : d # c =>
            /\ pc'[d] = pc[d] /\ job'[d] = job[d]
            /\ attempt'[d] = attempt[d] /\ outcomes'[d] = outcomes[d]
  BY RunnerSteps DEF AttemptsAreOrderly, InStep
<1>3. CountsFit(c)
  BY <1>2 DEF RequestsAreBounded, InsideFits, Attempting
<1>4. StepIsFounded(c) /\ CallIsCounted(c)
  BY <1>3 DEF RequestsAreBounded, StepIsFounded, CallIsCounted
<1>5. TypeOK' /\ WorkIsRecorded'
  BY <1>1, <1>4, TypesArePreserved, RecordsArePreserved
<1>6. CountsFit(c)'
  BY <1>1, <1>4, CountsOfCallArePreserved
<1>7. UNCHANGED <<fetch, wire, answered>>
  BY DEF fetching
<1>8. InsideFits(c)' /\ RetriesFit(c)'
  BY <1>2, <1>6, <1>7 DEF InsideFits, Attempting, RetriesFit
<1>9. ASSUME NEW d \in Calls, d # c PROVE InsideFits(d)' /\ RetriesFit(d)'
  BY <1>2, <1>7, <1>9, OthersStayBounded DEF RequestsAreBounded
<1>10. FetchTypes'
  BY <1>7 DEF RequestsAreBounded, FetchTypes
<1> QED
  BY <1>5, <1>8, <1>9, <1>10 DEF RequestsAreBounded

\* An attempt of the runner is counted.
LEMMA NoAttemptIsSilent ==
    ASSUME TypeOK, NEW c \in Calls, requests' = requests
    PROVE  ~Attempt(c)
<1>1. SUFFICES ASSUME NEW s \in Symbols, requests' = [requests EXCEPT ![c][s] = @ + 1]
               PROVE  FALSE
  BY DEF Attempt
<1>2. requests[c][s] \in Nat
  BY LimitsArePositive DEF TypeOK
<1>3. requests'[c][s] = requests[c][s] + 1
  BY <1>1 DEF TypeOK
<1> QED
  BY <1>2, <1>3

\* A call whose connection breaks counts on; one that dies does not.
LEMMA EndsStayBounded ==
    ASSUME AttemptsAreOrderly, RequestsAreBounded, NEW c \in Calls,
           DieAsking(c) \/ (LoseConnection(c) /\ UNCHANGED fetching)
    PROVE  RequestsAreBounded'
<1>1. PICK p \in Providers, S \in SUBSET Symbols : TRUE
  BY ProvidersExist
<1>2. LoseConnection(c) \/ Die(c)
  BY DEF DieAsking
<1>3. StepIsFounded(c) \/ Attempt(c)
  BY DEF RequestsAreBounded, StepIsFounded
<1>4. ~Attempt(c)
  <2>1. CASE Die(c)
    <3>1. requests' = requests
      BY <2>1 DEF Die
    <3> QED
      BY <3>1, NoAttemptIsSilent DEF RequestsAreBounded
  <2>2. CASE LoseConnection(c)
    <3>1. requests' = requests
      BY <2>2 DEF LoseConnection, process
    <3> QED
      BY <3>1, NoAttemptIsSilent DEF RequestsAreBounded
  <2> QED
    BY <1>2, <2>1, <2>2
<1>5. TypeOK' /\ WorkIsRecorded'
  BY <1>2, <1>3, <1>4, TypesArePreserved, RecordsArePreserved
<1>6. /\ UNCHANGED <<job, attempt, outcomes, requests, fetch, answered>>
      /\ wire' \subseteq wire
      /\ pc' = pc \/ pc' = [pc EXCEPT ![c] = "ended"]
  BY DEF DieAsking, Die, Leave, Goto, LoseConnection, process, fetching
<1>7. \A d \in Calls : pc'[d] = pc[d] \/ pc'[d] = "ended"
  BY <1>6 DEF RequestsAreBounded, TypeOK
<1>8. ASSUME NEW d \in Calls PROVE InsideFits(d)' /\ RetriesFit(d)'
  <2>1. CASE pc'[d] = pc[d]
    BY <1>6, <2>1, OthersStayBounded DEF RequestsAreBounded
  <2>2. CASE pc'[d] = "ended"
    BY <1>6, <2>2 DEF RequestsAreBounded, RetriesFit, InsideFits, Attempting, CountsFit
  <2> QED
    BY <1>7, <2>1, <2>2
<1>9. FetchTypes'
  BY <1>6 DEF RequestsAreBounded, FetchTypes
<1> QED
  BY <1>5, <1>8, <1>9 DEF RequestsAreBounded

\* What is left to show of a step of one call.
LEMMA CallStaysBounded ==
    ASSUME AttemptsAreOrderly, RequestsAreBounded, NEW c \in Calls, StaysLocal(c),
           \A d \in Calls : d # c => requests'[d] = requests[d],
           TypeOK', WorkIsRecorded', FetchTypes', InsideFits(c)', RetriesFit(c)'
    PROVE  RequestsAreBounded'
<1>1. ASSUME NEW d \in Calls, d # c PROVE InsideFits(d)' /\ RetriesFit(d)'
  BY <1>1, OthersStayBounded DEF RequestsAreBounded, StaysLocal
<1> QED
  BY <1>1 DEF RequestsAreBounded

\* The requests of a symbol are counted by the number of its attempt.
LEMMA BeginStaysBounded ==
    ASSUME AttemptsAreOrderly, RequestsAreBounded, NEW c \in Calls, BeginAttempt(c)
    PROVE  RequestsAreBounded'
<1>1. PICK s \in Symbols :
         /\ pc[c] = "attempt" /\ fetch[c].phase = "none" /\ IsNext(c, s)
         /\ requests' = [requests EXCEPT ![c][s] = @ + 1]
         /\ fetch' = [fetch EXCEPT ![c] = [phase |-> "send", kind |-> "bars", tries |-> 0]]
         /\ UNCHANGED <<tables, lock, pc, job, attempt, failures, outcomes, exitCode>>
         /\ UNCHANGED <<wire, answered>>
  BY DEF BeginAttempt, FetchNext
<1>2. CountsFit(c)
  BY <1>1 DEF RequestsAreBounded, InsideFits, Attempting
<1>3. /\ requests[c][s] = attempt[c] - 1 /\ attempt[c] \in 1 .. MaxAttempts
      /\ \A x \in Symbols : x \in Remaining(c) /\ x # s => requests[c][x] = 0
  BY <1>1, <1>2, OneNextSymbol DEF CountsFit, AttemptsAreOrderly, InStep
<1>4. requests[c][s] + 1 = attempt[c] /\ attempt[c] \in 0 .. MaxAttempts
  BY <1>3, LimitsArePositive
<1>5. /\ requests' \in [Calls -> [Symbols -> 0 .. MaxAttempts]]
      /\ requests'[c][s] = attempt[c]
      /\ \A x \in Symbols : x # s => requests'[c][x] = requests[c][x]
      /\ \A d \in Calls : d # c => requests'[d] = requests[d]
  BY <1>1, <1>4 DEF RequestsAreBounded, TypeOK
<1>6. TypeOK' /\ WorkIsRecorded'
  BY <1>1, <1>5 DEF RequestsAreBounded, TypeOK, WorkIsRecorded, tables, lock
<1>7. [phase |-> "send", kind |-> "bars", tries |-> 0] \in Fetch
  BY RetriesAndPool DEF Fetch, Phases, Kinds
<1>8. /\ fetch' \in [Calls -> Fetch]
      /\ fetch'[c] = [phase |-> "send", kind |-> "bars", tries |-> 0]
  BY <1>1, <1>7 DEF RequestsAreBounded, FetchTypes
<1>9. FetchTypes' /\ RetriesFit(c)'
  BY <1>1, <1>8, RetriesAndPool DEF RequestsAreBounded, FetchTypes, RetriesFit
<1>10. /\ Remaining(c)' = Remaining(c)
       /\ \A x : IsNext(c, x)' <=> IsNext(c, x)
  BY <1>1 DEF Remaining, Settled, IsNext
<1>11. Remaining(c) \subseteq Symbols
  BY <1>1 DEF RequestsAreBounded, TypeOK, Remaining, NoJob
<1>12. \A x \in Symbols : IsNext(c, x) <=> x = s
  BY <1>1, OneNextSymbol
<1>13. \A x \in Remaining(c) : requests'[c][x] = IF IsNext(c, x) THEN attempt[c] ELSE 0
  BY <1>3, <1>5, <1>11, <1>12
<1>14. InsideFits(c)'
  BY <1>1, <1>3, <1>8, <1>10, <1>13 DEF InsideFits, Attempting
<1>15. StaysLocal(c)
  BY StepsAreLocal DEF CallStep
<1> QED
  BY <1>5, <1>6, <1>9, <1>14, <1>15, CallStaysBounded

\* A step of an attempt that is not its end leaves the runner's variables alone.
LEMMA InsideStaysBounded ==
    ASSUME AttemptsAreOrderly, RequestsAreBounded, NEW c \in Calls,
           CallStep(c), Attempting(c), UNCHANGED vars, FetchTypes',
           fetch'[c].phase # "none", RetriesFit(c)'
    PROVE  RequestsAreBounded'
<1>1. UNCHANGED <<runs, items, refreshed, holder, connected, pc, job, attempt, failures,
                  outcomes, requests, exitCode>>
  BY DEF vars, tables, lock, process
<1>2. TypeOK' /\ WorkIsRecorded'
  BY <1>1 DEF RequestsAreBounded, TypeOK, WorkIsRecorded
<1>3. /\ Remaining(c)' = Remaining(c)
      /\ \A x : IsNext(c, x)' <=> IsNext(c, x)
  BY <1>1 DEF Remaining, Settled, IsNext
<1>4. InsideFits(c)'
  BY <1>1, <1>3 DEF RequestsAreBounded, InsideFits, Attempting
<1> QED
  BY <1>1, <1>2, <1>4, StepsAreLocal, CallStaysBounded

LEMMA SendStaysBounded ==
    ASSUME AttemptsAreOrderly, RequestsAreBounded, NEW c \in Calls, Send(c)
    PROVE  RequestsAreBounded'
<1>1. PICK s \in Symbols :
         /\ Attempting(c) /\ fetch[c].phase = "send"
         /\ wire' = wire \cup {[call |-> c, symbol |-> s, attempt |-> attempt[c],
                                kind |-> fetch[c].kind]}
         /\ fetch' = [fetch EXCEPT ![c] = [phase |-> "wait", kind |-> fetch[c].kind,
                                           tries |-> fetch[c].tries + 1]]
         /\ UNCHANGED <<vars, answered>>
  BY DEF Send, FetchNext
<1>2. fetch[c].kind \in Kinds /\ fetch[c].tries \in Nat /\ fetch[c].tries <= MaxRetries
  BY <1>1 DEF RequestsAreBounded, FetchTypes, RetriesFit, Fetch
<1>3. fetch[c].tries + 1 \in 0 .. MaxRetries + 1
  BY <1>2, RetriesAndPool
<1>4. [phase |-> "wait", kind |-> fetch[c].kind, tries |-> fetch[c].tries + 1] \in Fetch
  BY <1>2, <1>3 DEF Fetch, Phases
<1>5. fetch' \in [Calls -> Fetch] /\ fetch'[c].phase = "wait"
  BY <1>1, <1>4 DEF RequestsAreBounded, FetchTypes
<1>6. attempt[c] \in 1 .. MaxAttempts
  BY <1>1 DEF AttemptsAreOrderly, InStep, Attempting
<1>7. wire' \subseteq Request
  BY <1>1, <1>2, <1>6 DEF RequestsAreBounded, FetchTypes, Request
<1>8. FetchTypes' /\ RetriesFit(c)'
  BY <1>1, <1>5, <1>7 DEF RequestsAreBounded, FetchTypes, RetriesFit
<1> QED
  BY <1>1, <1>5, <1>8, InsideStaysBounded DEF CallStep

\* Every client gives up once it has used up its retries.
LEMMA RetriesAreLimited ==
    ASSUME NEW provider \in Providers, NEW response, NEW tries \in Nat,
           Verdict(provider, response, tries) = "again"
    PROVE  tries <= MaxRetries
<1>1. provider \in {"alpha_vantage", "finnhub", "yahoo_finance"}
  BY ProvidersAreRegistered
<1>2. CASE provider = "alpha_vantage"
  BY <1>2 DEF Verdict, AlphaVantageVerdict
<1>3. CASE provider = "finnhub"
  BY <1>3, RetriesAndPool DEF Verdict, FinnhubVerdict
<1>4. CASE provider = "yahoo_finance"
  BY <1>4 DEF Verdict, YahooVerdict
<1> QED
  BY <1>1, <1>2, <1>3, <1>4

\* The end of an attempt as the runner sees it: another attempt, a failed symbol
\* or a refreshed one.
EndsAt(c, s) ==
    \/ RetryOrGiveUp(c) /\ UNCHANGED outcomes
    \/ /\ failures' = [failures EXCEPT ![c] = 0]
       /\ outcomes' = [outcomes EXCEPT ![c] = @ \cup {<<s, TRUE>>}]
       /\ Goto(c, "next_symbol")
       /\ UNCHANGED attempt

\* The number of the attempt is that of the requests counted.
LEMMA EndsFit ==
    ASSUME TypeOK, NEW c \in Calls, NEW s \in Symbols, Attempting(c), InsideFits(c),
           IsNext(c, s), EndsAt(c, s), UNCHANGED <<job, requests>>,
           fetch'[c].phase = "none"
    PROVE  InsideFits(c)'
<1>1. /\ pc[c] = "attempt" /\ attempt[c] \in Nat /\ attempt[c] >= 1
      /\ Remaining(c) \subseteq Symbols
      /\ \A x \in Remaining(c) : requests[c][x] = IF IsNext(c, x) THEN attempt[c] ELSE 0
  <2>1. job[c].symbols \subseteq Symbols
    BY DEF TypeOK, NoJob
  <2> QED
    BY <2>1, LimitsArePositive DEF Attempting, InsideFits, TypeOK, Remaining
<1>2. \A x \in Remaining(c) : IsNext(c, x) <=> x = s
  BY <1>1, OneNextSymbol
<1>3. CASE RetryOrGiveUp(c) /\ UNCHANGED outcomes
  <2>1. /\ Remaining(c)' = Remaining(c)
        /\ \A x : IsNext(c, x)' <=> IsNext(c, x)
    BY <1>3 DEF Remaining, Settled, IsNext
  <2>2. \/ pc'[c] = "attempt" /\ attempt'[c] = attempt[c] + 1
        \/ pc'[c] = "save_failed"
    BY <1>1, <1>3 DEF TypeOK, RetryOrGiveUp, Goto
  <2>3. CASE pc'[c] = "attempt" /\ attempt'[c] = attempt[c] + 1
    <3>1. attempt'[c] >= 1 /\ attempt'[c] - 1 = attempt[c]
      BY <1>1, <2>3
    <3> QED
      BY <1>1, <2>1, <2>3, <3>1 DEF InsideFits, CountsFit, Attempting, IsNext
  <2>4. CASE pc'[c] = "save_failed"
    BY <1>1, <2>1, <2>4 DEF InsideFits, CountsFit, Attempting
  <2> QED
    BY <2>2, <2>3, <2>4
<1>4. CASE /\ outcomes' = [outcomes EXCEPT ![c] = @ \cup {<<s, TRUE>>}]
           /\ Goto(c, "next_symbol")
  <2>1. outcomes'[c] = outcomes[c] \cup {<<s, TRUE>>} /\ pc'[c] = "next_symbol"
    BY <1>4 DEF TypeOK, Goto
  <2>2. \A o \in outcomes[c] : o[1] \in Settled(c)'
    BY <2>1 DEF Settled
  <2>3. <<s, TRUE>>[1] \in Settled(c)'
    BY <2>1 DEF Settled
  <2>4. s \in Settled(c)' /\ Settled(c) \subseteq Settled(c)'
    BY <2>2, <2>3 DEF Settled
  <2>5. Remaining(c)' \subseteq Remaining(c) \ {s}
    BY <2>4 DEF Remaining
  <2> QED
    BY <1>1, <1>2, <2>1, <2>5 DEF InsideFits, CountsFit, Attempting
<1> QED
  BY <1>3, <1>4 DEF EndsAt

\* Failed or stored, an attempt that is over leaves the counts in order.
LEMMA AttemptEndStaysBounded ==
    ASSUME AttemptsAreOrderly, RequestsAreBounded, NEW c \in Calls, Attempting(c),
           CallStep(c), FailAttempt(c) \/ Store(c), wire' \subseteq wire
    PROVE  RequestsAreBounded'
<1>1. PICK s \in Symbols :
         /\ IsNext(c, s) /\ EndsAt(c, s)
         /\ items' \subseteq items \cup {ItemOf(c, s, "succeeded")}
         /\ refreshed' \subseteq refreshed \cup {<<c, s>>}
         /\ fetch' = [fetch EXCEPT ![c] = NoFetch]
         /\ UNCHANGED <<runs, lock, job, requests, exitCode, answered>>
  <2>1. CASE FailAttempt(c)
    <3>1. PICK s \in Symbols : IsNext(c, s)
      BY DEF AttemptsAreOrderly, InStep
    <3>2. EndsAt(c, s) /\ UNCHANGED <<runs, items, refreshed>>
      BY <2>1 DEF FailAttempt, EndsAt, tables
    <3> QED
      BY <2>1, <3>1, <3>2 DEF FailAttempt
  <2>2. CASE ~FailAttempt(c)
    BY <2>2 DEF Store, EndsAt
  <2> QED
    BY <2>1, <2>2
<1>2. TypeOK /\ WorkIsRecorded /\ InsideFits(c)
  BY DEF RequestsAreBounded
<1>3. /\ pc' \in [Calls -> Labels]
      /\ attempt' \in [Calls -> 0 .. MaxAttempts]
      /\ failures' \in [Calls -> Nat]
      /\ \A d \in Calls : pc'[d] = pc[d] \/ d = c
  <2>0. /\ pc \in [Calls -> Labels]
        /\ attempt \in [Calls -> 0 .. MaxAttempts]
        /\ failures \in [Calls -> Nat]
    BY <1>2 DEF TypeOK
  <2>1. CASE RetryOrGiveUp(c)
    <3>1. attempt[c] < MaxAttempts => attempt[c] + 1 \in 0 .. MaxAttempts
      BY <2>0, LimitsArePositive
    <3>2. failures[c] + 1 \in Nat
      BY <2>0
    <3>3. attempt' \in [Calls -> 0 .. MaxAttempts]
      BY <2>0, <2>1, <3>1 DEF RetryOrGiveUp
    <3>4. failures' \in [Calls -> Nat]
      BY <2>0, <2>1, <3>2 DEF RetryOrGiveUp
    <3> QED
      BY <2>0, <2>1, <3>3, <3>4 DEF RetryOrGiveUp, Goto, Labels
  <2>2. CASE /\ failures' = [failures EXCEPT ![c] = 0]
             /\ Goto(c, "next_symbol")
             /\ UNCHANGED attempt
    <3>1. failures' \in [Calls -> Nat]
      BY <2>0, <2>2
    <3> QED
      BY <2>0, <2>2, <3>1 DEF Goto, Labels
  <2> QED
    BY <1>1, <2>1, <2>2 DEF EndsAt
<1>4. outcomes' \in [Calls -> SUBSET (Symbols \X BOOLEAN)]
  <2>1. outcomes' = outcomes \/ outcomes' = [outcomes EXCEPT ![c] = @ \cup {<<s, TRUE>>}]
    BY <1>1 DEF EndsAt
  <2>2. <<s, TRUE>> \in Symbols \X BOOLEAN
    OBVIOUS
  <2>3. outcomes \in [Calls -> SUBSET (Symbols \X BOOLEAN)]
    BY <1>2 DEF TypeOK
  <2>4. outcomes[c] \cup {<<s, TRUE>>} \in SUBSET (Symbols \X BOOLEAN)
    BY <2>2, <2>3
  <2>5. CASE outcomes' = [outcomes EXCEPT ![c] = outcomes[c] \cup {<<s, TRUE>>}]
    BY <2>3, <2>4, <2>5
  <2> QED
    BY <2>1, <2>3, <2>5
<1>5. ItemOf(c, s, "succeeded") \in Item
  BY DEF ItemOf, Item
<1>6. TypeOK'
  BY <1>1, <1>2, <1>3, <1>4, <1>5 DEF TypeOK, lock
<1>7. WorkIsRecorded'
  BY <1>1, <1>2, <1>3 DEF WorkIsRecorded, Attempting
<1>8. NoFetch \in Fetch
  BY RetriesAndPool DEF NoFetch, Fetch, Phases, Kinds
<1>9. fetch' \in [Calls -> Fetch] /\ fetch'[c].phase = "none"
  BY <1>1, <1>8 DEF RequestsAreBounded, FetchTypes, NoFetch
<1>10. FetchTypes' /\ RetriesFit(c)'
  BY <1>1, <1>9 DEF RequestsAreBounded, FetchTypes, RetriesFit
<1>11. InsideFits(c)'
  BY <1>1, <1>2, <1>9, EndsFit
<1> QED
  BY <1>1, <1>6, <1>7, <1>10, <1>11, StepsAreLocal, CallStaysBounded

LEMMA RespondStaysBounded ==
    ASSUME AttemptsAreOrderly, RequestsAreBounded, NEW c \in Calls,
           NEW q \in wire, NEW response \in Responses, Respond(c, q, response)
    PROVE  RequestsAreBounded'
<1>1. CallStep(c) /\ Attempting(c) /\ wire' \subseteq wire
  BY DEF CallStep, Respond, Awaits
<1>2. CASE FailAttempt(c)
  BY <1>1, <1>2, AttemptEndStaysBounded
<1>3. q \in Request /\ q.kind \in Kinds /\ q.kind = fetch[c].kind /\ fetch[c].tries \in Nat
  BY DEF RequestsAreBounded, FetchTypes, Request, Fetch, Respond, Awaits
<1>4. ASSUME NEW phase \in {"send", "store"}, NEW kind \in Kinds, NEW tries \in 0 .. MaxRetries,
             FetchNext(c, phase, kind, tries), UNCHANGED vars,
             answered' \in {answered, answered \cup {q}}
      PROVE  RequestsAreBounded'
  <2>1. tries \in 0 .. MaxRetries + 1 /\ tries <= MaxRetries
    BY RetriesAndPool
  <2>2. [phase |-> phase, kind |-> kind, tries |-> tries] \in Fetch
    BY <2>1 DEF Fetch, Phases
  <2>3. /\ fetch' \in [Calls -> Fetch]
        /\ fetch'[c].phase = phase /\ fetch'[c].tries = tries
    BY <1>4, <2>2 DEF FetchNext, RequestsAreBounded, FetchTypes
  <2>4. FetchTypes' /\ RetriesFit(c)'
    BY <1>1, <1>3, <1>4, <2>1, <2>3 DEF RequestsAreBounded, FetchTypes, RetriesFit
  <2> QED
    BY <1>1, <1>4, <2>3, <2>4, InsideStaysBounded
<1>5. CASE /\ FetchNext(c, "send", "fundamentals", 0) \/ FetchNext(c, "store", "fundamentals", 0)
           /\ UNCHANGED vars /\ answered' = answered \cup {q}
  BY <1>4, <1>5, RetriesAndPool DEF Kinds
<1>6. CASE /\ Verdict(job[c].provider, response, fetch[c].tries) = "again"
           /\ FetchNext(c, "send", q.kind, fetch[c].tries) /\ UNCHANGED <<vars, answered>>
  <2>1. job[c].symbols # {}
    BY <1>1 DEF AttemptsAreOrderly, InStep, IsNext, Remaining
  <2>2. job[c] \in [provider : Providers, symbols : SUBSET Symbols]
    BY <2>1 DEF RequestsAreBounded, TypeOK, NoJob
  <2>3. job[c].provider \in Providers
    BY <2>2
  <2>4. fetch[c].tries <= MaxRetries
    BY <1>3, <1>6, <2>3, RetriesAreLimited
  <2>5. fetch[c].tries \in 0 .. MaxRetries
    BY <1>3, <2>4, RetriesAndPool
  <2> QED
    BY <1>3, <1>4, <1>6, <2>5
<1> QED
  BY <1>2, <1>5, <1>6 DEF Respond

\* A thread that ends leaves its call alone.
LEMMA QuietStepsStayBounded ==
    ASSUME RequestsAreBounded, UNCHANGED <<vars, fetch, answered>>, wire' \subseteq wire
    PROVE  RequestsAreBounded'
<1>1. UNCHANGED <<runs, items, refreshed, holder, connected, pc, job, attempt, failures,
                  outcomes, requests, exitCode, fetch, answered>>
  BY DEF vars, tables, lock, process
<1>2. TypeOK' /\ WorkIsRecorded' /\ FetchTypes'
  BY <1>1 DEF RequestsAreBounded, TypeOK, WorkIsRecorded, FetchTypes
<1>3. \A c \in Calls : InsideFits(c)' /\ RetriesFit(c)'
  BY <1>1, OthersStayBounded DEF RequestsAreBounded
<1> QED
  BY <1>2, <1>3 DEF RequestsAreBounded

LEMMA RequestsStayBounded ==
    AttemptsAreOrderly /\ RequestsAreBounded /\ [ProviderNext]_providerVars
        => RequestsAreBounded'
<1>1. SUFFICES ASSUME AttemptsAreOrderly, RequestsAreBounded, [ProviderNext]_providerVars
               PROVE  RequestsAreBounded'
  OBVIOUS
<1>2. ASSUME NEW c \in Calls, CallStep(c) PROVE RequestsAreBounded'
  <2>1. CASE \/ Refuse(c) /\ UNCHANGED fetching
             \/ \E p \in Providers, S \in SUBSET Symbols : Start(c, p, S) /\ UNCHANGED fetching
             \/ RunnerWork(c)
    BY <1>1, <2>1, RunnerStaysBounded DEF RunnerWork
  <2>2. CASE BeginAttempt(c)
    BY <1>1, <2>2, BeginStaysBounded
  <2>3. CASE Send(c)
    BY <1>1, <2>3, SendStaysBounded
  <2>4. CASE \E q \in wire, response \in Responses : Respond(c, q, response)
    BY <1>1, <2>4, RespondStaysBounded
  <2>5. CASE Store(c)
    BY <1>1, <1>2, <2>5, AttemptEndStaysBounded DEF Store
  <2>6. CASE TimeOut(c)
    <3>1. wire' \subseteq wire
      BY <2>6 DEF TimeOut
    <3> QED
      BY <1>1, <1>2, <2>6, <3>1, AttemptEndStaysBounded DEF TimeOut
  <2>7. CASE (LoseConnection(c) /\ UNCHANGED fetching) \/ DieAsking(c)
    BY <1>1, <2>7, EndsStayBounded
  <2> QED
    BY <1>2, <2>1, <2>2, <2>3, <2>4, <2>5, <2>6, <2>7 DEF CallStep
<1>3. CASE \E q \in wire : ThreadEnds(q)
  BY <1>1, <1>3, QuietStepsStayBounded DEF ThreadEnds
<1>4. CASE UNCHANGED providerVars
  BY <1>1, <1>4, QuietStepsStayBounded DEF providerVars, fetching
<1> QED
  BY <1>1, <1>2, <1>3, <1>4 DEF ProviderNext, CallStep

LEMMA InitIsBounded == ProviderInit => RequestsAreBounded
<1>1. SUFFICES ASSUME ProviderInit PROVE RequestsAreBounded
  OBVIOUS
<1>2. RunsAreOrderly
  BY <1>1, InitIsOrderly DEF ProviderInit
<1>3. NoFetch \in Fetch
  BY RetriesAndPool DEF NoFetch, Fetch, Phases, Kinds
<1>4. FetchTypes
  BY <1>1, <1>3 DEF ProviderInit, FetchTypes
<1>5. \A c \in Calls : fetch[c].phase = "none"
  BY <1>1 DEF ProviderInit, NoFetch
<1>6. \A c \in Calls : InsideFits(c) /\ RetriesFit(c)
  BY <1>2, <1>5 DEF RunsAreOrderly, RequestsAreCounted, InsideFits, Attempting, RetriesFit
<1> QED
  BY <1>2, <1>4, <1>6 DEF RunsAreOrderly, RequestsAreBounded

\* Types with the limits on attempts and on retries: a symbol is attempted
\* MaxAttempts times at most, time-outs included, and a request sent
\* MaxRetries + 1 times, whichever client the provider has.
THEOREM ProviderTypes == ProviderSpec => []ProviderTypeOK
<1>1. RequestsAreBounded => ProviderTypeOK
  BY DEF RequestsAreBounded, FetchTypes, ProviderTypeOK
<1> QED
  BY <1>1, InitIsBounded, RequestsStayBounded, AttemptOrder, PTL DEF ProviderSpec
=============================================================================
