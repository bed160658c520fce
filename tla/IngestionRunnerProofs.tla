------------------------ MODULE IngestionRunnerProofs ------------------------
(***************************************************************************)
(* For any number of calls, providers and symbols: types and the limit on  *)
(* attempts, one run a provider, items that tell what is stored, reports   *)
(* that sum them up, and the circuit that protects the provider.           *)
(***************************************************************************)
EXTENDS IngestionRunner, FiniteSetTheorems, FunctionTheorems, WellFoundedInduction,
        TLAPS

Job == [provider : Providers, symbols : SUBSET Symbols]

\* A call that works has a job, and its lock connection, while it is alive,
\* holds the lock of its provider.
LocksFollowConnections ==
    \A c \in Calls :
        /\ pc[c] \notin {"ready", "ended"} => job[c] \in Job
        /\ connected[c] =>
              /\ pc[c] \notin {"ready", "try_lock", "ended"}
              /\ holder[job[c].provider] = c

\* A call that refreshes symbols has its run in the database.
WorkIsRecorded ==
    \A c \in Calls :
        pc[c] \in {"open_source", "next_symbol", "attempt", "save_failed",
                   "complete_run"} => runs[c] # NoRun

\* Symbols are taken one after the other: those to come have not been attempted
\* and the current one has been as often as the attempts tell.
CountsFit(c) ==
    \A s \in Symbols :
        /\ pc[c] \in {"ready", "try_lock", "create_run", "open_source"} =>
              requests[c][s] = 0
        /\ pc[c] = "next_symbol" /\ s \in Remaining(c) => requests[c][s] = 0
        /\ pc[c] \in {"attempt", "save_failed"} /\ s \in Remaining(c) /\ ~IsNext(c, s) =>
              requests[c][s] = 0
        /\ pc[c] = "attempt" /\ IsNext(c, s) => requests[c][s] = attempt[c] - 1
        /\ pc[c] = "attempt" => attempt[c] >= 1

RequestsAreCounted == \A c \in Calls : CountsFit(c)

\* The inductive invariant.
RunsAreOrderly ==
    /\ TypeOK
    /\ LocksFollowConnections
    /\ WorkIsRecorded
    /\ RequestsAreCounted
    /\ ItemsTellTheTruth

-----------------------------------------------------------------------------

\* A run has one next symbol.
LEMMA NextIsUnique ==
    ASSUME NEW c \in Calls, NEW s \in Symbols, NEW t \in Symbols,
           IsNext(c, s), IsNext(c, t)
    PROVE  s = t
  BY SymbolsAreSorted DEF IsNext

\* The empty database and no process satisfy the invariant.
LEMMA InitIsOrderly == Init => RunsAreOrderly
<1>1. SUFFICES ASSUME Init PROVE RunsAreOrderly
  OBVIOUS
<1>2. TypeOK
  BY <1>1, LimitsArePositive DEF Init, TypeOK, Labels, NoJob, NoRun
<1>3. LocksFollowConnections
  BY <1>1 DEF Init, LocksFollowConnections
<1>4. WorkIsRecorded
  BY <1>1 DEF Init, WorkIsRecorded
<1>5. RequestsAreCounted
  BY <1>1 DEF Init, RequestsAreCounted, CountsFit
<1>6. ItemsTellTheTruth
  BY <1>1 DEF Init, ItemsTellTheTruth
<1> QED
  BY <1>2, <1>3, <1>4, <1>5, <1>6 DEF RunsAreOrderly

\* The row of a new run is well formed.
LEMMA NewRunIsRun ==
    ASSUME NEW S \in SUBSET Symbols
    PROVE  [status |-> "running", requested |-> Cardinality(S),
            succeeded |-> 0, failed |-> 0] \in Run
<1>1. Cardinality(S) \in Nat
  BY SymbolsAreSorted, FS_Subset, FS_CardinalityType
<1> QED
  BY <1>1 DEF Run, RunStatus

\* A call has finitely many outcomes of either sort.
LEMMA CountIsNatural ==
    ASSUME TypeOK, NEW c \in Calls, NEW succeeded \in BOOLEAN
    PROVE  Count(c, succeeded) \in Nat
<1>1. IsFiniteSet(Symbols \X BOOLEAN)
  <2>1. BOOLEAN = {TRUE, FALSE}
    OBVIOUS
  <2>2. IsFiniteSet({TRUE}) /\ IsFiniteSet({FALSE})
    BY FS_Singleton
  <2>3. IsFiniteSet({TRUE} \cup {FALSE})
    BY <2>2, FS_Union
  <2>4. {TRUE} \cup {FALSE} = BOOLEAN
    OBVIOUS
  <2>5. IsFiniteSet(BOOLEAN)
    BY <2>3, <2>4
  <2> QED
    BY <2>5, SymbolsAreSorted, FS_Product
<1>2. {o \in outcomes[c] : o[2] = succeeded} \subseteq Symbols \X BOOLEAN
  BY DEF TypeOK
<1> QED
  BY <1>1, <1>2, FS_Subset, FS_CardinalityType DEF Count

\* The closing update of a run leaves a well-formed row.
LEMMA ClosedRunIsRun ==
    ASSUME TypeOK, NEW c \in Calls, runs[c] # NoRun,
           NEW succeeded \in Nat, NEW failed \in Nat
    PROVE  [runs EXCEPT ![c].status = RunStatusOf(succeeded, failed),
                        ![c].succeeded = succeeded,
                        ![c].failed = failed] \in [Calls -> Run \cup {NoRun}]
<1>1. runs[c] \in Run /\ RunStatusOf(succeeded, failed) \in RunStatus
  BY DEF TypeOK, RunStatusOf, RunStatus
<1> QED
  BY <1>1 DEF TypeOK, Run

\* What of the invariant a step of c depends on to keep types and records, and
\* to keep its attempts counted.
StepIsFounded(c) == TypeOK /\ WorkIsRecorded /\ (Attempt(c) => CountsFit(c))
CallIsCounted(c) == TypeOK /\ CountsFit(c)

\* Steps keep the types.
LEMMA TypesArePreserved ==
    ASSUME NEW c \in Calls, NEW p \in Providers, NEW S \in SUBSET Symbols,
           StepIsFounded(c),
           Refuse(c) \/ Start(c, p, S) \/ Work(c) \/ LoseConnection(c) \/ Die(c)
    PROVE  TypeOK'
<1>1. TypeOK /\ WorkIsRecorded
  BY DEF StepIsFounded
<1>2. CASE Refuse(c)
  BY <1>1, <1>2 DEF TypeOK, Refuse, Leave, Goto, tables, lock, Labels, ExitCode
<1>3. CASE Start(c, p, S)
  BY <1>1, <1>3 DEF TypeOK, Start, Goto, tables, lock, Labels
<1>4. CASE TryLock(c)
  <2>1. /\ holder' = holder \/ holder' = [holder EXCEPT ![job[c].provider] = c]
        /\ connected' = connected \/ connected' = [connected EXCEPT ![c] = TRUE]
    BY <1>4 DEF TryLock, lock
  <2>2. holder' \in [Providers -> Calls \cup {Nobody}]
    BY <1>1, <2>1 DEF TypeOK
  <2>3. connected' \in [Calls -> BOOLEAN]
    BY <1>1, <2>1 DEF TypeOK
  <2>4. /\ pc' \in [Calls -> Labels]
        /\ exitCode' \in [Calls -> ExitCode \cup {"none"}]
    BY <1>1, <1>4 DEF TypeOK, TryLock, Leave, Goto, Labels, ExitCode
  <2> QED
    BY <1>1, <1>4, <2>2, <2>3, <2>4 DEF TypeOK, TryLock, tables
<1>5. CASE CreateRun(c)
  <2>1. job[c].symbols \in SUBSET Symbols
    BY <1>1 DEF TypeOK, NoJob
  <2>2. runs' \in [Calls -> Run \cup {NoRun}]
    BY <1>1, <1>5, <2>1, NewRunIsRun DEF TypeOK, CreateRun
  <2>3. /\ pc' \in [Calls -> Labels]
        /\ exitCode' \in [Calls -> ExitCode \cup {"none"}]
    BY <1>1, <1>5 DEF TypeOK, CreateRun, Raise, Leave, Goto, Labels, ExitCode
  <2> QED
    BY <1>1, <1>5, <2>2, <2>3 DEF TypeOK, CreateRun, lock
<1>6. CASE OpenSource(c)
  BY <1>1, <1>6 DEF TypeOK, OpenSource, Raise, Leave, Goto, tables, lock, Labels, ExitCode
<1>7. CASE NextSymbol(c)
  <2>1. /\ \E l \in {"complete_run", "save_failed", "attempt"} : pc' = [pc EXCEPT ![c] = l]
        /\ attempt' = attempt \/ attempt' = [attempt EXCEPT ![c] = 1]
    BY <1>7 DEF NextSymbol, Goto
  <2>2. pc' \in [Calls -> Labels]
    BY <1>1, <2>1 DEF TypeOK, Labels
  <2>3. attempt' \in [Calls -> 0 .. MaxAttempts]
    BY <1>1, <2>1, LimitsArePositive DEF TypeOK
  <2> QED
    BY <1>1, <1>7, <2>2, <2>3 DEF TypeOK, NextSymbol, tables, lock
<1>8. CASE Attempt(c)
  <2>0. CountsFit(c)
    BY <1>8 DEF StepIsFounded
  <2>1. PICK s \in Symbols :
           /\ IsNext(c, s)
           /\ requests' = [requests EXCEPT ![c][s] = @ + 1]
           /\ items' = items \/ items' = items \cup {ItemOf(c, s, "succeeded")}
           /\ refreshed' = refreshed \/ refreshed' = refreshed \cup {<<c, s>>}
           /\ \/ outcomes' = outcomes
              \/ outcomes' = [outcomes EXCEPT ![c] = @ \cup {<<s, TRUE>>}]
    BY <1>8 DEF Attempt
  <2>2. /\ \/ attempt' = attempt
           \/ /\ attempt[c] < MaxAttempts
              /\ attempt' = [attempt EXCEPT ![c] = @ + 1]
        /\ \/ failures' = failures
           \/ failures' = [failures EXCEPT ![c] = 0]
           \/ failures' = [failures EXCEPT ![c] = @ + 1]
        /\ \/ pc' = pc
           \/ pc' = [pc EXCEPT ![c] = "save_failed"]
           \/ pc' = [pc EXCEPT ![c] = "next_symbol"]
    BY <1>8 DEF Attempt, RetryOrGiveUp, Goto
  <2>3. requests' \in [Calls -> [Symbols -> 0 .. MaxAttempts]]
    <3>1. requests[c][s] = attempt[c] - 1 /\ attempt[c] \in 1 .. MaxAttempts
      BY <1>1, <1>8, <2>0, <2>1, LimitsArePositive DEF TypeOK, CountsFit, Attempt
    <3>2. requests[c][s] + 1 \in 0 .. MaxAttempts
      BY <3>1, LimitsArePositive
    <3> QED
      BY <1>1, <2>1, <3>2 DEF TypeOK
  <2>4. items' \subseteq Item /\ refreshed' \subseteq Calls \X Symbols
    BY <1>1, <2>1 DEF TypeOK, Item, ItemOf
  <2>5. outcomes' \in [Calls -> SUBSET (Symbols \X BOOLEAN)]
    <3>1. outcomes[c] \cup {<<s, TRUE>>} \in SUBSET (Symbols \X BOOLEAN)
      <4>1. outcomes[c] \in SUBSET (Symbols \X BOOLEAN)
        BY <1>1 DEF TypeOK
      <4>2. <<s, TRUE>> \in Symbols \X BOOLEAN
        OBVIOUS
      <4> QED
        BY <4>1, <4>2
    <3> QED
      BY <1>1, <2>1, <3>1 DEF TypeOK
  <2>6. attempt' \in [Calls -> 0 .. MaxAttempts]
    <3>1. attempt[c] < MaxAttempts => attempt[c] + 1 \in 0 .. MaxAttempts
      BY <1>1, LimitsArePositive DEF TypeOK
    <3> QED
      BY <1>1, <2>2, <3>1 DEF TypeOK
  <2>7. failures' \in [Calls -> Nat]
    BY <1>1, <2>2 DEF TypeOK
  <2>8. pc' \in [Calls -> Labels]
    BY <1>1, <2>2 DEF TypeOK, Labels
  <2> QED
    BY <1>1, <1>8, <2>3, <2>4, <2>5, <2>6, <2>7, <2>8 DEF TypeOK, Attempt, lock
<1>9. CASE SaveFailed(c)
  <2>1. PICK s \in Symbols :
           /\ items' = items \/ items' = items \cup {ItemOf(c, s, "failed")}
           /\ \/ outcomes' = outcomes
              \/ outcomes' = [outcomes EXCEPT ![c] = @ \cup {<<s, FALSE>>}]
    BY <1>9 DEF SaveFailed
  <2>2. items' \subseteq Item
    BY <1>1, <2>1 DEF TypeOK, Item, ItemOf
  <2>3. outcomes' \in [Calls -> SUBSET (Symbols \X BOOLEAN)]
    <3>1. outcomes[c] \cup {<<s, FALSE>>} \in SUBSET (Symbols \X BOOLEAN)
      <4>1. outcomes[c] \in SUBSET (Symbols \X BOOLEAN)
        BY <1>1 DEF TypeOK
      <4>2. <<s, FALSE>> \in Symbols \X BOOLEAN
        OBVIOUS
      <4> QED
        BY <4>1, <4>2
    <3> QED
      BY <1>1, <2>1, <3>1 DEF TypeOK
  <2>4. /\ pc' \in [Calls -> Labels]
        /\ exitCode' \in [Calls -> ExitCode \cup {"none"}]
    BY <1>1, <1>9 DEF TypeOK, SaveFailed, Raise, Leave, Goto, Labels, ExitCode
  <2> QED
    BY <1>1, <1>9, <2>2, <2>3, <2>4 DEF TypeOK, SaveFailed, lock
<1>10. CASE CompleteRun(c)
  <2>1. Count(c, TRUE) \in Nat /\ Count(c, FALSE) \in Nat /\ runs[c] # NoRun
    BY <1>1, <1>10, CountIsNatural DEF WorkIsRecorded, CompleteRun
  <2> DEFINE closed ==
        [runs EXCEPT ![c].status = RunStatusOf(Count(c, TRUE), Count(c, FALSE)),
                     ![c].succeeded = Count(c, TRUE),
                     ![c].failed = Count(c, FALSE)]
  <2>2. runs' \in [Calls -> Run \cup {NoRun}]
    <3>1. closed \in [Calls -> Run \cup {NoRun}]
      BY <1>1, <2>1, ClosedRunIsRun
    <3>2. runs' \in {runs, closed}
      BY <1>10 DEF CompleteRun
    <3> QED
      BY <1>1, <3>1, <3>2 DEF TypeOK
  <2>3. /\ pc' \in [Calls -> Labels]
        /\ exitCode' \in [Calls -> ExitCode \cup {"none"}]
    BY <1>1, <1>10
    DEF TypeOK, CompleteRun, ExitCodeOf, Raise, Leave, Goto, Labels, ExitCode
  <2> QED
    BY <1>1, <1>10, <2>2, <2>3 DEF TypeOK, CompleteRun, lock
<1>11. CASE Unlock(c)
  BY <1>1, <1>11 DEF TypeOK, Unlock, Release, Leave, Goto, tables, Labels, ExitCode
<1>12. CASE LoseConnection(c)
  BY <1>1, <1>12 DEF TypeOK, LoseConnection, Release, tables, process
<1>13. CASE Die(c)
  BY <1>1, <1>13 DEF TypeOK, Die, Release, Leave, Goto, tables, Labels, ExitCode
<1> QED
  BY <1>2, <1>3, <1>4, <1>5, <1>6, <1>7, <1>8, <1>9, <1>10, <1>11, <1>12, <1>13
  DEF Work

\* A step of a call leaves the process of every other call alone.
LEMMA OthersAreUntouched ==
    ASSUME NEW c \in Calls, NEW p \in Providers, NEW S \in SUBSET Symbols, TypeOK,
           Refuse(c) \/ Start(c, p, S) \/ Work(c) \/ LoseConnection(c) \/ Die(c),
           NEW d \in Calls, d # c
    PROVE  /\ pc'[d] = pc[d] /\ job'[d] = job[d] /\ attempt'[d] = attempt[d]
           /\ outcomes'[d] = outcomes[d] /\ requests'[d] = requests[d]
<1>1. CASE Refuse(c) \/ Start(c, p, S) \/ LoseConnection(c) \/ Die(c)
  BY <1>1 DEF TypeOK, Refuse, Start, LoseConnection, Die, Leave, Goto, process
<1>2. CASE TryLock(c) \/ Unlock(c)
  BY <1>2 DEF TypeOK, TryLock, Unlock, Leave, Goto
<1>3. CASE CreateRun(c) \/ OpenSource(c)
  BY <1>3 DEF TypeOK, CreateRun, OpenSource, Raise, Leave, Goto
<1>4. CASE CompleteRun(c)
  BY <1>4 DEF TypeOK, CompleteRun, Raise, Leave, Goto
<1>5. CASE NextSymbol(c)
  BY <1>5 DEF TypeOK, NextSymbol, Goto
<1>6. CASE Attempt(c)
  <2>1. PICK s \in Symbols :
           /\ UNCHANGED job
           /\ requests' = [requests EXCEPT ![c][s] = @ + 1]
           /\ \/ outcomes' = outcomes
              \/ outcomes' = [outcomes EXCEPT ![c] = @ \cup {<<s, TRUE>>}]
    BY <1>6 DEF Attempt
  <2>2. /\ \/ attempt' = attempt
           \/ attempt' = [attempt EXCEPT ![c] = @ + 1]
        /\ \/ pc' = pc
           \/ pc' = [pc EXCEPT ![c] = "save_failed"]
           \/ pc' = [pc EXCEPT ![c] = "next_symbol"]
    BY <1>6 DEF Attempt, RetryOrGiveUp, Goto
  <2> QED
    BY <2>1, <2>2 DEF TypeOK
<1>7. CASE SaveFailed(c)
  BY <1>7 DEF TypeOK, SaveFailed, Raise, Leave, Goto
<1> QED
  BY <1>1, <1>2, <1>3, <1>4, <1>5, <1>6, <1>7 DEF Work

\* Steps keep locks with connections.
LEMMA LocksArePreserved ==
    ASSUME NEW c \in Calls, NEW p \in Providers, NEW S \in SUBSET Symbols,
           RunsAreOrderly,
           Refuse(c) \/ Start(c, p, S) \/ Work(c) \/ LoseConnection(c) \/ Die(c)
    PROVE  LocksFollowConnections'
<1>1. TypeOK /\ LocksFollowConnections
  BY DEF RunsAreOrderly
<1>2. CASE Refuse(c)
  BY <1>1, <1>2 DEF LocksFollowConnections, TypeOK, Refuse, Leave, Goto, lock
<1>3. CASE Start(c, p, S)
  BY <1>1, <1>3 DEF LocksFollowConnections, TypeOK, Start, Goto, lock, Job
<1>4. CASE TryLock(c)
  <2>1. CASE UNCHANGED lock /\ pc'[c] = "ended"
    BY <1>1, <1>4, <2>1
    DEF LocksFollowConnections, TypeOK, TryLock, Leave, Goto, lock
  <2>2. CASE /\ holder[job[c].provider] = Nobody
             /\ holder' = [holder EXCEPT ![job[c].provider] = c]
             /\ connected' = [connected EXCEPT ![c] = TRUE]
             /\ pc' = [pc EXCEPT ![c] = "create_run"]
    <3>1. job[c] \in Job /\ job' = job
      BY <1>1, <1>4 DEF LocksFollowConnections, TryLock
    <3>2. job[c].provider \in Providers
      BY <3>1 DEF Job
    <3>3. ASSUME NEW d \in Calls, d # c, connected[d]
          PROVE  job[d].provider # job[c].provider
      BY <1>1, <2>2, <3>3, NobodyIsNoCall DEF LocksFollowConnections
    <3> QED
      BY <1>1, <2>2, <3>1, <3>2, <3>3 DEF LocksFollowConnections, TypeOK
  <2> QED
    BY <1>1, <1>4, <2>1, <2>2 DEF TypeOK, TryLock, LockIsFree, Leave, Goto
<1>5. CASE CreateRun(c) \/ OpenSource(c) \/ NextSymbol(c) \/ Attempt(c)
           \/ SaveFailed(c) \/ CompleteRun(c)
  <2>1. /\ UNCHANGED lock /\ UNCHANGED job
        /\ pc[c] \notin {"ready", "try_lock", "ended"}
        /\ pc'[c] \notin {"ready", "try_lock", "ended"}
    <3>1. CASE CreateRun(c) \/ OpenSource(c)
      BY <1>1, <3>1 DEF TypeOK, CreateRun, OpenSource, Raise, Leave, Goto
    <3>2. CASE NextSymbol(c)
      BY <1>1, <3>2 DEF TypeOK, NextSymbol, Goto
    <3>3. CASE Attempt(c)
      BY <1>1, <3>3 DEF TypeOK, Attempt, RetryOrGiveUp, Goto
    <3>4. CASE SaveFailed(c) \/ CompleteRun(c)
      BY <1>1, <3>4 DEF TypeOK, SaveFailed, CompleteRun, Raise, Leave, Goto
    <3> QED
      BY <1>5, <3>1, <3>2, <3>3, <3>4
  <2>2. \A d \in Calls : d # c => pc'[d] = pc[d]
    BY <1>1, <1>5, OthersAreUntouched DEF Work
  <2> QED
    BY <1>1, <2>1, <2>2 DEF LocksFollowConnections, lock
<1>6. CASE Unlock(c) \/ LoseConnection(c) \/ Die(c)
  <2>1. /\ Release(c) /\ job' = job
        /\ pc' = pc \/ pc' = [pc EXCEPT ![c] = "ended"]
    BY <1>6 DEF Unlock, LoseConnection, Die, Leave, Goto, process
  <2>2. ASSUME NEW d \in Calls, connected'[d]
        PROVE  d # c /\ connected[d] /\ job[d].provider \in Providers
    BY <1>1, <2>1, <2>2 DEF LocksFollowConnections, TypeOK, Release, Job
  <2>3. ASSUME NEW d \in Calls, connected'[d]
        PROVE  holder'[job[d].provider] = d
    BY <1>1, <2>1, <2>2, <2>3 DEF LocksFollowConnections, TypeOK, Release
  <2> QED
    BY <1>1, <2>1, <2>2, <2>3 DEF LocksFollowConnections, TypeOK
<1> QED
  BY <1>2, <1>3, <1>4, <1>5, <1>6 DEF Work

\* Steps that refresh symbols have a run.
LEMMA RecordsArePreserved ==
    ASSUME NEW c \in Calls, NEW p \in Providers, NEW S \in SUBSET Symbols,
           StepIsFounded(c),
           Refuse(c) \/ Start(c, p, S) \/ Work(c) \/ LoseConnection(c) \/ Die(c)
    PROVE  WorkIsRecorded'
<1>1. TypeOK /\ WorkIsRecorded
  BY DEF StepIsFounded
<1>2. CASE Refuse(c) \/ Start(c, p, S) \/ TryLock(c) \/ Die(c)
  <2>1. /\ runs' = runs
        /\ \/ pc' = [pc EXCEPT ![c] = "ended"]
           \/ pc' = [pc EXCEPT ![c] = "try_lock"]
           \/ pc' = [pc EXCEPT ![c] = "create_run"]
    BY <1>2 DEF Refuse, Start, TryLock, Die, Leave, Goto, tables
  <2> QED
    BY <1>1, <2>1 DEF WorkIsRecorded, TypeOK
<1>3. CASE CreateRun(c)
  BY <1>1, <1>3 DEF WorkIsRecorded, TypeOK, CreateRun, Raise, Leave, Goto, NoRun
<1>4. CASE OpenSource(c) \/ NextSymbol(c) \/ Attempt(c) \/ SaveFailed(c)
  <2>1. /\ runs' = runs
        /\ pc[c] \in {"open_source", "next_symbol", "attempt", "save_failed"}
        /\ \A d \in Calls : d # c => pc'[d] = pc[d]
    <3>1. \A d \in Calls : d # c => pc'[d] = pc[d]
      BY <1>1, <1>4, OthersAreUntouched DEF Work
    <3> QED
      BY <1>4, <3>1 DEF OpenSource, NextSymbol, Attempt, SaveFailed, tables
  <2> QED
    BY <1>1, <2>1 DEF WorkIsRecorded, TypeOK
<1>5. CASE CompleteRun(c)
  BY <1>1, <1>5 DEF WorkIsRecorded, TypeOK, CompleteRun, Raise, Leave, Goto
<1>6. CASE Unlock(c)
  BY <1>1, <1>6 DEF WorkIsRecorded, TypeOK, Unlock, Leave, Goto, tables
<1>7. CASE LoseConnection(c)
  BY <1>1, <1>7 DEF WorkIsRecorded, LoseConnection, tables, process
<1> QED
  BY <1>2, <1>3, <1>4, <1>5, <1>6, <1>7 DEF Work

\* A step of a call counts the attempts it makes.
LEMMA CountsOfCallArePreserved ==
    ASSUME NEW c \in Calls, NEW p \in Providers, NEW S \in SUBSET Symbols,
           CallIsCounted(c),
           Refuse(c) \/ Start(c, p, S) \/ Work(c) \/ LoseConnection(c) \/ Die(c)
    PROVE  CountsFit(c)'
<1>1. TypeOK /\ CountsFit(c)
  BY DEF CallIsCounted
<1>2. CountsFit(c)'
  <2>1. CASE Refuse(c) \/ Start(c, p, S) \/ TryLock(c) \/ CreateRun(c)
             \/ CompleteRun(c) \/ Unlock(c) \/ Die(c)
    <3>1. /\ requests' = requests
          /\ \/ pc[c] = "ready" /\ pc'[c] = "try_lock"
             \/ pc[c] = "try_lock" /\ pc'[c] = "create_run"
             \/ pc[c] = "create_run" /\ pc'[c] = "open_source"
             \/ pc'[c] \in {"ended", "unlock", "complete_run"}
      BY <1>1, <2>1
      DEF TypeOK, Refuse, Start, TryLock, CreateRun, CompleteRun, Unlock, Die,
          Raise, Leave, Goto
    <3> QED
      BY <1>1, <3>1 DEF CountsFit
  <2>2. CASE OpenSource(c)
    BY <1>1, <2>2 DEF CountsFit, TypeOK, OpenSource, Raise, Leave, Goto
  <2>3. CASE NextSymbol(c)
    <3>1. /\ requests' = requests /\ UNCHANGED <<job, outcomes>>
          /\ pc[c] = "next_symbol"
          /\ \/ pc'[c] \in {"complete_run", "save_failed"}
             \/ pc'[c] = "attempt" /\ attempt'[c] = 1
      BY <1>1, <2>3 DEF TypeOK, NextSymbol, Goto
    <3>2. Remaining(c)' = Remaining(c)
      BY <3>1 DEF Remaining, Settled
    <3>3. \A s \in Symbols : s \in Remaining(c) => requests[c][s] = 0
      BY <1>1, <3>1 DEF CountsFit
    <3> QED
      BY <3>1, <3>2, <3>3 DEF CountsFit, IsNext
  <2>4. CASE Attempt(c)
    <3> DEFINE failing == \/ pc'[c] = "attempt" /\ attempt'[c] = attempt[c] + 1
                          \/ pc'[c] = "save_failed"
    <3>0. RetryOrGiveUp(c) /\ pc[c] = "attempt" => failing
      BY <1>1 DEF TypeOK, RetryOrGiveUp, Goto
    <3>1. PICK s \in Symbols :
             /\ IsNext(c, s)
             /\ requests' = [requests EXCEPT ![c][s] = @ + 1]
             /\ UNCHANGED job
             /\ \/ failing /\ UNCHANGED outcomes
                \/ /\ pc'[c] = "next_symbol"
                   /\ outcomes' = [outcomes EXCEPT ![c] = @ \cup {<<s, TRUE>>}]
      BY <1>1, <2>4, <3>0 DEF TypeOK, Attempt, Goto
    <3>2. /\ pc[c] = "attempt"
          /\ attempt[c] \in Nat /\ attempt[c] >= 1
          /\ requests[c][s] = attempt[c] - 1
      BY <1>1, <2>4, <3>1, LimitsArePositive DEF TypeOK, Attempt, CountsFit
    <3>3. \A x \in Symbols : x \in Remaining(c) /\ x # s => requests'[c][x] = 0
      BY <1>1, <3>1, <3>2, NextIsUnique DEF TypeOK, CountsFit
    <3>4. requests'[c][s] = attempt[c]
      BY <1>1, <3>1, <3>2 DEF TypeOK
    <3>5. CASE UNCHANGED outcomes /\ pc'[c] \in {"attempt", "save_failed"}
      <4>1. Remaining(c)' = Remaining(c)
        BY <3>1, <3>5 DEF Remaining, Settled
      <4>2. \A x \in Symbols : IsNext(c, x)' <=> IsNext(c, x)
        BY <4>1 DEF IsNext
      <4>3. \A x \in Symbols : IsNext(c, x) <=> x = s
        BY <3>1, NextIsUnique
      <4>4. CASE pc'[c] = "attempt"
        <5>1. attempt'[c] = attempt[c] + 1
          BY <3>1, <4>4
        <5> QED
          BY <3>2, <3>3, <3>4, <4>1, <4>2, <4>3, <4>4, <5>1 DEF CountsFit
      <4>5. CASE pc'[c] = "save_failed"
        BY <3>3, <4>1, <4>2, <4>3, <4>5 DEF CountsFit
      <4> QED
        BY <3>5, <4>4, <4>5
    <3>6. CASE /\ pc'[c] = "next_symbol"
               /\ outcomes' = [outcomes EXCEPT ![c] = @ \cup {<<s, TRUE>>}]
      <4>1. outcomes'[c] = outcomes[c] \cup {<<s, TRUE>>}
        BY <1>1, <3>6 DEF TypeOK
      <4>2. s \in Settled(c)' /\ Settled(c) \subseteq Settled(c)'
        BY <4>1 DEF Settled
      <4>3. Remaining(c)' \subseteq Remaining(c) \ {s}
        BY <3>1, <4>2 DEF Remaining
      <4> QED
        BY <3>3, <3>6, <4>3 DEF CountsFit
    <3> QED
      BY <3>1, <3>5, <3>6
  <2>5. CASE SaveFailed(c)
    <3>1. PICK s \in Symbols :
             /\ IsNext(c, s)
             /\ pc[c] = "save_failed" /\ UNCHANGED <<requests, job>>
             /\ \/ pc'[c] = "unlock"
                \/ /\ pc'[c] = "next_symbol"
                   /\ outcomes' = [outcomes EXCEPT ![c] = @ \cup {<<s, FALSE>>}]
      BY <1>1, <2>5 DEF TypeOK, SaveFailed, Raise, Leave, Goto
    <3>2. \A x \in Symbols : x \in Remaining(c) /\ x # s => requests[c][x] = 0
      BY <1>1, <3>1, NextIsUnique DEF CountsFit
    <3>3. CASE pc'[c] = "unlock"
      BY <3>3 DEF CountsFit
    <3>4. CASE /\ pc'[c] = "next_symbol"
               /\ outcomes' = [outcomes EXCEPT ![c] = @ \cup {<<s, FALSE>>}]
      <4>1. outcomes'[c] = outcomes[c] \cup {<<s, FALSE>>}
        BY <1>1, <3>4 DEF TypeOK
      <4>2. s \in Settled(c)' /\ Settled(c) \subseteq Settled(c)'
        BY <4>1 DEF Settled
      <4>3. Remaining(c)' \subseteq Remaining(c) \ {s}
        BY <3>1, <4>2 DEF Remaining
      <4> QED
        BY <3>1, <3>2, <3>4, <4>3 DEF CountsFit
    <3> QED
      BY <3>1, <3>3, <3>4
  <2>6. CASE LoseConnection(c)
    BY <1>1, <2>6 DEF CountsFit, IsNext, Remaining, Settled, LoseConnection, process
  <2> QED
    BY <2>1, <2>2, <2>3, <2>4, <2>5, <2>6 DEF Work
<1> QED
  BY <1>2

\* Steps keep the attempts counted.
LEMMA CountsArePreserved ==
    ASSUME NEW c \in Calls, NEW p \in Providers, NEW S \in SUBSET Symbols,
           RunsAreOrderly,
           Refuse(c) \/ Start(c, p, S) \/ Work(c) \/ LoseConnection(c) \/ Die(c)
    PROVE  RequestsAreCounted'
<1>1. ASSUME NEW d \in Calls, d # c PROVE CountsFit(d)'
  BY <1>1, OthersAreUntouched
  DEF RunsAreOrderly, RequestsAreCounted, CountsFit, IsNext, Remaining, Settled
<1>2. CountsFit(c)'
  BY CountsOfCallArePreserved DEF RunsAreOrderly, RequestsAreCounted, CallIsCounted
<1> QED
  BY <1>1, <1>2 DEF RequestsAreCounted

\* Steps keep items and stored data in agreement.
LEMMA ItemsStayTrue ==
    ASSUME NEW c \in Calls, NEW p \in Providers, NEW S \in SUBSET Symbols,
           RunsAreOrderly,
           Refuse(c) \/ Start(c, p, S) \/ Work(c) \/ LoseConnection(c) \/ Die(c)
    PROVE  ItemsTellTheTruth'
<1>1. TypeOK /\ ItemsTellTheTruth
  BY DEF RunsAreOrderly
<1>2. CASE UNCHANGED <<items, refreshed>>
  BY <1>1, <1>2 DEF ItemsTellTheTruth
<1>3. ASSUME NEW s \in Symbols, ~HasItem(c, s),
             NEW status \in {"succeeded", "failed"},
             items' = items \cup {ItemOf(c, s, status)},
             refreshed' = IF status = "succeeded" THEN refreshed \cup {<<c, s>>}
                          ELSE refreshed
      PROVE  ItemsTellTheTruth'
  <2>1. \A i \in items : i.call # c \/ i.symbol # s
    BY <1>3 DEF HasItem
  <2>2. \A i, j \in items' : i.call = j.call /\ i.symbol = j.symbol => i = j
    BY <1>1, <1>3, <2>1 DEF ItemsTellTheTruth, ItemOf
  <2>3. ASSUME NEW d \in Calls, NEW x \in Symbols, <<d, x>> # <<c, s>>
        PROVE  <<d, x>> \in refreshed' <=> ItemOf(d, x, "succeeded") \in items'
    <3>1. ItemOf(d, x, "succeeded") # ItemOf(c, s, status)
      BY <2>3 DEF ItemOf
    <3>2. <<d, x>> \in refreshed' <=> <<d, x>> \in refreshed
      BY <1>3, <2>3
    <3> QED
      BY <1>1, <1>3, <3>1, <3>2 DEF ItemsTellTheTruth
  <2>4. <<c, s>> \notin refreshed
    BY <1>1, <2>1 DEF ItemsTellTheTruth, ItemOf
  <2>5. <<c, s>> \in refreshed' <=> ItemOf(c, s, "succeeded") \in items'
    <3>1. CASE status = "succeeded"
      BY <1>3, <3>1
    <3>2. CASE status = "failed"
      <4>1. ItemOf(c, s, "succeeded") # ItemOf(c, s, status)
        BY <3>2 DEF ItemOf
      <4>2. ItemOf(c, s, "succeeded") \notin items
        BY <2>1 DEF ItemOf
      <4> QED
        BY <1>3, <2>4, <3>2, <4>1, <4>2
    <3> QED
      BY <1>3, <3>1, <3>2
  <2>6. \A d \in Calls, x \in Symbols :
           <<d, x>> \in refreshed' <=> ItemOf(d, x, "succeeded") \in items'
    BY <2>3, <2>5
  <2>7. \A d \in Calls, x \in Symbols : ItemOf(d, x, "succeeded")' = ItemOf(d, x, "succeeded")
    BY DEF ItemOf
  <2> QED
    BY <2>2, <2>6, <2>7 DEF ItemsTellTheTruth
<1>4. CASE Attempt(c)
  BY <1>2, <1>3, <1>4 DEF Attempt
<1>5. CASE SaveFailed(c)
  <2>1. PICK s \in Symbols :
           /\ refreshed' = refreshed
           /\ \/ items' = items
              \/ ~HasItem(c, s) /\ items' = items \cup {ItemOf(c, s, "failed")}
    BY <1>5 DEF SaveFailed
  <2> QED
    BY <1>2, <1>3, <2>1
<1>6. CASE Refuse(c) \/ Start(c, p, S) \/ LoseConnection(c) \/ Die(c)
  BY <1>2, <1>6 DEF Refuse, Start, LoseConnection, Die, tables
<1>7. CASE TryLock(c) \/ CreateRun(c) \/ OpenSource(c) \/ NextSymbol(c)
           \/ CompleteRun(c) \/ Unlock(c)
  BY <1>2, <1>7 DEF TryLock, CreateRun, OpenSource, NextSymbol, CompleteRun, Unlock, tables
<1> QED
  BY <1>4, <1>5, <1>6, <1>7 DEF Work

-----------------------------------------------------------------------------

\* Every step keeps the invariant.
LEMMA RunsStayOrderly == RunsAreOrderly /\ [Next]_vars => RunsAreOrderly'
<1>1. SUFFICES ASSUME RunsAreOrderly, [Next]_vars PROVE RunsAreOrderly'
  OBVIOUS
<1>2. CASE Next
  <2>1. PICK c \in Calls :
           \/ Refuse(c) \/ Work(c) \/ LoseConnection(c) \/ Die(c)
           \/ \E p \in Providers, S \in SUBSET Symbols : Start(c, p, S)
    BY <1>2 DEF Next
  <2>2. PICK p \in Providers, S \in SUBSET Symbols :
           Refuse(c) \/ Start(c, p, S) \/ Work(c) \/ LoseConnection(c) \/ Die(c)
    BY <2>1, ProvidersExist
  <2>3. StepIsFounded(c)
    BY <1>1 DEF RunsAreOrderly, RequestsAreCounted, StepIsFounded
  <2>4. TypeOK' /\ LocksFollowConnections' /\ WorkIsRecorded'
    BY <1>1, <2>2, <2>3, TypesArePreserved, LocksArePreserved, RecordsArePreserved
  <2>5. RequestsAreCounted' /\ ItemsTellTheTruth'
    BY <1>1, <2>2, CountsArePreserved, ItemsStayTrue
  <2> QED
    BY <2>4, <2>5 DEF RunsAreOrderly
<1>3. CASE UNCHANGED vars
  <2>1. /\ TypeOK' /\ LocksFollowConnections' /\ WorkIsRecorded'
        /\ ItemsTellTheTruth'
    BY <1>1, <1>3
    DEF RunsAreOrderly, vars, tables, lock, process, TypeOK, LocksFollowConnections,
        WorkIsRecorded, ItemsTellTheTruth
  <2>2. RequestsAreCounted'
    BY <1>1, <1>3
    DEF RunsAreOrderly, vars, process, RequestsAreCounted, CountsFit, IsNext,
        Remaining, Settled
  <2> QED
    BY <2>1, <2>2 DEF RunsAreOrderly
<1> QED
  BY <1>1, <1>2, <1>3

\* TypeOK and the parts of RunsAreOrderly hold of every behavior.
THEOREM RunOrder == Spec => []RunsAreOrderly
  BY InitIsOrderly, RunsStayOrderly, PTL DEF Spec

\* No symbol is attempted more often than MaxAttempts allows.
THEOREM IngestionTypes == Spec => []TypeOK
<1>1. RunsAreOrderly => TypeOK
  BY DEF RunsAreOrderly
<1> QED
  BY <1>1, RunOrder, PTL

\* Two runs of a provider overlap only if one of them has lost its connection.
THEOREM ProviderExclusion == Spec => []OneRunPerProvider
<1>1. RunsAreOrderly => OneRunPerProvider
  BY DEF RunsAreOrderly, LocksFollowConnections, OneRunPerProvider
<1> QED
  BY <1>1, RunOrder, PTL

\* Whatever commit answers are lost, items and stored data agree.
THEOREM TruthOfItems == Spec => []ItemsTellTheTruth
<1>1. RunsAreOrderly => ItemsTellTheTruth
  BY DEF RunsAreOrderly
<1> QED
  BY <1>1, RunOrder, PTL

-----------------------------------------------------------------------------
(* Reports and the circuit.  A second invariant, about one call at a time,  *)
(* follows outcomes and failures through the loop over the symbols.         *)

Loop == {"next_symbol", "attempt", "save_failed", "complete_run"}

\* The symbols done since the last success, all of which failed.
Streak(c) ==
    {x \in Settled(c) : \A y \in Settled(c) : y >= x => <<y, TRUE>> \notin outcomes[c]}

\* Outcomes agree with items, but for the item of a commit whose answer was
\* lost: its symbol is the current one and can only end the run.
OutcomesFit(c) ==
    /\ Settled(c) \subseteq job[c].symbols
    /\ \A x \in Settled(c), y \in Remaining(c) : x < y
    /\ \A s \in Symbols :
          /\ <<s, TRUE>> \in outcomes[c] => ItemOf(c, s, "succeeded") \in items
          /\ <<s, FALSE>> \in outcomes[c] => ItemOf(c, s, "failed") \in items
          /\ ItemOf(c, s, "failed") \in items => <<s, FALSE>> \in outcomes[c]
          /\ ItemOf(c, s, "succeeded") \in items =>
                \/ <<s, TRUE>> \in outcomes[c]
                \/ pc[c] \in {"attempt", "save_failed"} /\ IsNext(c, s)

\* What a call has recorded, by how far it has got.
ProgressFits(c) ==
    /\ pc[c] \in {"ready", "try_lock", "create_run"} => runs[c] = NoRun
    /\ pc[c] \in {"ready", "try_lock", "create_run", "open_source"} =>
          /\ outcomes[c] = {} /\ failures[c] = 0
          /\ \A i \in items : i.call # c
    /\ pc[c] \in {"open_source"} \cup Loop =>
          /\ runs[c].status = "running"
          /\ runs[c].requested = Cardinality(job[c].symbols)
    /\ pc[c] \notin {"unlock", "ended"} => exitCode[c] = "none"
    /\ pc[c] \in Loop => OutcomesFit(c)
    /\ pc[c] = "complete_run" => Remaining(c) = {}

\* failures counts the streak, up to the threshold; the current symbol counts
\* once its attempts are used up.
FailuresFit(c) ==
    /\ pc[c] = "next_symbol" =>
          IF CircuitIsOpen(c) THEN Cardinality(Streak(c)) >= FailureThreshold
          ELSE Cardinality(Streak(c)) = failures[c]
    /\ pc[c] = "attempt" =>
          ~CircuitIsOpen(c) /\ Cardinality(Streak(c)) = failures[c]
    /\ pc[c] = "save_failed" => \A s \in Symbols : IsNext(c, s) =>
          IF requests[c][s] = 0
          THEN CircuitIsOpen(c) /\ Cardinality(Streak(c)) >= FailureThreshold
          ELSE Cardinality(Streak(c)) = failures[c] - 1 /\ failures[c] <= FailureThreshold

\* ReportsAgree and CircuitProtectsProvider, of one call.
ReportFits(c) ==
    /\ runs[c] # NoRun /\ runs[c].status # "running" =>
          /\ runs[c].succeeded = Cardinality(SymbolsWith(c, "succeeded"))
          /\ runs[c].failed = Cardinality(SymbolsWith(c, "failed"))
          /\ runs[c].requested = runs[c].succeeded + runs[c].failed
    /\ exitCode[c] = "success" => runs[c].status = "succeeded"
    /\ exitCode[c] = "partial_failure" => runs[c].status = "partial"
    /\ exitCode[c] = "run_conflict" => runs[c] = NoRun

CircuitFits(c) ==
    \A s \in job[c].symbols :
        /\ CircuitOpensBefore(c, s) => requests[c][s] = 0
        /\ s \in SymbolsWith(c, "failed") /\ requests[c][s] = 0 => CircuitOpensBefore(c, s)

CallIsOrderly(c) ==
    ProgressFits(c) /\ FailuresFit(c) /\ ReportFits(c) /\ CircuitFits(c)

\* The second inductive invariant, given the first.
ReportsAreOrderly == \A c \in Calls : CallIsOrderly(c)

ItemsOf(c) == {i \in items : i.call = c}

\* A set of natural numbers has a least element.
LEMMA Least ==
    ASSUME NEW S, S \subseteq Nat, S # {}
    PROVE  \E m \in S : \A x \in S : m <= x
<1>1. PICK m \in S : \A x \in S : <<x, m>> \notin OpToRel(<, Nat)
  BY WFMin, NatLessThanWellFounded
<1>2. \A x \in S : ~(x < m)
  BY <1>1 DEF OpToRel
<1> QED
  BY <1>2

\* A finite one has a greatest: the one with the fewest above it.
LEMMA Greatest ==
    ASSUME NEW S, S \subseteq Nat, S # {}, IsFiniteSet(S)
    PROVE  \E m \in S : \A x \in S : x <= m
<1> DEFINE Above(x) == {y \in S : y > x}
           Counts == {Cardinality(Above(x)) : x \in S}
<1>1. \A x \in S : IsFiniteSet(Above(x)) /\ Cardinality(Above(x)) \in Nat
  BY FS_Subset, FS_CardinalityType
<1>2. Counts \subseteq Nat /\ Counts # {}
  BY <1>1
<1>3. PICK n \in Counts : \A k \in Counts : n <= k
  <2> HIDE DEF Counts
  <2> QED
    BY <1>2, Least
<1>4. PICK m \in S : n = Cardinality(Above(m))
  BY <1>3
<1>5. ASSUME NEW x \in S, x > m PROVE FALSE
  <2>1. m \in Nat /\ x \in Nat /\ \A y \in S : y \in Nat
    OBVIOUS
  <2>2. \A y \in S : y > x => y > m
    BY <1>5, <2>1
  <2>3. Above(x) \subseteq Above(m) /\ x \in Above(m) /\ x \notin Above(x)
    <3>1. ~(x > x)
      BY <2>1
    <3>2. Above(x) \subseteq Above(m)
      BY <2>2
    <3> QED
      BY <1>5, <3>1, <3>2
  <2>4. Above(x) # Above(m)
    BY <2>3
  <2>5. n <= Cardinality(Above(x))
    BY <1>3
  <2> HIDE DEF Above
  <2>6. Cardinality(Above(x)) <= Cardinality(Above(m)) /\ Cardinality(Above(x)) # Cardinality(Above(m))
    BY <1>1, <2>3, <2>4, FS_Subset
  <2>7. Cardinality(Above(x)) \in Nat /\ Cardinality(Above(m)) \in Nat
    BY <1>1
  <2> QED
    BY <1>4, <2>5, <2>6, <2>7
<1> QED
  BY <1>5

\* The last k elements of a set B of natural numbers, or all if there are fewer.
LastOf(B, k) == {x \in B : Cardinality({y \in B : y > x}) < k}

\* They are at most k.
LEMMA LastAreFew ==
    ASSUME NEW B, B \subseteq Nat, IsFiniteSet(B), NEW k \in Nat \ {0}
    PROVE  Cardinality(LastOf(B, k)) <= k
<1> DEFINE J == LastOf(B, k)
<1>1. J \subseteq B /\ IsFiniteSet(J) /\ Cardinality(J) \in Nat
  BY FS_Subset, FS_CardinalityType DEF LastOf
<1>2. CASE J = {}
  BY <1>2, FS_EmptySet
<1>3. CASE J # {}
  <2> HIDE DEF J
  <2>1. PICK m \in J : \A x \in J : m <= x
    BY <1>1, <1>3, Least
  <2> DEFINE A == {y \in B : y > m}
  <2>2. Cardinality(A) < k
    BY <2>1 DEF J, LastOf
  <2>3. IsFiniteSet(A) /\ Cardinality(A) \in Nat
    BY FS_Subset, FS_CardinalityType
  <2>4. J \subseteq A \cup {m}
    <3>1. \A x \in J : x \in Nat
      BY <1>1
    <3>2. \A x \in J : x = m \/ x > m
      BY <2>1, <3>1
    <3> QED
      BY <1>1, <3>2
  <2> HIDE DEF A
  <2>5. Cardinality(J) <= Cardinality(A \cup {m})
    BY <2>3, <2>4, FS_AddElement, FS_Subset
  <2>6. Cardinality(A \cup {m}) <= Cardinality(A) + 1
    <3>1. \/ Cardinality(A \cup {m}) = Cardinality(A)
          \/ Cardinality(A \cup {m}) = Cardinality(A) + 1
      BY <2>3, FS_AddElement
    <3> QED
      BY <2>3, <3>1
  <2>7. Cardinality(A \cup {m}) \in Nat
    BY <2>3, FS_AddElement, FS_CardinalityType
  <2> QED
    BY <1>1, <2>2, <2>3, <2>5, <2>6, <2>7 DEF J
<1> QED
  BY <1>2, <1>3

\* They are k if the set has that many, and then they are in every part of the
\* set that is closed upwards and has that many.
LEMMA LastAreEnough ==
    ASSUME NEW B, B \subseteq Nat, IsFiniteSet(B), NEW k \in Nat \ {0},
           NEW S \in SUBSET B, \A x \in S, y \in B : y >= x => y \in S,
           Cardinality(S) >= k
    PROVE  Cardinality(LastOf(B, k)) = k /\ LastOf(B, k) \subseteq S
<1> DEFINE J == LastOf(B, k)
           Above(x) == {y \in B : y > x}
<1>0. \A x \in B : x \in Nat
  OBVIOUS
<1>1. J \subseteq B /\ IsFiniteSet(J) /\ Cardinality(J) \in Nat
  BY FS_Subset, FS_CardinalityType DEF LastOf
<1>2. \A x : IsFiniteSet(Above(x)) /\ Cardinality(Above(x)) \in Nat
  BY FS_Subset, FS_CardinalityType
<1>3. \A x \in B : x \in J <=> Cardinality(Above(x)) < k
  BY DEF LastOf
<1>4. IsFiniteSet(S) /\ Cardinality(S) \in Nat
  BY FS_Subset, FS_CardinalityType
<1> HIDE DEF J
<1>5. ASSUME NEW x \in J, x \notin S PROVE FALSE
  <2>1. \A y \in S : y > x
    BY <1>0, <1>1, <1>5
  <2>2. S \subseteq Above(x)
    BY <2>1
  <2> HIDE DEF Above
  <2>3. Cardinality(S) <= Cardinality(Above(x))
    BY <1>2, <2>2, FS_Subset
  <2> QED
    BY <1>1, <1>2, <1>3, <1>4, <1>5, <2>3
<1>6. Cardinality(J) >= k
  <2>1. CASE J = B
    <3>1. Cardinality(S) <= Cardinality(J)
      BY <2>1, FS_Subset
    <3> QED
      BY <1>1, <1>4, <3>1
  <2>2. CASE J # B
    <3>1. IsFiniteSet(B \ J) /\ B \ J # {} /\ B \ J \subseteq Nat
      BY <1>1, <2>2, FS_Subset
    <3>2. PICK m \in B \ J : \A x \in B \ J : x <= m
      BY <3>1, Greatest
    <3>3. Above(m) \subseteq J
      <4>1. ASSUME NEW y \in B, y > m, y \notin J PROVE FALSE
        <5>1. y <= m /\ y \in Nat /\ m \in Nat
          BY <1>0, <3>2, <4>1
        <5> QED
          BY <4>1, <5>1
      <4> QED
        BY <4>1
    <3> HIDE DEF Above
    <3>4. Cardinality(Above(m)) <= Cardinality(J)
      BY <1>1, <3>3, FS_Subset
    <3> QED
      BY <1>1, <1>2, <1>3, <3>2, <3>4
  <2> QED
    BY <2>1, <2>2
<1>7. Cardinality(J) <= k
  BY LastAreFew DEF J
<1> QED
  BY <1>1, <1>5, <1>6, <1>7 DEF J

\* They are closed upwards.
LEMMA LastAreLast ==
    ASSUME NEW B, B \subseteq Nat, IsFiniteSet(B), NEW k \in Nat \ {0},
           NEW x \in LastOf(B, k), NEW y \in B, y >= x
    PROVE  y \in LastOf(B, k)
<1> DEFINE Above(z) == {u \in B : u > z}
<1>1. \A z : IsFiniteSet(Above(z)) /\ Cardinality(Above(z)) \in Nat
  BY FS_Subset, FS_CardinalityType
<1>2. Cardinality(Above(x)) < k /\ x \in B
  BY DEF LastOf
<1>3. Above(y) \subseteq Above(x)
  <2>1. \A u \in B : u > y => u > x
    <3>1. \A u \in B : u \in Nat
      OBVIOUS
    <3> QED
      BY <1>2, <3>1
  <2> QED
    BY <2>1
<1>4. Cardinality(Above(y)) < k
  <2> HIDE DEF Above
  <2>1. Cardinality(Above(y)) <= Cardinality(Above(x))
    BY <1>1, <1>3, FS_Subset
  <2> QED
    BY <1>1, <1>2, <2>1
<1> QED
  BY <1>4 DEF LastOf

\* Pairing every element with a mark keeps the number of elements.
LEMMA MarksKeepNumber ==
    ASSUME NEW S, IsFiniteSet(S), NEW mark
    PROVE  Cardinality({<<s, mark>> : s \in S}) = Cardinality(S)
<1> DEFINE T == {<<s, mark>> : s \in S}
           f == [s \in S |-> <<s, mark>>]
<1>1. f \in Bijection(S, T)
  <2>1. f \in [S -> T] /\ \A t \in T : \E s \in S : f[s] = t
    OBVIOUS
  <2>2. \A a, b \in S : f[a] = f[b] => a = b
    OBVIOUS
  <2> HIDE DEF f, T
  <2> QED
    BY <2>1, <2>2, Fun_IsBij
<1>2. ExistsBijection(S, T)
  BY <1>1 DEF ExistsBijection
<1> HIDE DEF T
<1>3. Cardinality(T) = Cardinality(S)
  BY <1>2, FS_Bijection
<1> QED
  BY <1>3 DEF T

-----------------------------------------------------------------------------

\* Whether a symbol has an item of a call is seen in the items of that call.
LEMMA ItemsTell ==
    ASSUME NEW d \in Calls, ItemsOf(d)' = ItemsOf(d)
    PROVE  /\ \A s, status : ItemOf(d, s, status) \in items' <=> ItemOf(d, s, status) \in items
           /\ \A status : SymbolsWith(d, status)' = SymbolsWith(d, status)
           /\ (\A i \in items : i.call # d) => \A i \in items' : i.call # d
<1>1. \A s, status : ItemOf(d, s, status).call = d
  BY DEF ItemOf
<1>2. \A s, status : ItemOf(d, s, status) \in items' <=> ItemOf(d, s, status) \in items
  BY <1>1 DEF ItemsOf
<1>3. \A status : SymbolsWith(d, status)' = SymbolsWith(d, status)
  BY <1>2 DEF SymbolsWith, ItemOf
<1>4. (\A i \in items : i.call # d) => \A i \in items' : i.call # d
  BY DEF ItemsOf
<1> QED
  BY <1>2, <1>3, <1>4

\* The circuit depends on the items, the symbols and the requests of a call.
LEMMA CircuitStands ==
    ASSUME NEW d \in Calls, CircuitFits(d), ItemsOf(d)' = ItemsOf(d),
           job'[d] = job[d], requests'[d] = requests[d]
    PROVE  CircuitFits(d)'
<1>1. \A s : JustBefore(d, s)' = JustBefore(d, s)
  BY DEF JustBefore
<1>2. SymbolsWith(d, "failed")' = SymbolsWith(d, "failed")
  BY ItemsTell
<1>3. \A s : CircuitOpensBefore(d, s)' <=> CircuitOpensBefore(d, s)
  BY <1>1, <1>2 DEF CircuitOpensBefore
<1> QED
  BY <1>2, <1>3 DEF CircuitFits

\* A call that a step leaves alone stays in order.
LEMMA UntouchedStayOrderly ==
    ASSUME NEW d \in Calls, CallIsOrderly(d), ItemsOf(d)' = ItemsOf(d),
           runs'[d] = runs[d], pc'[d] = pc[d], job'[d] = job[d], failures'[d] = failures[d],
           outcomes'[d] = outcomes[d], requests'[d] = requests[d], exitCode'[d] = exitCode[d]
    PROVE  CallIsOrderly(d)'
<1>1. CircuitFits(d)'
  BY CircuitStands DEF CallIsOrderly
<1>2. ReportFits(d)'
  BY ItemsTell DEF CallIsOrderly, ReportFits
<1>3. /\ Settled(d)' = Settled(d) /\ Remaining(d)' = Remaining(d) /\ Streak(d)' = Streak(d)
      /\ CircuitIsOpen(d)' <=> CircuitIsOpen(d)
      /\ \A s : IsNext(d, s)' <=> IsNext(d, s)
  BY DEF Settled, Remaining, Streak, CircuitIsOpen, IsNext
<1>4. FailuresFit(d)'
  BY <1>3 DEF CallIsOrderly, FailuresFit
<1>5. OutcomesFit(d) => OutcomesFit(d)'
  <2>1. \A s : /\ ItemOf(d, s, "succeeded")' \in items' <=> ItemOf(d, s, "succeeded") \in items
               /\ ItemOf(d, s, "failed")' \in items' <=> ItemOf(d, s, "failed") \in items
    BY ItemsTell DEF ItemOf
  <2> QED
    BY <1>3, <2>1 DEF OutcomesFit
<1>6. ProgressFits(d)'
  BY <1>3, <1>5, ItemsTell DEF CallIsOrderly, ProgressFits, Loop
<1> QED
  BY <1>1, <1>2, <1>4, <1>6 DEF CallIsOrderly

\* A call that stops refreshing stays in order if its rows stand and its exit
\* code reports nothing new.
LEMMA LeaversStayOrderly ==
    ASSUME NEW d \in Calls, CallIsOrderly(d), pc'[d] \in {"unlock", "ended"},
           ItemsOf(d)' = ItemsOf(d), runs'[d] = runs[d], job'[d] = job[d],
           requests'[d] = requests[d],
           exitCode'[d] \in {"all_failed", "configuration_error", "none", exitCode[d]}
    PROVE  CallIsOrderly(d)'
<1>1. CircuitFits(d)'
  BY CircuitStands DEF CallIsOrderly
<1>2. ReportFits(d)'
  BY ItemsTell DEF CallIsOrderly, ReportFits
<1>3. ProgressFits(d)' /\ FailuresFit(d)'
  BY DEF ProgressFits, FailuresFit, Loop
<1> QED
  BY <1>1, <1>2, <1>3 DEF CallIsOrderly

\* A step of a call leaves the rows and the progress of every other call alone.
LEMMA OthersStayOrderly ==
    ASSUME NEW c \in Calls, NEW p \in Providers, NEW S \in SUBSET Symbols, TypeOK,
           Refuse(c) \/ Start(c, p, S) \/ Work(c) \/ LoseConnection(c) \/ Die(c),
           NEW d \in Calls, d # c, CallIsOrderly(d)
    PROVE  CallIsOrderly(d)'
<1>1. /\ pc'[d] = pc[d] /\ job'[d] = job[d]
      /\ outcomes'[d] = outcomes[d] /\ requests'[d] = requests[d]
  BY OthersAreUntouched
<1>2. /\ items' = items \/ \E s, status : items' = items \cup {ItemOf(c, s, status)}
      /\ runs'[d] = runs[d]
      /\ failures'[d] = failures[d]
      /\ exitCode'[d] = exitCode[d]
  <2>1. CASE Refuse(c) \/ Start(c, p, S) \/ LoseConnection(c) \/ Die(c)
    BY <2>1 DEF TypeOK, Refuse, Start, LoseConnection, Die, Leave, tables, process
  <2>2. CASE TryLock(c) \/ Unlock(c) \/ OpenSource(c) \/ NextSymbol(c)
    BY <2>2 DEF TypeOK, TryLock, Unlock, OpenSource, NextSymbol, Raise, Leave, tables
  <2>3. CASE CreateRun(c)
    BY <2>3 DEF TypeOK, CreateRun, Raise, Leave
  <2>4. CASE CompleteRun(c)
    BY <2>4 DEF TypeOK, CompleteRun, Raise, Leave
  <2>5. CASE Attempt(c)
    <3>1. PICK s \in Symbols :
             /\ items' = items \/ items' = items \cup {ItemOf(c, s, "succeeded")}
             /\ \/ failures' = [failures EXCEPT ![c] = 0]
                \/ RetryOrGiveUp(c)
             /\ runs' = runs /\ exitCode' = exitCode
      BY <2>5 DEF Attempt
    <3>2. failures'[d] = failures[d]
      BY <3>1 DEF TypeOK, RetryOrGiveUp
    <3> QED
      BY <3>1, <3>2
  <2>6. CASE SaveFailed(c)
    <3>1. PICK s \in Symbols :
             items' = items \/ items' = items \cup {ItemOf(c, s, "failed")}
      BY <2>6 DEF SaveFailed
    <3>2. runs'[d] = runs[d] /\ failures'[d] = failures[d] /\ exitCode'[d] = exitCode[d]
      BY <2>6 DEF TypeOK, SaveFailed, Raise, Leave
    <3> QED
      BY <3>1, <3>2
  <2> QED
    BY <2>1, <2>2, <2>3, <2>4, <2>5, <2>6 DEF Work
<1>3. ItemsOf(d)' = ItemsOf(d)
  BY <1>2 DEF ItemsOf, ItemOf
<1> QED
  BY <1>1, <1>2, <1>3, UntouchedStayOrderly

\* When a symbol is next, the circuit opens before it if and only if the streak
\* has reached the threshold.
LEMMA StreakOpensCircuit ==
    ASSUME RunsAreOrderly, NEW c \in Calls, NEW s \in Symbols, IsNext(c, s), OutcomesFit(c)
    PROVE  CircuitOpensBefore(c, s) <=> Cardinality(Streak(c)) >= FailureThreshold
<1> DEFINE B == Settled(c)
           J == LastOf(B, FailureThreshold)
<1>0. TypeOK /\ ItemsTellTheTruth
  BY DEF RunsAreOrderly
<1>1. job[c].symbols \subseteq Symbols /\ Symbols \subseteq Nat /\ IsFiniteSet(Symbols)
  BY <1>0, SymbolsAreSorted DEF TypeOK, NoJob
<1>2. B \subseteq Nat /\ IsFiniteSet(B) /\ B \subseteq Symbols
  BY <1>1, FS_Subset DEF OutcomesFit
<1>3. {x \in job[c].symbols : x < s} = B
  <2>1. ASSUME NEW x \in job[c].symbols, x < s PROVE x \in B
    <3>1. x \notin Remaining(c)
      <4>1. x \in Nat /\ s \in Nat
        BY <1>1
      <4>2. ~(s <= x)
        BY <2>1, <4>1
      <4> QED
        BY <4>2 DEF IsNext
    <3> QED
      BY <2>1, <3>1 DEF Remaining
  <2>2. ASSUME NEW x \in B PROVE x \in job[c].symbols /\ x < s
    BY DEF OutcomesFit, IsNext
  <2> QED
    BY <2>1, <2>2
<1>4. JustBefore(c, s) = J
  BY <1>3 DEF JustBefore, LastOf
<1>5. \A x \in B : <<x, TRUE>> \in outcomes[c] \/ <<x, FALSE>> \in outcomes[c]
  <2>1. outcomes[c] \subseteq Symbols \X BOOLEAN
    BY <1>0 DEF TypeOK
  <2>2. ASSUME NEW o \in outcomes[c] PROVE <<o[1], TRUE>> = o \/ <<o[1], FALSE>> = o
    <3>1. PICK x \in Symbols, b \in BOOLEAN : o = <<x, b>>
      BY <2>1
    <3>2. o[1] = x /\ (b = TRUE \/ b = FALSE)
      BY <3>1
    <3> QED
      BY <3>1, <3>2
  <2> QED
    BY <2>2 DEF Settled
<1>6. \A x \in Symbols : x \in SymbolsWith(c, "failed") <=> <<x, FALSE>> \in outcomes[c]
  BY DEF OutcomesFit, SymbolsWith
<1>7. \A x \in Symbols : ~(<<x, TRUE>> \in outcomes[c] /\ <<x, FALSE>> \in outcomes[c])
  <2>1. \A x : /\ ItemOf(c, x, "succeeded") # ItemOf(c, x, "failed")
               /\ ItemOf(c, x, "succeeded").call = ItemOf(c, x, "failed").call
               /\ ItemOf(c, x, "succeeded").symbol = ItemOf(c, x, "failed").symbol
    BY DEF ItemOf
  <2>2. \A x \in Symbols :
           /\ <<x, TRUE>> \in outcomes[c] => ItemOf(c, x, "succeeded") \in items
           /\ <<x, FALSE>> \in outcomes[c] => ItemOf(c, x, "failed") \in items
    BY DEF OutcomesFit
  <2>3. \A i, j \in items : i.call = j.call /\ i.symbol = j.symbol => i = j
    BY <1>0 DEF ItemsTellTheTruth
  <2>4. \A x : ~(ItemOf(c, x, "succeeded") \in items /\ ItemOf(c, x, "failed") \in items)
    BY <2>1, <2>3
  <2> QED
    BY <2>2, <2>4
<1>8. /\ Streak(c) \subseteq B /\ IsFiniteSet(Streak(c)) /\ Cardinality(Streak(c)) \in Nat
      /\ IsFiniteSet(J) /\ J \subseteq B
  BY <1>2, FS_Subset, FS_CardinalityType DEF Streak, LastOf
<1>9. ASSUME Cardinality(Streak(c)) >= FailureThreshold
      PROVE  CircuitOpensBefore(c, s)
  <2>1. \A x \in Streak(c), y \in B : y >= x => y \in Streak(c)
    <3>1. \A x, y, z \in B : y >= x /\ z >= y => z >= x
      BY <1>2
    <3> QED
      BY <3>1 DEF Streak
  <2>2. Cardinality(J) = FailureThreshold /\ J \subseteq Streak(c)
    BY <1>2, <1>8, <1>9, <2>1, LastAreEnough, LimitsArePositive
  <2>3. ASSUME NEW x \in Streak(c) PROVE x \in SymbolsWith(c, "failed")
    <3>1. x \in B /\ x >= x
      BY <1>2, <1>8
    <3>2. <<x, TRUE>> \notin outcomes[c]
      BY <3>1 DEF Streak
    <3> QED
      BY <1>2, <1>5, <1>6, <3>1, <3>2
  <2> QED
    BY <1>4, <2>2, <2>3 DEF CircuitOpensBefore
<1>10. ASSUME CircuitOpensBefore(c, s)
       PROVE  Cardinality(Streak(c)) >= FailureThreshold
  <2>1. Cardinality(J) = FailureThreshold /\ J \subseteq SymbolsWith(c, "failed")
    BY <1>4, <1>10 DEF CircuitOpensBefore
  <2>2. ASSUME NEW x \in J PROVE x \in Streak(c)
    <3>1. \A y \in B : y >= x => y \in J
      BY <1>2, LastAreLast, LimitsArePositive
    <3>2. \A y \in J : <<y, TRUE>> \notin outcomes[c]
      BY <1>2, <1>6, <1>7, <1>8, <2>1
    <3> QED
      BY <1>8, <3>1, <3>2 DEF Streak
  <2>3. J \subseteq Streak(c)
    BY <2>2
  <2>4. Cardinality(J) <= Cardinality(Streak(c))
    BY <1>8, <2>3, FS_Subset
  <2> QED
    BY <2>1, <2>4
<1> QED
  BY <1>9, <1>10

\* Attempts leave the circuit as it should be: one is made only if the streak
\* is short, and no failed item is added.
LEMMA AttemptStaysOrderly ==
    ASSUME RunsAreOrderly, NEW c \in Calls, CallIsOrderly(c), Attempt(c)
    PROVE  CallIsOrderly(c)'
<1>1. /\ TypeOK /\ CountsFit(c)
      /\ pc[c] = "attempt" /\ OutcomesFit(c) /\ runs[c].status = "running"
      /\ runs[c].requested = Cardinality(job[c].symbols)
      /\ exitCode[c] = "none" /\ ~CircuitIsOpen(c) /\ Cardinality(Streak(c)) = failures[c]
  BY DEF RunsAreOrderly, RequestsAreCounted, CallIsOrderly, Attempt, ProgressFits, Loop,
     FailuresFit
<1> DEFINE failing == \/ pc'[c] = "attempt" /\ failures'[c] = failures[c]
                      \/ pc'[c] = "save_failed" /\ failures'[c] = failures[c] + 1
<1>2. RetryOrGiveUp(c) => failing
  BY <1>1 DEF TypeOK, RetryOrGiveUp, Goto
<1>3. PICK s \in Symbols :
         /\ IsNext(c, s)
         /\ requests' = [requests EXCEPT ![c][s] = @ + 1]
         /\ \/ items' = items /\ outcomes' = outcomes /\ failing
            \/ /\ items' = items \cup {ItemOf(c, s, "succeeded")}
               /\ \/ /\ failures' = [failures EXCEPT ![c] = 0]
                     /\ outcomes' = [outcomes EXCEPT ![c] = @ \cup {<<s, TRUE>>}]
                     /\ pc' = [pc EXCEPT ![c] = "next_symbol"]
                  \/ failing /\ outcomes' = outcomes
  BY <1>2 DEF Attempt, Goto
<1> HIDE DEF failing
<1>4. runs' = runs /\ job' = job /\ exitCode' = exitCode
  BY DEF Attempt
<1>5. /\ requests'[c][s] # 0
      /\ \A x \in Symbols : x # s => requests'[c][x] = requests[c][x]
  <2>1. requests[c][s] \in Nat /\ requests'[c] = [requests[c] EXCEPT ![s] = @ + 1]
    BY <1>1, <1>3 DEF TypeOK
  <2> QED
    BY <1>1, <2>1 DEF TypeOK
<1>6. s \in job[c].symbols /\ s \notin Settled(c) /\ job[c].symbols \subseteq Symbols
  <2>1. job[c].symbols \subseteq Symbols
    BY <1>1 DEF TypeOK, NoJob
  <2> QED
    BY <1>3, <2>1 DEF IsNext, Remaining
<1>6a. items \subseteq items' /\ items' \subseteq items \cup {ItemOf(c, s, "succeeded")}
  BY <1>3
<1>7. \A x : ItemOf(c, x, "failed") \in items' <=> ItemOf(c, x, "failed") \in items
  <2>1. \A x : ItemOf(c, x, "failed") # ItemOf(c, s, "succeeded")
    BY DEF ItemOf
  <2> QED
    BY <1>6a, <2>1
<1>8. CircuitFits(c)'
  <2>1. SymbolsWith(c, "failed")' = SymbolsWith(c, "failed")
    BY <1>7 DEF SymbolsWith, ItemOf
  <2>2. \A x : CircuitOpensBefore(c, x)' <=> CircuitOpensBefore(c, x)
    BY <1>4, <2>1 DEF CircuitOpensBefore, JustBefore
  <2>3. ~CircuitOpensBefore(c, s)
    <3>1. ~(failures[c] >= FailureThreshold)
      BY <1>1 DEF CircuitIsOpen
    <3> QED
      BY <1>1, <1>3, <3>1, StreakOpensCircuit
  <2>4. CircuitFits(c)
    BY DEF CallIsOrderly
  <2> QED
    BY <1>4, <1>5, <1>6, <2>1, <2>2, <2>3, <2>4 DEF CircuitFits
<1>9. ReportFits(c)'
  BY <1>1, <1>4 DEF ReportFits
<1>10. CASE failing /\ outcomes' = outcomes
  <2>1. /\ Settled(c)' = Settled(c) /\ Remaining(c)' = Remaining(c) /\ Streak(c)' = Streak(c)
        /\ \A x : IsNext(c, x)' <=> IsNext(c, x)
    BY <1>4, <1>10 DEF Settled, Remaining, Streak, IsNext
  <2>2. pc'[c] \in {"attempt", "save_failed"}
    BY <1>10 DEF failing
  <2>3. OutcomesFit(c)'
    <3>1. \A x \in Symbols :
             ItemOf(c, x, "succeeded") \in items' =>
                <<x, TRUE>> \in outcomes[c] \/ IsNext(c, x)
      <4>1. \A x : ItemOf(c, x, "succeeded") = ItemOf(c, s, "succeeded") => x = s
        BY DEF ItemOf
      <4>2. \A x \in Symbols : ItemOf(c, x, "succeeded") \in items =>
                <<x, TRUE>> \in outcomes[c] \/ IsNext(c, x)
        BY <1>1 DEF OutcomesFit
      <4> QED
        BY <1>3, <1>6a, <4>1, <4>2
    <3>2. items \subseteq items'
      BY <1>6a
    <3>3. \A x, status : ItemOf(c, x, status)' = ItemOf(c, x, status)
      BY DEF ItemOf
    <3>4. \A x \in Symbols : <<x, TRUE>> \in outcomes[c] => ItemOf(c, x, "succeeded") \in items'
      BY <1>1, <3>2 DEF OutcomesFit
    <3>5. \A x \in Symbols : /\ <<x, FALSE>> \in outcomes[c] => ItemOf(c, x, "failed") \in items'
                             /\ ItemOf(c, x, "failed") \in items' => <<x, FALSE>> \in outcomes[c]
      BY <1>1, <1>7 DEF OutcomesFit
    <3>6. Settled(c) \subseteq job[c].symbols /\ \A x \in Settled(c), y \in Remaining(c) : x < y
      BY <1>1 DEF OutcomesFit
    <3> QED
      BY <1>4, <1>10, <2>1, <2>2, <3>1, <3>3, <3>4, <3>5, <3>6 DEF OutcomesFit
  <2>4. ProgressFits(c)'
    BY <1>1, <1>4, <2>2, <2>3 DEF ProgressFits, Loop
  <2>5. FailuresFit(c)'
    <3>1. failures[c] \in Nat /\ failures[c] < FailureThreshold
      BY <1>1, LimitsArePositive DEF TypeOK, CircuitIsOpen
    <3>2. CASE pc'[c] = "attempt" /\ failures'[c] = failures[c]
      BY <1>1, <2>1, <3>2 DEF FailuresFit, CircuitIsOpen
    <3>3. CASE pc'[c] = "save_failed" /\ failures'[c] = failures[c] + 1
      <4>1. \A x \in Symbols : IsNext(c, x) => x = s
        BY <1>3, NextIsUnique
      <4>2. /\ Cardinality(Streak(c)) = failures'[c] - 1
            /\ failures'[c] <= FailureThreshold
        BY <1>1, <3>1, <3>3, LimitsArePositive
      <4> QED
        BY <1>5, <2>1, <3>3, <4>1, <4>2 DEF FailuresFit
    <3> QED
      BY <1>10, <3>2, <3>3 DEF failing
  <2> QED
    BY <1>8, <1>9, <2>4, <2>5 DEF CallIsOrderly
<1>11. CASE /\ items' = items \cup {ItemOf(c, s, "succeeded")}
            /\ failures' = [failures EXCEPT ![c] = 0]
            /\ outcomes' = [outcomes EXCEPT ![c] = @ \cup {<<s, TRUE>>}]
            /\ pc' = [pc EXCEPT ![c] = "next_symbol"]
  <2>1. /\ outcomes'[c] = outcomes[c] \cup {<<s, TRUE>>}
        /\ pc'[c] = "next_symbol" /\ failures'[c] = 0
    BY <1>1, <1>11 DEF TypeOK
  <2>2. Settled(c)' = Settled(c) \cup {s}
    <3>1. Settled(c)' = {o[1] : o \in outcomes[c] \cup {<<s, TRUE>>}}
      BY <2>1 DEF Settled
    <3>2. <<s, TRUE>>[1] = s
      OBVIOUS
    <3> QED
      BY <3>1, <3>2 DEF Settled
  <2>3. Remaining(c)' = Remaining(c) \ {s}
    BY <1>4, <2>2 DEF Remaining
  <2>4. OutcomesFit(c)'
    <3>1. \A x \in Settled(c)', y \in Remaining(c)' : x < y
      <4>1. \A y \in Remaining(c) : s <= y
        BY <1>3 DEF IsNext
      <4>2. s \in Nat /\ \A y \in Remaining(c) : y \in Nat
        BY <1>6, SymbolsAreSorted DEF Remaining
      <4>3. \A y \in Remaining(c)' : s < y
        BY <2>3, <4>1, <4>2
      <4> QED
        BY <1>1, <2>2, <2>3, <4>3 DEF OutcomesFit
    <3>2. Settled(c)' \subseteq job'[c].symbols
      BY <1>1, <1>4, <1>6, <2>2 DEF OutcomesFit
    <3>3. \A x : ItemOf(c, x, "succeeded") = ItemOf(c, s, "succeeded") => x = s
      BY DEF ItemOf
    <3>4. \A x \in Symbols : ItemOf(c, x, "succeeded") \in items =>
             <<x, TRUE>> \in outcomes[c] \/ x = s
      BY <1>1, <1>3, NextIsUnique DEF OutcomesFit
    <3>5. \A x \in Symbols :
             ItemOf(c, x, "succeeded") \in items' <=> <<x, TRUE>> \in outcomes'[c]
      BY <1>1, <1>11, <2>1, <3>3, <3>4 DEF OutcomesFit
    <3>6. \A x \in Symbols : ItemOf(c, x, "failed") \in items' <=> <<x, FALSE>> \in outcomes'[c]
      <4>1. \A x : <<x, FALSE>> # <<s, TRUE>>
        OBVIOUS
      <4> QED
        BY <1>1, <1>7, <2>1, <4>1 DEF OutcomesFit
    <3>7. \A x, status : ItemOf(c, x, status)' = ItemOf(c, x, status)
      BY DEF ItemOf
    <3> QED
      BY <3>1, <3>2, <3>5, <3>6, <3>7 DEF OutcomesFit
  <2>5. ProgressFits(c)'
    BY <1>1, <1>4, <2>1, <2>4 DEF ProgressFits, Loop
  <2>6. FailuresFit(c)'
    <3>1. Streak(c)' = {}
      <4>1. \A x \in Settled(c)' : s >= x
        <5>1. s \in Nat /\ \A x \in Settled(c) : x \in Nat /\ x < s
          BY <1>1, <1>3, <1>6, SymbolsAreSorted DEF OutcomesFit, IsNext
        <5> QED
          BY <2>2, <5>1
      <4>2. s \in Settled(c)' /\ <<s, TRUE>> \in outcomes'[c]
        BY <2>1, <2>2
      <4> QED
        BY <4>1, <4>2 DEF Streak
    <3>2. Cardinality(Streak(c)') = 0
      BY <3>1, FS_EmptySet
    <3>3. ~(CircuitIsOpen(c)')
      BY <2>1, LimitsArePositive DEF CircuitIsOpen
    <3> QED
      BY <2>1, <3>2, <3>3 DEF FailuresFit
  <2> QED
    BY <1>8, <1>9, <2>5, <2>6 DEF CallIsOrderly
<1> QED
  BY <1>3, <1>10, <1>11

\* A failed item is added for a symbol that was attempted or before which the
\* circuit opened; it closes no circuit and opens one only for symbols to come.
LEMMA FailedItemsStayOrderly ==
    ASSUME RunsAreOrderly, NEW c \in Calls, CallIsOrderly(c), NEW s \in Symbols, IsNext(c, s),
           pc[c] = "save_failed", items' = items \cup {ItemOf(c, s, "failed")},
           job' = job, requests' = requests
    PROVE  CircuitFits(c)'
<1>1. TypeOK /\ CountsFit(c) /\ OutcomesFit(c) /\ CircuitFits(c)
  BY DEF RunsAreOrderly, RequestsAreCounted, CallIsOrderly, ProgressFits, Loop
<1>2. SymbolsWith(c, "failed")' = SymbolsWith(c, "failed") \cup {s}
  <2>1. \A x : ItemOf(c, x, "failed") = ItemOf(c, s, "failed") => x = s
    BY DEF ItemOf
  <2>2. SymbolsWith(c, "failed")' = {x \in Symbols : ItemOf(c, x, "failed") \in items'}
    BY DEF SymbolsWith, ItemOf
  <2> QED
    BY <2>1, <2>2 DEF SymbolsWith
<1>3. \A x : JustBefore(c, x)' = JustBefore(c, x)
  BY DEF JustBefore
<1>4. \A x : CircuitOpensBefore(c, x) => CircuitOpensBefore(c, x)'
  BY <1>2, <1>3 DEF CircuitOpensBefore
<1>5. job[c].symbols \subseteq Symbols
  BY <1>1 DEF TypeOK, NoJob
<1>6. ASSUME NEW x \in job[c].symbols, CircuitOpensBefore(c, x)'
      PROVE  requests[c][x] = 0
  <2>1. CASE CircuitOpensBefore(c, x)
    BY <1>1, <2>1 DEF CircuitFits
  <2>2. CASE ~CircuitOpensBefore(c, x)
    <3>1. s \in JustBefore(c, x)
      BY <1>2, <1>3, <1>6, <2>2 DEF CircuitOpensBefore
    <3>2. s < x /\ s \in Nat /\ x \in Nat
      BY <1>5, <3>1, SymbolsAreSorted DEF JustBefore
    <3>3. x \in Remaining(c)
      <4>1. CASE x \in Settled(c)
        <5>1. x < s
          BY <1>1, <4>1 DEF OutcomesFit, IsNext
        <5> QED
          BY <3>2, <5>1
      <4> QED
        BY <4>1 DEF Remaining
    <3>4. ~IsNext(c, x)
      <4>1. x # s
        BY <3>2
      <4> QED
        BY <1>5, <4>1, NextIsUnique
    <3> QED
      BY <1>1, <1>5, <3>3, <3>4 DEF CountsFit
  <2> QED
    BY <2>1, <2>2
<1>7. requests[c][s] = 0 => CircuitOpensBefore(c, s)
  BY <1>1, StreakOpensCircuit DEF CallIsOrderly, FailuresFit
<1>8. ASSUME NEW x \in job[c].symbols, x \in SymbolsWith(c, "failed")', requests[c][x] = 0
      PROVE  CircuitOpensBefore(c, x)'
  BY <1>1, <1>2, <1>4, <1>7, <1>8 DEF CircuitFits
<1> QED
  BY <1>6, <1>8 DEF CircuitFits

\* A failed symbol is added to the streak.
LEMMA FailuresStayOrderly ==
    ASSUME RunsAreOrderly, NEW c \in Calls, CallIsOrderly(c), SaveFailed(c)
    PROVE  CallIsOrderly(c)'
<1>1. /\ TypeOK /\ CountsFit(c)
      /\ pc[c] = "save_failed" /\ OutcomesFit(c) /\ runs[c].status = "running"
      /\ runs[c].requested = Cardinality(job[c].symbols)
      /\ exitCode[c] = "none"
  BY DEF RunsAreOrderly, RequestsAreCounted, CallIsOrderly, SaveFailed, ProgressFits, Loop
<1>2. PICK s \in Symbols :
         /\ IsNext(c, s)
         /\ \/ /\ ~HasItem(c, s)
               /\ items' = items \cup {ItemOf(c, s, "failed")}
               /\ outcomes' = [outcomes EXCEPT ![c] = @ \cup {<<s, FALSE>>}]
               /\ pc' = [pc EXCEPT ![c] = "next_symbol"]
               /\ exitCode' = exitCode
            \/ /\ items' = items \/ items' = items \cup {ItemOf(c, s, "failed")}
               /\ pc' = [pc EXCEPT ![c] = "unlock"]
               /\ exitCode' = [exitCode EXCEPT ![c] = "all_failed"]
  BY DEF SaveFailed, Raise, Leave, Goto
<1>3. runs' = runs /\ job' = job /\ requests' = requests /\ failures' = failures
  BY DEF SaveFailed
<1>4. CASE items' = items /\ pc' = [pc EXCEPT ![c] = "unlock"]
           /\ exitCode' = [exitCode EXCEPT ![c] = "all_failed"]
  <2>1. pc'[c] = "unlock" /\ exitCode'[c] = "all_failed" /\ ItemsOf(c)' = ItemsOf(c)
    BY <1>1, <1>4 DEF TypeOK, ItemsOf
  <2> QED
    BY <1>3, <2>1, LeaversStayOrderly
<1>5. CASE /\ items' = items \cup {ItemOf(c, s, "failed")}
           /\ pc' = [pc EXCEPT ![c] = "unlock"]
           /\ exitCode' = [exitCode EXCEPT ![c] = "all_failed"]
  <2>1. pc'[c] = "unlock" /\ exitCode'[c] = "all_failed"
    BY <1>1, <1>5 DEF TypeOK
  <2>2. CircuitFits(c)'
    BY <1>1, <1>2, <1>3, <1>5, FailedItemsStayOrderly
  <2>3. ReportFits(c)'
    BY <1>1, <1>3, <2>1 DEF ReportFits
  <2> QED
    BY <2>1, <2>2, <2>3 DEF CallIsOrderly, ProgressFits, FailuresFit, Loop
<1>6. CASE /\ ~HasItem(c, s)
           /\ items' = items \cup {ItemOf(c, s, "failed")}
           /\ outcomes' = [outcomes EXCEPT ![c] = @ \cup {<<s, FALSE>>}]
           /\ pc' = [pc EXCEPT ![c] = "next_symbol"]
           /\ exitCode' = exitCode
  <2>1. outcomes'[c] = outcomes[c] \cup {<<s, FALSE>>} /\ pc'[c] = "next_symbol"
    BY <1>1, <1>6 DEF TypeOK
  <2>2. Settled(c)' = Settled(c) \cup {s}
    <3>1. Settled(c)' = {o[1] : o \in outcomes[c] \cup {<<s, FALSE>>}}
      BY <2>1 DEF Settled
    <3>2. <<s, FALSE>>[1] = s
      OBVIOUS
    <3> QED
      BY <3>1, <3>2 DEF Settled
  <2>3. Remaining(c)' = Remaining(c) \ {s}
    BY <1>3, <2>2 DEF Remaining
  <2>4. s \in job[c].symbols /\ s \notin Settled(c) /\ job[c].symbols \subseteq Symbols
    <3>1. job[c].symbols \subseteq Symbols
      BY <1>1 DEF TypeOK, NoJob
    <3> QED
      BY <1>2, <3>1 DEF IsNext, Remaining
  <2>5. s \in Nat /\ \A x \in Settled(c) : x \in Nat /\ x < s
    BY <1>1, <1>2, <2>4, SymbolsAreSorted DEF OutcomesFit, IsNext
  <2>6. OutcomesFit(c)'
    <3>1. \A x \in Settled(c)', y \in Remaining(c)' : x < y
      <4>1. \A y \in Remaining(c) : s <= y
        BY <1>2 DEF IsNext
      <4>2. s \in Nat /\ \A y \in Remaining(c) : y \in Nat
        BY <2>4, SymbolsAreSorted DEF Remaining
      <4>3. \A y \in Remaining(c)' : s < y
        BY <2>3, <4>1, <4>2
      <4> QED
        BY <1>1, <2>2, <2>3, <4>3 DEF OutcomesFit
    <3>2. Settled(c)' \subseteq job'[c].symbols
      BY <1>1, <1>3, <2>2, <2>4 DEF OutcomesFit
    <3>3. \A x : /\ ItemOf(c, x, "failed") = ItemOf(c, s, "failed") => x = s
                 /\ ItemOf(c, x, "succeeded") # ItemOf(c, s, "failed")
                 /\ <<x, TRUE>> # <<s, FALSE>>
      BY DEF ItemOf
    <3>4. \A x \in Symbols : ItemOf(c, x, "succeeded") \in items => <<x, TRUE>> \in outcomes[c]
      <4>1. ItemOf(c, s, "succeeded") \notin items
        BY <1>6 DEF HasItem, ItemOf
      <4> QED
        BY <1>1, <1>2, <4>1, NextIsUnique DEF OutcomesFit
    <3>5. \A x \in Symbols :
             ItemOf(c, x, "succeeded") \in items' <=> <<x, TRUE>> \in outcomes'[c]
      BY <1>1, <1>6, <2>1, <3>3, <3>4 DEF OutcomesFit
    <3>6. \A x \in Symbols : ItemOf(c, x, "failed") \in items' <=> <<x, FALSE>> \in outcomes'[c]
      BY <1>1, <1>6, <2>1, <3>3 DEF OutcomesFit
    <3>7. \A x, status : ItemOf(c, x, status)' = ItemOf(c, x, status)
      BY DEF ItemOf
    <3> QED
      BY <3>1, <3>2, <3>5, <3>6, <3>7 DEF OutcomesFit
  <2>7. ProgressFits(c)'
    BY <1>1, <1>3, <1>6, <2>1, <2>6 DEF ProgressFits, Loop
  <2>8. FailuresFit(c)'
    <3>1. Streak(c)' = Streak(c) \cup {s}
      <4>1. <<s, TRUE>> \notin outcomes'[c]
        <5>1. <<s, TRUE>> \notin outcomes[c]
          <6>1. <<s, TRUE>>[1] = s
            OBVIOUS
          <6> QED
            BY <2>4, <6>1 DEF Settled
        <5> QED
          BY <2>1, <5>1
      <4>2. \A y : <<y, TRUE>> \in outcomes'[c] <=> <<y, TRUE>> \in outcomes[c]
        BY <2>1
      <4>3. \A x \in Settled(c) : ~(x >= s)
        BY <2>5
      <4> QED
        BY <2>2, <4>1, <4>2, <4>3 DEF Streak
    <3>2. Cardinality(Streak(c)') = Cardinality(Streak(c)) + 1 /\ Cardinality(Streak(c)) \in Nat
      <4>1. IsFiniteSet(Streak(c))
        <5>1. Streak(c) \subseteq Symbols
          BY <1>1, <2>4 DEF Streak, OutcomesFit
        <5> QED
          BY <5>1, SymbolsAreSorted, FS_Subset
      <4>2. s \notin Streak(c)
        BY <2>4 DEF Streak
      <4> QED
        BY <3>1, <4>1, <4>2, FS_AddElement, FS_CardinalityType
    <3>3. CircuitIsOpen(c)' <=> failures[c] >= FailureThreshold
      BY <1>3 DEF CircuitIsOpen
    <3>4. \/ failures[c] >= FailureThreshold /\ Cardinality(Streak(c)) >= FailureThreshold
          \/ Cardinality(Streak(c)) = failures[c] - 1 /\ failures[c] <= FailureThreshold
      BY <1>1, <1>2 DEF CallIsOrderly, FailuresFit, CircuitIsOpen
    <3>5. failures[c] \in Nat /\ FailureThreshold \in Nat
      BY <1>1, LimitsArePositive DEF TypeOK
    <3>6. /\ failures[c] >= FailureThreshold => Cardinality(Streak(c)') >= FailureThreshold
          /\ ~(failures[c] >= FailureThreshold) => Cardinality(Streak(c)') = failures[c]
      BY <3>2, <3>4, <3>5
    <3> QED
      BY <1>3, <2>1, <3>3, <3>6 DEF FailuresFit
  <2>9. CircuitFits(c)'
    BY <1>1, <1>2, <1>3, <1>6, FailedItemsStayOrderly
  <2>10. ReportFits(c)'
    BY <1>1, <1>3, <1>6 DEF ReportFits
  <2> QED
    BY <2>7, <2>8, <2>9, <2>10 DEF CallIsOrderly
<1> QED
  BY <1>2, <1>4, <1>5, <1>6

\* Taking the next symbol looks at the failures so far.
LEMMA ChoosingStaysOrderly ==
    ASSUME RunsAreOrderly, NEW c \in Calls, CallIsOrderly(c), NextSymbol(c)
    PROVE  CallIsOrderly(c)'
<1>1. /\ TypeOK /\ CountsFit(c) /\ ProgressFits(c) /\ FailuresFit(c) /\ pc[c] = "next_symbol"
  BY DEF RunsAreOrderly, RequestsAreCounted, CallIsOrderly, NextSymbol
<1>2. /\ \/ pc'[c] = "complete_run" /\ Remaining(c) = {}
         \/ pc'[c] = "save_failed" /\ CircuitIsOpen(c)
         \/ pc'[c] = "attempt" /\ ~CircuitIsOpen(c)
      /\ UNCHANGED <<tables, job, failures, outcomes, requests, exitCode>>
  BY <1>1 DEF TypeOK, NextSymbol, Goto
<1>3. ItemsOf(c)' = ItemsOf(c) /\ runs' = runs /\ items' = items
  BY <1>2 DEF ItemsOf, tables
<1>4. CircuitFits(c)' /\ ReportFits(c)'
  <2>1. CircuitFits(c)'
    BY <1>2, <1>3, CircuitStands DEF CallIsOrderly
  <2>2. ReportFits(c)'
    BY <1>2, <1>3, ItemsTell DEF CallIsOrderly, ReportFits
  <2> QED
    BY <2>1, <2>2
<1>5. /\ Settled(c)' = Settled(c) /\ Remaining(c)' = Remaining(c) /\ Streak(c)' = Streak(c)
      /\ CircuitIsOpen(c)' <=> CircuitIsOpen(c)
      /\ \A s : IsNext(c, s)' <=> IsNext(c, s)
  BY <1>2 DEF Settled, Remaining, Streak, CircuitIsOpen, IsNext
<1>6. OutcomesFit(c)'
  <2>1. OutcomesFit(c)
    BY <1>1 DEF ProgressFits, Loop
  <2>2. \A s, status : ItemOf(c, s, status)' = ItemOf(c, s, status)
    BY DEF ItemOf
  <2> QED
    BY <1>1, <1>2, <1>3, <1>5, <2>1, <2>2 DEF OutcomesFit
<1>7. ProgressFits(c)'
  <2>1. /\ runs[c].status = "running" /\ runs[c].requested = Cardinality(job[c].symbols)
        /\ exitCode[c] = "none"
    BY <1>1 DEF ProgressFits, Loop
  <2> QED
    BY <1>2, <1>3, <1>5, <1>6, <2>1 DEF ProgressFits, Loop
<1>8. FailuresFit(c)'
  <2>1. \A s \in Symbols : IsNext(c, s) => requests[c][s] = 0
    BY <1>1 DEF CountsFit, IsNext
  <2>2. IF CircuitIsOpen(c) THEN Cardinality(Streak(c)) >= FailureThreshold
        ELSE Cardinality(Streak(c)) = failures[c]
    BY <1>1 DEF FailuresFit
  <2> QED
    BY <1>2, <1>5, <2>1, <2>2 DEF FailuresFit
<1> QED
  BY <1>4, <1>7, <1>8 DEF CallIsOrderly

\* At the end of the loop a run has an outcome for every item and an item for
\* every symbol.
LEMMA CountsAreItems ==
    ASSUME RunsAreOrderly, NEW c \in Calls, OutcomesFit(c), pc[c] = "complete_run",
           Remaining(c) = {}
    PROVE  /\ Count(c, TRUE) = Cardinality(SymbolsWith(c, "succeeded"))
           /\ Count(c, FALSE) = Cardinality(SymbolsWith(c, "failed"))
           /\ Cardinality(job[c].symbols) = Count(c, TRUE) + Count(c, FALSE)
<1> DEFINE Yes == SymbolsWith(c, "succeeded")
           No  == SymbolsWith(c, "failed")
<1>1. TypeOK /\ ItemsTellTheTruth
  BY DEF RunsAreOrderly
<1>2. \A s \in Symbols : /\ s \in Yes <=> <<s, TRUE>> \in outcomes[c]
                         /\ s \in No <=> <<s, FALSE>> \in outcomes[c]
  BY DEF OutcomesFit, SymbolsWith
<1>3. Yes \subseteq Symbols /\ No \subseteq Symbols
  BY DEF SymbolsWith
<1>4. IsFiniteSet(Yes) /\ IsFiniteSet(No)
  BY <1>3, SymbolsAreSorted, FS_Subset
<1>5. \A o \in outcomes[c] : \E s \in Symbols, b \in BOOLEAN : o = <<s, b>>
  BY <1>1 DEF TypeOK
<1>6. Yes \cap No = {}
  <2>1. \A x : /\ ItemOf(c, x, "succeeded") # ItemOf(c, x, "failed")
               /\ ItemOf(c, x, "succeeded").call = ItemOf(c, x, "failed").call
               /\ ItemOf(c, x, "succeeded").symbol = ItemOf(c, x, "failed").symbol
    BY DEF ItemOf
  <2> QED
    BY <1>1, <2>1 DEF SymbolsWith, ItemsTellTheTruth
<1>7. job[c].symbols = Yes \cup No
  <2>1. ASSUME NEW s \in job[c].symbols PROVE s \in Yes \cup No
    <3>1. PICK o \in outcomes[c] : s = o[1]
      BY DEF Remaining, Settled
    <3>2. PICK x \in Symbols, b \in BOOLEAN : o = <<x, b>>
      BY <1>5, <3>1
    <3>3. x = s /\ (b = TRUE \/ b = FALSE)
      BY <3>1, <3>2
    <3> HIDE DEF Yes, No
    <3> QED
      BY <1>2, <3>1, <3>2, <3>3
  <2>2. ASSUME NEW s \in Yes \cup No PROVE s \in job[c].symbols
    <3>1. s \in Symbols
      BY <1>3
    <3>2. <<s, TRUE>> \in outcomes[c] \/ <<s, FALSE>> \in outcomes[c]
      BY <1>2, <3>1
    <3>3. <<s, TRUE>>[1] = s /\ <<s, FALSE>>[1] = s
      OBVIOUS
    <3>4. s \in Settled(c)
      BY <3>2, <3>3 DEF Settled
    <3> QED
      BY <3>4 DEF OutcomesFit
  <2> QED
    BY <2>1, <2>2
<1> HIDE DEF Yes, No
<1>8. {o \in outcomes[c] : o[2] = TRUE} = {<<s, TRUE>> : s \in Yes}
  <2>1. ASSUME NEW o \in outcomes[c], o[2] = TRUE PROVE o \in {<<s, TRUE>> : s \in Yes}
    <3>1. PICK x \in Symbols, b \in BOOLEAN : o = <<x, b>>
      BY <1>5
    <3>2. o = <<x, TRUE>>
      BY <2>1, <3>1
    <3> QED
      BY <1>2, <3>2
  <2>2. ASSUME NEW s \in Yes PROVE <<s, TRUE>> \in {o \in outcomes[c] : o[2] = TRUE}
    BY <1>2, <1>3
  <2> QED
    BY <2>1, <2>2
<1>9. {o \in outcomes[c] : o[2] = FALSE} = {<<s, FALSE>> : s \in No}
  <2>1. ASSUME NEW o \in outcomes[c], o[2] = FALSE PROVE o \in {<<s, FALSE>> : s \in No}
    <3>1. PICK x \in Symbols, b \in BOOLEAN : o = <<x, b>>
      BY <1>5
    <3>2. o = <<x, FALSE>>
      BY <2>1, <3>1
    <3> QED
      BY <1>2, <3>2
  <2>2. ASSUME NEW s \in No PROVE <<s, FALSE>> \in {o \in outcomes[c] : o[2] = FALSE}
    BY <1>2, <1>3
  <2> QED
    BY <2>1, <2>2
<1>10. Count(c, TRUE) = Cardinality(Yes) /\ Count(c, FALSE) = Cardinality(No)
  <2>1. /\ Cardinality({<<s, TRUE>> : s \in Yes}) = Cardinality(Yes)
        /\ Cardinality({<<s, FALSE>> : s \in No}) = Cardinality(No)
    BY <1>4, MarksKeepNumber
  <2>2. /\ Count(c, TRUE) = Cardinality({o \in outcomes[c] : o[2] = TRUE})
        /\ Count(c, FALSE) = Cardinality({o \in outcomes[c] : o[2] = FALSE})
    BY DEF Count
  <2> QED
    BY <1>8, <1>9, <2>1, <2>2
<1>11. Cardinality(Yes \cup No) = Cardinality(Yes) + Cardinality(No)
  <2>1. Cardinality(Yes \cup No) = Cardinality(Yes) + Cardinality(No) - Cardinality(Yes \cap No)
    BY <1>4, FS_Union
  <2>2. Cardinality(Yes \cap No) = 0
    BY <1>6, FS_EmptySet
  <2>3. Cardinality(Yes) \in Nat /\ Cardinality(No) \in Nat
    BY <1>4, FS_CardinalityType
  <2> QED
    BY <2>1, <2>2, <2>3
<1> QED
  BY <1>7, <1>10, <1>11 DEF Yes, No

\* The row that closes a run sums up its items, and the exit code is that row's.
LEMMA ClosingStaysOrderly ==
    ASSUME RunsAreOrderly, NEW c \in Calls, CallIsOrderly(c), CompleteRun(c)
    PROVE  CallIsOrderly(c)'
<1> DEFINE succeeded == Count(c, TRUE)
           failed    == Count(c, FALSE)
           closed    == [runs EXCEPT ![c].status = RunStatusOf(succeeded, failed),
                                     ![c].succeeded = succeeded,
                                     ![c].failed = failed]
<1>1. /\ TypeOK /\ OutcomesFit(c) /\ pc[c] = "complete_run" /\ Remaining(c) = {}
      /\ runs[c].requested = Cardinality(job[c].symbols)
      /\ runs[c] # NoRun
  BY DEF RunsAreOrderly, CallIsOrderly, CompleteRun, ProgressFits, Loop, WorkIsRecorded
<1>2. /\ items' = items /\ job' = job /\ requests' = requests
      /\ pc' = [pc EXCEPT ![c] = "unlock"]
      /\ \/ runs' = closed /\ exitCode' = [exitCode EXCEPT ![c] = ExitCodeOf(succeeded, failed)]
         \/ runs' \in {runs, closed} /\ exitCode' = [exitCode EXCEPT ![c] = "all_failed"]
  BY DEF CompleteRun, Raise, Leave, Goto
<1>3. pc'[c] = "unlock" /\ ItemsOf(c)' = ItemsOf(c)
  BY <1>1, <1>2 DEF TypeOK, ItemsOf
<1>4. CASE runs' = runs /\ exitCode' = [exitCode EXCEPT ![c] = "all_failed"]
  <2>1. exitCode'[c] = "all_failed"
    BY <1>1, <1>4 DEF TypeOK
  <2> QED
    BY <1>2, <1>3, <1>4, <2>1, LeaversStayOrderly
<1>5. CASE /\ runs' = closed
           /\ exitCode'[c] \in {ExitCodeOf(succeeded, failed), "all_failed"}
  <2>1. /\ runs'[c].status = RunStatusOf(succeeded, failed)
        /\ runs'[c].succeeded = succeeded /\ runs'[c].failed = failed
        /\ runs'[c].requested = runs[c].requested
    <3>1. runs[c] \in Run
      BY <1>1 DEF TypeOK
    <3> HIDE DEF succeeded, failed
    <3> QED
      BY <1>1, <1>5, <3>1 DEF TypeOK, Run
  <2>2. CircuitFits(c)'
    BY <1>2, <1>3, CircuitStands DEF CallIsOrderly
  <2>3. /\ SymbolsWith(c, "succeeded")' = SymbolsWith(c, "succeeded")
        /\ SymbolsWith(c, "failed")' = SymbolsWith(c, "failed")
    BY <1>3, ItemsTell
  <2>4. ReportFits(c)'
    <3>1. /\ runs'[c].succeeded = Cardinality(SymbolsWith(c, "succeeded")')
          /\ runs'[c].failed = Cardinality(SymbolsWith(c, "failed")')
          /\ runs'[c].requested = runs'[c].succeeded + runs'[c].failed
      BY <1>1, <2>1, <2>3, CountsAreItems
    <3>2. /\ exitCode'[c] = "success" => runs'[c].status = "succeeded"
          /\ exitCode'[c] = "partial_failure" => runs'[c].status = "partial"
          /\ exitCode'[c] # "run_conflict"
      <4> HIDE DEF succeeded, failed
      <4> QED
        BY <1>5, <2>1 DEF ExitCodeOf, RunStatusOf
    <3> QED
      BY <3>1, <3>2 DEF ReportFits
  <2> QED
    BY <1>3, <2>2, <2>4 DEF CallIsOrderly, ProgressFits, FailuresFit, Loop
<1>6. \/ exitCode'[c] = ExitCodeOf(succeeded, failed) /\ runs' = closed
      \/ exitCode' = [exitCode EXCEPT ![c] = "all_failed"] /\ runs' \in {runs, closed}
  BY <1>1, <1>2 DEF TypeOK
<1>7. exitCode' = [exitCode EXCEPT ![c] = "all_failed"] => exitCode'[c] = "all_failed"
  BY <1>1 DEF TypeOK
<1> QED
  BY <1>4, <1>5, <1>6, <1>7

\* Until the loop over the symbols begins a call has neither items nor outcomes.
LEMMA BeginnersStayOrderly ==
    ASSUME RunsAreOrderly, NEW c \in Calls, NEW p \in Providers, NEW S \in SUBSET Symbols,
           CallIsOrderly(c),
           Refuse(c) \/ Start(c, p, S) \/ TryLock(c) \/ CreateRun(c) \/ OpenSource(c)
    PROVE  CallIsOrderly(c)'
<1>1. /\ TypeOK /\ CountsFit(c) /\ ProgressFits(c)
      /\ pc[c] \in {"ready", "try_lock", "create_run", "open_source"}
  BY DEF RunsAreOrderly, RequestsAreCounted, CallIsOrderly, Refuse, Start, TryLock, CreateRun,
     OpenSource
<1>2. /\ \A s \in Symbols : requests[c][s] = 0
      /\ \A i \in items : i.call # c
      /\ outcomes[c] = {} /\ failures[c] = 0 /\ exitCode[c] = "none"
      /\ pc[c] # "open_source" => runs[c] = NoRun
  BY <1>1 DEF CountsFit, ProgressFits
<1>3. /\ items' = items /\ outcomes' = outcomes /\ failures' = failures /\ requests' = requests
      /\ job' = job \/ job' = [job EXCEPT ![c] = [provider |-> p, symbols |-> S]]
  BY DEF Refuse, Start, TryLock, CreateRun, OpenSource, tables
<1>4. CircuitFits(c)'
  <2>1. job'[c].symbols \subseteq Symbols
    <3>1. job'[c] = job[c] \/ job'[c] = [provider |-> p, symbols |-> S]
      BY <1>1, <1>3 DEF TypeOK
    <3>2. job[c].symbols \subseteq Symbols
      BY <1>1 DEF TypeOK, NoJob
    <3> QED
      BY <3>1, <3>2
  <2>2. \A s : ItemOf(c, s, "failed")' \notin items'
    BY <1>2, <1>3 DEF ItemOf
  <2>3. SymbolsWith(c, "failed")' = {}
    BY <2>2 DEF SymbolsWith
  <2> QED
    BY <1>2, <1>3, <2>1, <2>3 DEF CircuitFits
<1>5. CASE Refuse(c) \/ Start(c, p, S) \/ TryLock(c)
  <2>1. /\ runs' = runs
        /\ \/ /\ pc' = [pc EXCEPT ![c] = "ended"]
              /\ \E code \in ExitCode : exitCode' = [exitCode EXCEPT ![c] = code]
              /\ ~\E code \in {"success", "partial_failure"} :
                    exitCode' = [exitCode EXCEPT ![c] = code]
           \/ exitCode' = exitCode /\ \E l \in {"try_lock", "create_run"} :
                                         pc' = [pc EXCEPT ![c] = l]
    <3>1. CASE Refuse(c)
      <4>1. exitCode' = [exitCode EXCEPT ![c] = "configuration_error"]
        BY <3>1 DEF Refuse, Leave
      <4>2. exitCode'[c] = "configuration_error"
        BY <1>1, <4>1 DEF TypeOK
      <4> QED
        BY <1>1, <3>1, <4>1, <4>2 DEF TypeOK, Refuse, Leave, Goto, tables, ExitCode
    <3>2. CASE Start(c, p, S)
      BY <3>2 DEF Start, Goto, tables
    <3>3. CASE TryLock(c) /\ exitCode' = exitCode
      BY <1>1, <3>3 DEF TypeOK, TryLock, Leave, Goto, tables
    <3>4. CASE TryLock(c) /\ exitCode' # exitCode
      <4>1. /\ runs' = runs /\ pc' = [pc EXCEPT ![c] = "ended"]
            /\ \E code \in {"run_conflict", "all_failed"} :
                  exitCode' = [exitCode EXCEPT ![c] = code]
        BY <3>4 DEF TryLock, Leave, Goto, tables
      <4>2. exitCode'[c] \in {"run_conflict", "all_failed"}
        BY <1>1, <4>1 DEF TypeOK
      <4> QED
        BY <1>1, <4>1, <4>2 DEF TypeOK, ExitCode
    <3> QED
      BY <1>5, <3>1, <3>2, <3>3, <3>4
  <2>2. runs[c] = NoRun
    BY <1>2, <1>5 DEF Refuse, Start, TryLock
  <2>3. CASE exitCode' = exitCode /\ \E l \in {"try_lock", "create_run"} : pc' = [pc EXCEPT ![c] = l]
    <3>1. pc'[c] \in {"try_lock", "create_run"}
      BY <1>1, <2>3 DEF TypeOK
    <3> QED
      BY <1>2, <1>3, <1>4, <2>1, <2>2, <2>3, <3>1
      DEF CallIsOrderly, ProgressFits, FailuresFit, ReportFits, Loop
  <2>4. CASE /\ pc' = [pc EXCEPT ![c] = "ended"]
             /\ \E code \in ExitCode : exitCode' = [exitCode EXCEPT ![c] = code]
             /\ ~\E code \in {"success", "partial_failure"} :
                   exitCode' = [exitCode EXCEPT ![c] = code]
    <3>1. pc'[c] = "ended" /\ exitCode'[c] \notin {"success", "partial_failure"}
      BY <1>1, <2>4 DEF TypeOK
    <3> QED
      BY <1>4, <2>1, <2>2, <3>1
      DEF CallIsOrderly, ProgressFits, FailuresFit, ReportFits, Loop
  <2> QED
    BY <2>1, <2>3, <2>4
<1>6. CASE CreateRun(c)
  <2> DEFINE row == [status    |-> "running",
                     requested |-> Cardinality(job[c].symbols),
                     succeeded |-> 0,
                     failed    |-> 0]
  <2>1. /\ job' = job
        /\ runs' \in {runs, [runs EXCEPT ![c] = row]}
        /\ \/ /\ runs' = [runs EXCEPT ![c] = row] /\ exitCode' = exitCode
              /\ pc' = [pc EXCEPT ![c] = IF job[c].symbols = {} THEN "complete_run"
                                         ELSE "open_source"]
           \/ /\ pc' = [pc EXCEPT ![c] = "unlock"]
              /\ exitCode' = [exitCode EXCEPT ![c] = "all_failed"]
    BY <1>6 DEF CreateRun, Raise, Leave, Goto
  <2>2. /\ runs'[c] = runs[c] \/ runs'[c] = row
        /\ runs' = [runs EXCEPT ![c] = row] => runs'[c] = row
        /\ runs[c] = NoRun
    BY <1>1, <1>2, <1>6, <2>1 DEF TypeOK, CreateRun
  <2>3. CASE pc' = [pc EXCEPT ![c] = "unlock"] /\ exitCode' = [exitCode EXCEPT ![c] = "all_failed"]
    <3>1. pc'[c] = "unlock" /\ exitCode'[c] = "all_failed"
      BY <1>1, <2>3 DEF TypeOK
    <3>2. runs'[c] = NoRun \/ runs'[c].status = "running"
      BY <2>2
    <3> QED
      BY <1>4, <3>1, <3>2 DEF CallIsOrderly, ProgressFits, FailuresFit, ReportFits, Loop
  <2>4. CASE /\ runs' = [runs EXCEPT ![c] = row] /\ exitCode' = exitCode
             /\ pc' = [pc EXCEPT ![c] = IF job[c].symbols = {} THEN "complete_run"
                                        ELSE "open_source"]
    <3>1. /\ runs'[c].status = "running" /\ runs'[c].requested = Cardinality(job[c].symbols)
          /\ exitCode'[c] = "none"
      BY <1>2, <2>2, <2>4
    <3>2. CASE job[c].symbols # {}
      <4>1. pc'[c] = "open_source"
        BY <1>1, <2>4, <3>2 DEF TypeOK
      <4> QED
        BY <1>2, <1>3, <1>4, <2>1, <3>1, <4>1
        DEF CallIsOrderly, ProgressFits, FailuresFit, ReportFits, Loop
    <3>3. CASE job[c].symbols = {}
      <4>1. pc'[c] = "complete_run"
        BY <1>1, <2>4, <3>3 DEF TypeOK
      <4>2. Settled(c)' = {} /\ Remaining(c)' = {}
        BY <1>2, <1>3, <2>1, <3>3 DEF Settled, Remaining
      <4>3. \A s, status : ItemOf(c, s, status)' \notin items'
        BY <1>2, <1>3 DEF ItemOf
      <4>4. OutcomesFit(c)'
        BY <1>2, <1>3, <4>2, <4>3 DEF OutcomesFit
      <4> QED
        BY <1>4, <2>1, <3>1, <4>1, <4>2, <4>4
        DEF CallIsOrderly, ProgressFits, FailuresFit, ReportFits, Loop
    <3> QED
      BY <3>2, <3>3
  <2> QED
    BY <2>1, <2>3, <2>4
<1>7. CASE OpenSource(c)
  <2>1. /\ runs' = runs /\ job' = job
        /\ \/ pc' = [pc EXCEPT ![c] = "next_symbol"] /\ exitCode' = exitCode
           \/ /\ pc' = [pc EXCEPT ![c] = "unlock"]
              /\ \E code \in {"configuration_error", "all_failed"} :
                    exitCode' = [exitCode EXCEPT ![c] = code]
    BY <1>7 DEF OpenSource, Raise, Leave, Goto, tables
  <2>2. CASE /\ pc' = [pc EXCEPT ![c] = "unlock"]
             /\ \E code \in {"configuration_error", "all_failed"} :
                   exitCode' = [exitCode EXCEPT ![c] = code]
    <3>1. /\ pc'[c] = "unlock" /\ exitCode'[c] \in {"configuration_error", "all_failed"}
          /\ ItemsOf(c)' = ItemsOf(c)
      BY <1>1, <1>3, <2>2 DEF TypeOK, ItemsOf
    <3> QED
      BY <1>3, <2>1, <3>1, LeaversStayOrderly
  <2>3. CASE pc' = [pc EXCEPT ![c] = "next_symbol"] /\ exitCode' = exitCode
    <3>1. pc'[c] = "next_symbol"
      BY <1>1, <2>3 DEF TypeOK
    <3>2. /\ runs[c].status = "running" /\ runs[c].requested = Cardinality(job[c].symbols)
      BY <1>1, <1>7 DEF ProgressFits, OpenSource
    <3>3. Settled(c)' = {} /\ Streak(c)' = {}
      BY <1>2, <1>3 DEF Settled, Streak
    <3>4. \A s, status : ItemOf(c, s, status)' \notin items'
      BY <1>2, <1>3 DEF ItemOf
    <3>5. OutcomesFit(c)'
      BY <1>2, <1>3, <3>3, <3>4 DEF OutcomesFit
    <3>6. Cardinality(Streak(c)') = 0
      BY <3>3, FS_EmptySet
    <3>7. failures'[c] = 0 /\ ~(CircuitIsOpen(c)')
      BY <1>2, <1>3, LimitsArePositive DEF CircuitIsOpen
    <3>8. FailuresFit(c)'
      BY <3>1, <3>6, <3>7 DEF FailuresFit
    <3>9. exitCode'[c] = "none"
      BY <1>2, <2>3
    <3> QED
      BY <1>4, <2>1, <3>1, <3>2, <3>5, <3>8, <3>9
      DEF CallIsOrderly, ProgressFits, ReportFits, Loop
  <2> QED
    BY <2>1, <2>2, <2>3
<1> QED
  BY <1>5, <1>6, <1>7

\* Every step keeps the second invariant.
LEMMA ReportsStayOrderly ==
    RunsAreOrderly /\ ReportsAreOrderly /\ [Next]_vars => ReportsAreOrderly'
<1>1. SUFFICES ASSUME RunsAreOrderly, ReportsAreOrderly, [Next]_vars
               PROVE  ReportsAreOrderly'
  OBVIOUS
<1>2. CASE Next
  <2>1. PICK c \in Calls :
           \/ Refuse(c) \/ Work(c) \/ LoseConnection(c) \/ Die(c)
           \/ \E p \in Providers, S \in SUBSET Symbols : Start(c, p, S)
    BY <1>2 DEF Next
  <2>2. PICK p \in Providers, S \in SUBSET Symbols :
           Refuse(c) \/ Start(c, p, S) \/ Work(c) \/ LoseConnection(c) \/ Die(c)
    BY <2>1, ProvidersExist
  <2>3. TypeOK /\ CallIsOrderly(c)
    BY <1>1 DEF RunsAreOrderly, ReportsAreOrderly
  <2>4. CallIsOrderly(c)'
    <3>1. CASE Refuse(c) \/ Start(c, p, S) \/ TryLock(c) \/ CreateRun(c) \/ OpenSource(c)
      BY <1>1, <2>3, <3>1, BeginnersStayOrderly
    <3>2. CASE NextSymbol(c) \/ Attempt(c) \/ SaveFailed(c) \/ CompleteRun(c)
      BY <1>1, <2>3, <3>2, ChoosingStaysOrderly, AttemptStaysOrderly, FailuresStayOrderly,
         ClosingStaysOrderly
    <3>3. CASE Unlock(c) \/ Die(c)
      <4>1. /\ UNCHANGED <<tables, job, requests>>
            /\ pc' = [pc EXCEPT ![c] = "ended"]
            /\ \/ exitCode' = exitCode
               \/ \E code \in {"none", "all_failed"} : exitCode' = [exitCode EXCEPT ![c] = code]
        BY <3>3 DEF Unlock, Die, Leave, Goto
      <4>2. pc'[c] = "ended" /\ exitCode'[c] \in {"none", "all_failed", exitCode[c]}
        BY <2>3, <4>1 DEF TypeOK
      <4>3. ItemsOf(c)' = ItemsOf(c) /\ runs' = runs /\ job' = job /\ requests' = requests
        BY <4>1 DEF tables, ItemsOf
      <4> QED
        BY <2>3, <4>2, <4>3, LeaversStayOrderly
    <3>4. CASE LoseConnection(c)
      <4>1. /\ items' = items /\ runs' = runs /\ pc' = pc /\ job' = job /\ failures' = failures
            /\ outcomes' = outcomes /\ requests' = requests /\ exitCode' = exitCode
        BY <3>4 DEF LoseConnection, tables, process
      <4>2. ItemsOf(c)' = ItemsOf(c)
        BY <4>1 DEF ItemsOf
      <4> QED
        BY <2>3, <4>1, <4>2, UntouchedStayOrderly
    <3> QED
      BY <2>2, <3>1, <3>2, <3>3, <3>4 DEF Work
  <2>5. ASSUME NEW d \in Calls, d # c PROVE CallIsOrderly(d)'
    <3>1. CallIsOrderly(d)
      BY <1>1 DEF ReportsAreOrderly
    <3> QED
      BY <2>2, <2>3, <2>5, <3>1, OthersStayOrderly
  <2> QED
    BY <2>4, <2>5 DEF ReportsAreOrderly
<1>3. CASE UNCHANGED vars
  <2>1. /\ items' = items /\ runs' = runs /\ pc' = pc /\ job' = job /\ failures' = failures
        /\ outcomes' = outcomes /\ requests' = requests /\ exitCode' = exitCode
    BY <1>3 DEF vars, tables, process
  <2>2. ASSUME NEW d \in Calls PROVE CallIsOrderly(d)'
    <3>1. CallIsOrderly(d) /\ ItemsOf(d)' = ItemsOf(d)
      BY <1>1, <2>1 DEF ReportsAreOrderly, ItemsOf
    <3> QED
      BY <2>1, <3>1, UntouchedStayOrderly
  <2> QED
    BY <2>2 DEF ReportsAreOrderly
<1> QED
  BY <1>1, <1>2, <1>3

\* Before any call has started there is nothing to report.
LEMMA InitReportsAreOrderly == Init => ReportsAreOrderly
<1> SUFFICES ASSUME Init, NEW c \in Calls PROVE CallIsOrderly(c)
  BY DEF ReportsAreOrderly
<1>1. /\ pc[c] = "ready" /\ runs[c] = NoRun /\ items = {} /\ outcomes[c] = {}
      /\ failures[c] = 0 /\ exitCode[c] = "none" /\ job[c] = NoJob
  BY DEF Init
<1>2. ProgressFits(c) /\ FailuresFit(c)
  BY <1>1 DEF ProgressFits, FailuresFit, Loop
<1>3. ReportFits(c) /\ CircuitFits(c)
  BY <1>1 DEF ReportFits, CircuitFits, NoJob
<1> QED
  BY <1>2, <1>3 DEF CallIsOrderly

\* The second invariant holds of every behavior.
THEOREM ReportOrder == Spec => []ReportsAreOrderly
  BY InitReportsAreOrderly, ReportsStayOrderly, RunOrder, PTL DEF Spec

\* A closed run counts its items, and the exit codes for success, partial
\* failure and a conflict agree with the run.
THEOREM TruthOfReports == Spec => []ReportsAgree
<1>1. ReportsAreOrderly => ReportsAgree
  BY DEF ReportsAreOrderly, CallIsOrderly, ReportFits, ReportsAgree
<1> QED
  BY <1>1, ReportOrder, PTL

\* After FailureThreshold failed symbols in a row the provider is not asked for
\* the next one, and no symbol is failed unasked for another reason.
THEOREM CircuitProtection == Spec => []CircuitProtectsProvider
<1>1. ReportsAreOrderly => CircuitProtectsProvider
  BY DEF ReportsAreOrderly, CallIsOrderly, CircuitFits, CircuitProtectsProvider
<1> QED
  BY <1>1, ReportOrder, PTL
=============================================================================
