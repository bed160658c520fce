--------------------------- MODULE IngestionRunner ---------------------------
(***************************************************************************)
(* Calls of the ingestion command line (cli.py, ingestion_runner.py): each *)
(* call is a process that takes the advisory lock of its provider, records *)
(* a run, refreshes its symbols one after the other and closes the run.    *)
(* Every database transaction and every provider request is a step.  It    *)
(* may fail, a commit may take effect and its answer be lost, a process    *)
(* may die, and the connection that holds the lock may break.              *)
(***************************************************************************)
EXTENDS Integers, FiniteSets

CONSTANTS
    Calls,             \* invocations of the command; a call has one run at most
    Providers,
    Symbols,           \* in the order in which a run sorts them
    MaxAttempts,       \* refreshes of a symbol in one run
    FailureThreshold,  \* failed symbols in a row that open the circuit
    Nobody             \* holds no lock

ASSUME SymbolsAreSorted == Symbols \subseteq Nat /\ IsFiniteSet(Symbols)

ASSUME LimitsArePositive ==
    MaxAttempts \in Nat \ {0} /\ FailureThreshold \in Nat \ {0}

\* The provider registry is never empty.
ASSUME ProvidersExist == Providers # {}

ASSUME NobodyIsNoCall == Nobody \notin Calls

VARIABLES
    (* PostgreSQL *)
    runs,       \* ingestion_runs: [Calls -> Run or NoRun]
    items,      \* ingestion_run_items: set of Item
    refreshed,  \* <<c, s>>: call c has committed market data of symbol s
    holder,     \* advisory lock: [Providers -> Calls or Nobody]
    (* the process of a call *)
    pc,
    job,        \* its provider and symbols
    connected,  \* is the connection of its lock session alive?
    attempt,    \* number of the attempt at the current symbol
    failures,   \* symbols that failed since the last success
    outcomes,   \* <<s, succeeded>> of the symbols done
    requests,   \* attempts made at each symbol, counted for the properties
    exitCode

tables  == <<runs, items, refreshed>>
lock    == <<holder, connected>>
process == <<pc, job, attempt, failures, outcomes, requests, exitCode>>
vars    == <<tables, lock, process>>

RunStatus == {"running", "succeeded", "partial", "failed"}
ExitCode  == {"success", "partial_failure", "configuration_error",
              "run_conflict", "all_failed"}

Run  == [status : RunStatus, requested : Nat, succeeded : Nat, failed : Nat]
Item == [call : Calls, symbol : Symbols, status : {"succeeded", "failed"}]

NoRun == [status |-> "none"]
NoJob == [provider |-> "none", symbols |-> {}]

Init ==
    /\ runs = [c \in Calls |-> NoRun]
    /\ items = {}
    /\ refreshed = {}
    /\ holder = [p \in Providers |-> Nobody]
    /\ pc = [c \in Calls |-> "ready"]
    /\ job = [c \in Calls |-> NoJob]
    /\ connected = [c \in Calls |-> FALSE]
    /\ attempt = [c \in Calls |-> 0]
    /\ failures = [c \in Calls |-> 0]
    /\ outcomes = [c \in Calls |-> {}]
    /\ requests = [c \in Calls |-> [s \in Symbols |-> 0]]
    /\ exitCode = [c \in Calls |-> "none"]

-----------------------------------------------------------------------------

Goto(c, label) == pc' = [pc EXCEPT ![c] = label]

\* The code the process will exit with once the lock session is closed.
Leave(c, label, code) == Goto(c, label) /\ exitCode' = [exitCode EXCEPT ![c] = code]

\* An exception leaves run(); main maps a ValueError to configuration_error and
\* any other exception to all_failed.
Raise(c) == Leave(c, "unlock", "all_failed")

Settled(c) == {o[1] : o \in outcomes[c]}

Remaining(c) == job[c].symbols \ Settled(c)

IsNext(c, s) == s \in Remaining(c) /\ \A x \in Remaining(c) : s <= x

\* Mutant: an item is added without regard to the symbol's other items.
NoUniqueItems(c, s) == FALSE

\* ingestion_run_item_identity makes a second item of a symbol fail.
HasItem(c, s) == \E i \in items : i.call = c /\ i.symbol = s

ItemOf(c, s, status) == [call |-> c, symbol |-> s, status |-> status]

-----------------------------------------------------------------------------

\* A symbol that is none, or an unknown provider: nothing is recorded.
Refuse(c) ==
    /\ pc[c] = "ready"
    /\ Leave(c, "ended", "configuration_error")
    /\ UNCHANGED <<tables, lock, job, attempt, failures, outcomes, requests>>

\* run_symbol has one symbol, run_active those of monitored theses, perhaps none.
Start(c, p, S) ==
    /\ pc[c] = "ready"
    /\ job' = [job EXCEPT ![c] = [provider |-> p, symbols |-> S]]
    /\ Goto(c, "try_lock")
    /\ UNCHANGED <<tables, lock, attempt, failures, outcomes, requests, exitCode>>

\* Mutant: the call goes on whether or not it got the lock.
LockIgnored(p) == TRUE

LockIsFree(p) == holder[p] = Nobody

\* pg_try_advisory_lock on the connection that lock_session keeps until the end.
TryLock(c) ==
    LET p == job[c].provider IN
    /\ pc[c] = "try_lock"
    /\ \/ /\ LockIsFree(p)
          /\ holder' = [holder EXCEPT ![p] = c]
          /\ connected' = [connected EXCEPT ![c] = TRUE]
          /\ Goto(c, "create_run")
          /\ UNCHANGED exitCode
       \/ ~LockIsFree(p) /\ Leave(c, "ended", "run_conflict") /\ UNCHANGED lock
       \/ Leave(c, "ended", "all_failed") /\ UNCHANGED lock
    /\ UNCHANGED <<tables, job, attempt, failures, outcomes, requests>>

CreateRun(c) ==
    LET row == [status    |-> "running",
                requested |-> Cardinality(job[c].symbols),
                succeeded |-> 0,
                failed    |-> 0]
    IN  /\ pc[c] = "create_run"
        /\ \/ /\ runs' = [runs EXCEPT ![c] = row]
              /\ Goto(c, IF job[c].symbols = {} THEN "complete_run" ELSE "open_source")
              /\ UNCHANGED exitCode
           \/ Raise(c) /\ runs' \in {runs, [runs EXCEPT ![c] = row]}
        /\ UNCHANGED <<items, refreshed, lock, job, attempt, failures, outcomes, requests>>

\* create_data_source; a provider without its key is a configuration error.
OpenSource(c) ==
    /\ pc[c] = "open_source"
    /\ \/ Goto(c, "next_symbol") /\ UNCHANGED exitCode
       \/ Leave(c, "unlock", "configuration_error")
       \/ Raise(c)
    /\ UNCHANGED <<tables, lock, job, attempt, failures, outcomes, requests>>

\* Mutant: the circuit opens one failure late.
LateCircuit(c) == failures[c] > FailureThreshold

CircuitIsOpen(c) == failures[c] >= FailureThreshold

NextSymbol(c) ==
    /\ pc[c] = "next_symbol"
    /\ IF Remaining(c) = {} THEN Goto(c, "complete_run") /\ UNCHANGED attempt
       ELSE IF CircuitIsOpen(c) THEN Goto(c, "save_failed") /\ UNCHANGED attempt
       ELSE Goto(c, "attempt") /\ attempt' = [attempt EXCEPT ![c] = 1]
    /\ UNCHANGED <<tables, lock, job, failures, outcomes, requests, exitCode>>
\* Mutant: one attempt too many.
OneMoreAttempt(c) ==
    IF attempt[c] <= MaxAttempts
    THEN /\ attempt' = [attempt EXCEPT ![c] = @ + 1]
         /\ UNCHANGED <<failures, pc>>
    ELSE /\ failures' = [failures EXCEPT ![c] = @ + 1]
         /\ Goto(c, "save_failed")
         /\ UNCHANGED attempt

\* The next attempt or, after the last one, a failed symbol.
RetryOrGiveUp(c) ==
    IF attempt[c] < MaxAttempts
    THEN /\ attempt' = [attempt EXCEPT ![c] = @ + 1]
         /\ UNCHANGED <<failures, pc>>
    ELSE /\ failures' = [failures EXCEPT ![c] = @ + 1]
         /\ Goto(c, "save_failed")
         /\ UNCHANGED attempt

\* One attempt: the provider is asked, then market data and item are stored in
\* one transaction.  Time-out, provider error, bad data, a second item of the
\* symbol or a database error undo it; so does, for the runner, the lost answer
\* of a commit that took effect.
Attempt(c) ==
    /\ pc[c] = "attempt"
    /\ \E s \in Symbols :
        /\ IsNext(c, s)
        /\ requests' = [requests EXCEPT ![c][s] = @ + 1]
        /\ \/ /\ UNCHANGED <<items, refreshed, outcomes>>
              /\ RetryOrGiveUp(c)
           \/ /\ ~HasItem(c, s)
              /\ items' = items \cup {ItemOf(c, s, "succeeded")}
              /\ refreshed' = refreshed \cup {<<c, s>>}
              /\ \/ /\ failures' = [failures EXCEPT ![c] = 0]
                    /\ outcomes' = [outcomes EXCEPT ![c] = @ \cup {<<s, TRUE>>}]
                    /\ Goto(c, "next_symbol")
                    /\ UNCHANGED attempt
                 \/ RetryOrGiveUp(c) /\ UNCHANGED outcomes
    /\ UNCHANGED <<runs, lock, job, exitCode>>

\* The failed item has a transaction of its own; its failure ends the run.
SaveFailed(c) ==
    /\ pc[c] = "save_failed"
    /\ \E s \in Symbols :
        LET withItem == items \cup {ItemOf(c, s, "failed")} IN
        /\ IsNext(c, s)
        /\ \/ /\ ~HasItem(c, s)
              /\ items' = withItem
              /\ outcomes' = [outcomes EXCEPT ![c] = @ \cup {<<s, FALSE>>}]
              /\ Goto(c, "next_symbol")
              /\ UNCHANGED exitCode
           \/ /\ items' \in {items} \cup (IF HasItem(c, s) THEN {} ELSE {withItem})
              /\ Raise(c)
              /\ UNCHANGED outcomes
    /\ UNCHANGED <<runs, refreshed, lock, job, attempt, failures, requests>>

\* Mutant: every symbol counts, whatever its outcome.
CountAll(c, succeeded) == Cardinality(outcomes[c])

\* sum(item.succeeded for item in outcomes), and the rest.
Count(c, succeeded) == Cardinality({o \in outcomes[c] : o[2] = succeeded})

RunStatusOf(succeeded, failed) ==
    IF failed = 0 THEN "succeeded" ELSE IF succeeded = 0 THEN "failed" ELSE "partial"

ExitCodeOf(succeeded, failed) ==
    IF failed = 0 THEN "success"
    ELSE IF succeeded = 0 THEN "all_failed" ELSE "partial_failure"

CompleteRun(c) ==
    LET succeeded == Count(c, TRUE)
        failed    == Count(c, FALSE)
        closed    == [runs EXCEPT ![c].status = RunStatusOf(succeeded, failed),
                                  ![c].succeeded = succeeded,
                                  ![c].failed = failed]
    IN  /\ pc[c] = "complete_run"
        /\ \/ runs' = closed /\ Leave(c, "unlock", ExitCodeOf(succeeded, failed))
           \/ runs' \in {runs, closed} /\ Raise(c)
        /\ UNCHANGED <<items, refreshed, lock, job, attempt, failures, outcomes, requests>>

\* Mutant: the unlock runs on another connection than the lock did.
KeepLock(c) == connected' = [connected EXCEPT ![c] = FALSE] /\ UNCHANGED holder

Release(c) ==
    /\ holder' = [p \in Providers |-> IF holder[p] = c THEN Nobody ELSE holder[p]]
    /\ connected' = [connected EXCEPT ![c] = FALSE]

\* The finally clause; on a broken connection it raises and that error is the
\* one main sees.
Unlock(c) ==
    /\ pc[c] = "unlock"
    /\ Release(c)
    /\ \/ connected[c] /\ Goto(c, "ended") /\ UNCHANGED exitCode
       \/ Leave(c, "ended", "all_failed")
    /\ UNCHANGED <<tables, job, attempt, failures, outcomes, requests>>

-----------------------------------------------------------------------------
(* What may happen to a process at any point *)

\* PostgreSQL frees the locks of a connection that is gone.
LoseConnection(c) ==
    /\ connected[c]
    /\ Release(c)
    /\ UNCHANGED <<tables, process>>

Die(c) ==
    /\ pc[c] \notin {"ready", "ended"}
    /\ Leave(c, "ended", "none")
    /\ Release(c)
    /\ UNCHANGED <<tables, job, attempt, failures, outcomes, requests>>

Work(c) ==
    \/ TryLock(c) \/ CreateRun(c) \/ OpenSource(c) \/ NextSymbol(c)
    \/ Attempt(c) \/ SaveFailed(c) \/ CompleteRun(c) \/ Unlock(c)

Next ==
    \E c \in Calls :
        \/ Refuse(c)
        \/ \E p \in Providers, S \in SUBSET Symbols : Start(c, p, S)
        \/ Work(c)
        \/ LoseConnection(c)
        \/ Die(c)

Spec == Init /\ [][Next]_vars

\* A running process goes on: attempts are bounded by a time-out, and the
\* database answers or the connection breaks.  Nobody has to start a call.
FairSpec == Spec /\ \A c \in Calls : WF_vars(Work(c))

-----------------------------------------------------------------------------
(* Properties *)

Labels == {"ready", "try_lock", "create_run", "open_source", "next_symbol",
           "attempt", "save_failed", "complete_run", "unlock", "ended"}

\* Every variable has its type; no symbol is attempted more than MaxAttempts
\* times in a run, whatever fails.
TypeOK ==
    /\ runs \in [Calls -> Run \cup {NoRun}]
    /\ items \subseteq Item
    /\ refreshed \subseteq Calls \X Symbols
    /\ holder \in [Providers -> Calls \cup {Nobody}]
    /\ pc \in [Calls -> Labels]
    /\ job \in [Calls -> [provider : Providers, symbols : SUBSET Symbols] \cup {NoJob}]
    /\ connected \in [Calls -> BOOLEAN]
    /\ attempt \in [Calls -> 0 .. MaxAttempts]
    /\ failures \in [Calls -> Nat]
    /\ outcomes \in [Calls -> SUBSET (Symbols \X BOOLEAN)]
    /\ requests \in [Calls -> [Symbols -> 0 .. MaxAttempts]]
    /\ exitCode \in [Calls -> ExitCode \cup {"none"}]

\* Calls of one provider overlap only if the lock connection of one broke:
\* the advisory lock prevents repeated runs (docs/ingestion-operations.md:53).
OneRunPerProvider ==
    \A c, d \in Calls :
        c # d /\ connected[c] /\ connected[d] => job[c].provider # job[d].provider

\* An item tells what the database holds, also when the answer of a commit is
\* lost and the symbol is tried again: a symbol has one item, succeeded if and
\* only if the run has committed its market data (DB-017, DB-018).
ItemsTellTheTruth ==
    /\ \A i, j \in items : i.call = j.call /\ i.symbol = j.symbol => i = j
    /\ \A c \in Calls, s \in Symbols :
          <<c, s>> \in refreshed <=> ItemOf(c, s, "succeeded") \in items

SymbolsWith(c, status) == {s \in Symbols : ItemOf(c, s, status) \in items}

\* A run that is closed sums up its items, and an exit code that reports
\* success, partial failure or a conflict agrees with the run.
ReportsAgree ==
    \A c \in Calls :
        /\ runs[c] # NoRun /\ runs[c].status # "running" =>
              /\ runs[c].succeeded = Cardinality(SymbolsWith(c, "succeeded"))
              /\ runs[c].failed = Cardinality(SymbolsWith(c, "failed"))
              /\ runs[c].requested = runs[c].succeeded + runs[c].failed
        /\ exitCode[c] = "success" => runs[c].status = "succeeded"
        /\ exitCode[c] = "partial_failure" => runs[c].status = "partial"
        /\ exitCode[c] = "run_conflict" => runs[c] = NoRun

\* The FailureThreshold symbols that a run handles just before s, if it has
\* that many.
JustBefore(c, s) ==
    LET before == {x \in job[c].symbols : x < s}
    IN  {x \in before : Cardinality({y \in before : y > x}) < FailureThreshold}

CircuitOpensBefore(c, s) ==
    /\ Cardinality(JustBefore(c, s)) = FailureThreshold
    /\ JustBefore(c, s) \subseteq SymbolsWith(c, "failed")

\* After FailureThreshold failed symbols in a row the provider is not asked
\* again, and no symbol is failed unasked for another reason
\* (docs/ingestion-operations.md:56).
CircuitProtectsProvider ==
    \A c \in Calls : \A s \in job[c].symbols :
        /\ CircuitOpensBefore(c, s) => requests[c][s] = 0
        /\ s \in SymbolsWith(c, "failed") /\ requests[c][s] = 0 => CircuitOpensBefore(c, s)

\* A call that has started ends and leaves no lock behind.
CallsEnd ==
    \A c \in Calls :
        pc[c] # "ready" ~> pc[c] = "ended" /\ \A p \in Providers : holder[p] # c

\* docs/ingestion-operations.md:34: exit code 5 says that all symbols failed or
\* that the task could not be started.
AllFailedMeansNothingStored ==
    \A c \in Calls : pc[c] = "ended" /\ exitCode[c] = "all_failed" =>
        SymbolsWith(c, "succeeded") = {}
=============================================================================
