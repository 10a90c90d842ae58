----------------------------- MODULE TrialResults ------------------------------
(***************************************************************************)
(* What becomes of a trial's attempts: the repair loop as the strategies   *)
(* see it, the row result_from_repair makes of it (reason, provider        *)
(* failure, domain), the circuit breaker, and the metrics, the paired      *)
(* analysis and the case table computed from the rows.                     *)
(***************************************************************************)
EXTENDS Naturals, Sequences, FiniteSets, FiniteSetsExt, SequencesExt

CONSTANTS
    Trials,        \* the schedule: a sequence of [case, type, trial, strategy]
    Budget,        \* maximum_provider_calls of each strategy
    Providers,     \* bound: what a provider call may return
    Diagnoses,     \* bound: what a trial's planning may find
    MaxResumes     \* bound: how often the run is interrupted and resumed

AllTypes == {"direct", "transitive"}

\* A suite has a case, its cases, strategies and trials are unique, and every
\* case has one of the two types (BenchmarkSuite.__post_init__).
ASSUME ScheduleAssumption ==
    /\ Len(Trials) \in Nat \ {0} /\ DOMAIN Trials = 1..Len(Trials)
    /\ \A i \in DOMAIN Trials : Trials[i].type \in AllTypes
    /\ \A i, j \in DOMAIN Trials :
          /\ Trials[i].case = Trials[j].case /\ Trials[i].trial = Trials[j].trial
          /\ Trials[i].strategy = Trials[j].strategy
          => i = j

ASSUME BudgetAssumption == \A i \in DOMAIN Trials : Budget[Trials[i].strategy] \in Nat \ {0}

\* What a provider call reports, and the kinds of failure its output mentions.
ASSUME ProviderAssumption ==
    Providers \subseteq [status : {"SUCCESS", "UNAVAILABLE", "TIMEOUT", "ERROR"},
                         says : SUBSET {"quota", "auth", "service", "exit"}]

ASSUME ResumesAssumption == MaxResumes \in Nat

FailureReason ==
    {"PROVIDER_FAILED", "NO_PATCH", "COMPILE_FAILED", "TEST_FAILED", "DEPENDENCY_GUARD",
     "TEST_INTEGRITY_VIOLATION", "PATCH_SCOPE_REVIEW", "PLAN_NOT_ACTIONABLE",
     "MAX_ATTEMPTS_EXHAUSTED", "INFRASTRUCTURE_ERROR"}
FailureDomain ==
    {"REPAIR", "VERIFICATION", "PROVIDER", "INFRASTRUCTURE", "CASE_VALIDATION"}
ProviderFailureKind ==
    {"PROVIDER_UNAVAILABLE", "PROVIDER_QUOTA_EXHAUSTED", "PROVIDER_AUTH_FAILURE",
     "PROVIDER_SERVICE_UNAVAILABLE", "PROVIDER_TIMEOUT", "PROVIDER_NONZERO_EXIT",
     "PROVIDER_UNKNOWN_ERROR"}
None == "none"

-----------------------------------------------------------------------------
(* failures.py                                                             *)

\* says: the kinds of failure the provider's summary and output mention.  The
\* first of quota, authentication, service and exit code decides.
ClassifyProviderFailure(provider) ==
    CASE provider.status = "SUCCESS"     -> None
      [] provider.status = "UNAVAILABLE" -> "PROVIDER_UNAVAILABLE"
      [] provider.status = "TIMEOUT"     -> "PROVIDER_TIMEOUT"
      [] OTHER -> IF "quota" \in provider.says THEN "PROVIDER_QUOTA_EXHAUSTED"
                  ELSE IF "auth" \in provider.says THEN "PROVIDER_AUTH_FAILURE"
                  ELSE IF "service" \in provider.says THEN "PROVIDER_SERVICE_UNAVAILABLE"
                  ELSE IF "exit" \in provider.says THEN "PROVIDER_NONZERO_EXIT"
                  ELSE "PROVIDER_UNKNOWN_ERROR"

GlobalProviderFailures ==
    {"PROVIDER_UNAVAILABLE", "PROVIDER_QUOTA_EXHAUSTED", "PROVIDER_AUTH_FAILURE",
     "PROVIDER_SERVICE_UNAVAILABLE"}

\* The last failed provider call of the trial, whatever came after it.
RepairProviderFailure(attempts) ==
    LET failed == {i \in DOMAIN attempts : ClassifyProviderFailure(attempts[i].provider) # None}
    IN  IF failed = {} THEN None
        ELSE ClassifyProviderFailure(attempts[Max(failed)].provider)

\* _failure_reason
FailureReasonOf(status, attempts) ==
    IF status = "VERIFIED_MIGRATION" THEN None
    ELSE IF status = "NEEDS_HUMAN_REVIEW" THEN "PATCH_SCOPE_REVIEW"
    ELSE IF attempts = <<>> THEN "PLAN_NOT_ACTIONABLE"
    ELSE LET last == Last(attempts).status
         IN CASE last \in {"PROVIDER_ERROR", "TIMEOUT"} -> "PROVIDER_FAILED"
              [] last = "NO_CHANGES"          -> "NO_PATCH"
              [] last = "COMPILE_FAILED"      -> "COMPILE_FAILED"
              [] last = "TEST_FAILED"         -> "TEST_FAILED"
              [] last = "PATCH_REJECTED"      -> "DEPENDENCY_GUARD"
              [] last = "VERIFICATION_FAILED" -> "TEST_INTEGRITY_VIOLATION"
              [] last = "EXECUTION_ERROR"     -> "INFRASTRUCTURE_ERROR"
              [] OTHER                        -> "MAX_ATTEMPTS_EXHAUSTED"

VerificationReasons == {"DEPENDENCY_GUARD", "TEST_INTEGRITY_VIOLATION", "PATCH_SCOPE_REVIEW"}

\* A mutant: a provider failure on the way costs a verified trial its success.
FailureDomainProviderFirst(status, attempts, reason, failure) ==
    IF failure # None THEN "PROVIDER"
    ELSE IF status = "VERIFIED_MIGRATION" THEN None
    ELSE "REPAIR"

FailureDomainOf(status, attempts, reason, failure) ==
    IF status = "VERIFIED_MIGRATION" THEN None
    ELSE IF failure # None THEN "PROVIDER"
    ELSE IF reason = "INFRASTRUCTURE_ERROR" THEN "INFRASTRUCTURE"
    ELSE IF reason \in VerificationReasons THEN "VERIFICATION"
    ELSE IF attempts # <<>> /\ Last(attempts).status = "EXECUTION_ERROR" THEN "INFRASTRUCTURE"
    ELSE "REPAIR"

-----------------------------------------------------------------------------
(* The attempts of a trial: RepairEngine in full.                          *)

\* What one attempt may come to, given what its provider call returned.
AttemptStatuses(provider) ==
    CASE provider.status = "SUCCESS" ->
            {"NO_CHANGES", "PATCH_REJECTED", "COMPILE_FAILED", "TEST_FAILED", "TIMEOUT",
             "EXECUTION_ERROR", "VERIFIED", "VERIFICATION_FAILED", "NEEDS_HUMAN_REVIEW"}
      [] provider.status = "TIMEOUT" -> {"TIMEOUT"}
      [] OTHER -> {"PROVIDER_ERROR"}

\* The engine's loop ends with this attempt.  An attempt whose patch needs a
\* human has the status VERIFICATION_FAILED and that verification.
Stops(attempt) ==
    \/ attempt.status \in {"VERIFIED", "PATCH_REJECTED", "EXECUTION_ERROR"}
    \/ attempt.verification = "NEEDS_HUMAN_REVIEW"
    \/ attempt.provider.status = "UNAVAILABLE"

Attempt(provider, outcome) ==
    [status |-> IF outcome = "NEEDS_HUMAN_REVIEW" THEN "VERIFICATION_FAILED" ELSE outcome,
     provider |-> provider,
     verification |->
        CASE outcome = "VERIFIED" -> "VERIFIED_MIGRATION"
          [] outcome \in {"VERIFICATION_FAILED", "NEEDS_HUMAN_REVIEW"} -> outcome
          [] OTHER -> None]

MigrationStatus(attempts) ==
    IF attempts = <<>> THEN "NEEDS_HUMAN_REVIEW"
    ELSE IF Last(attempts).status = "VERIFIED" THEN "VERIFIED_MIGRATION"
    ELSE IF Last(attempts).verification = "NEEDS_HUMAN_REVIEW" THEN "NEEDS_HUMAN_REVIEW"
    ELSE "UNRESOLVED"

\* DirectBaselinePlanning.plan looks only at the primary failure; the other
\* strategy needs a plan that is ready.
PlanReady(strategy, diagnosis) ==
    IF strategy = "bumpshield" THEN diagnosis.hypothesis # "none" /\ diagnosis.ready
                               ELSE diagnosis.localized

-----------------------------------------------------------------------------
VARIABLES
    next,       \* the schedule entry at hand
    phase,      \* "validate", "plan", "repair", "finish", or "report"
    diagnosis,  \* what the trial's planning found
    attempts,   \* the trial's attempts so far
    rows,       \* entry -> its row
    cache,      \* per case: what this process found out about it
    validation, \* per case: its validation.json
    resumes

vars == <<next, phase, diagnosis, attempts, rows, cache, validation, resumes>>

Entry == Trials[next]
Words == {"quota", "auth", "service", "exit", "unavailable", "timeout"}
OutageWords == {"quota", "auth", "service", "unavailable"}
Cases == {Trials[i].case : i \in DOMAIN Trials}
Undiagnosed == [hypothesis |-> "none", ready |-> FALSE, localized |-> FALSE]

Row ==
    [valid : BOOLEAN,
     status : {"VERIFIED_MIGRATION", "UNRESOLVED", "NEEDS_HUMAN_REVIEW", "INVALID_CASE",
               "EXECUTION_ERROR"},
     reason : FailureReason \union {None},
     domain : FailureDomain \union {None},
     failure : ProviderFailureKind \union {None},
     calls : Nat,
     correct : {"yes", "no", "unlabeled"},
     \* what the properties compare the row with:
     seen : [ran : BOOLEAN,                    \* the last attempt got to Maven's build
             evidence : SUBSET Words,          \* why provider calls of the trial failed
             lastEvidence : SUBSET Words]]     \* why the last of them did

Made ==
    [status : {"NO_CHANGES", "PATCH_REJECTED", "COMPILE_FAILED", "TEST_FAILED", "TIMEOUT",
               "EXECUTION_ERROR", "VERIFIED", "VERIFICATION_FAILED", "PROVIDER_ERROR"},
     provider : Providers,
     verification : {"VERIFIED_MIGRATION", "VERIFICATION_FAILED", "NEEDS_HUMAN_REVIEW", None}]

TypeOK ==
    /\ next \in 1..(Len(Trials) + 1)
    /\ phase \in {"validate", "plan", "repair", "report"}
    /\ diagnosis \in Diagnoses \union {Undiagnosed}
    /\ attempts \in Seq(Made)
    /\ Len(attempts) <= IF next > Len(Trials) THEN 0 ELSE Budget[Entry.strategy]
    /\ {cache, validation} \subseteq [Cases -> {"UNKNOWN", "VALID", "INVALID_CASE"}]
    /\ resumes \in 0..MaxResumes
    /\ rows \in Seq(Row)

Init ==
    /\ next = 1 /\ phase = "validate"
    /\ diagnosis = Undiagnosed /\ attempts = <<>>
    /\ rows = <<>>
    /\ cache = [c \in Cases |-> "UNKNOWN"] /\ validation = cache /\ resumes = 0

\* A mutant: every provider failure pauses the run.
KeepUnlessFailed(row) ==
    /\ rows' = Append(rows, row)
    /\ next' = next + 1
    /\ phase' = IF row.failure # None \/ next = Len(Trials) THEN "report" ELSE "validate"
    /\ diagnosis' = Undiagnosed /\ attempts' = <<>>

\* The row is kept and the circuit breaker looks at it.
Keep(row) ==
    /\ rows' = Append(rows, row)
    /\ next' = next + 1
    /\ phase' = IF row.failure \in GlobalProviderFailures \/ next = Len(Trials)
                THEN "report" ELSE "validate"
    /\ diagnosis' = Undiagnosed /\ attempts' = <<>>

NothingRan == [ran |-> FALSE, evidence |-> {}, lastEvidence |-> {}]

\* A process validates a case when it first needs it.
Validate(verdict) ==
    /\ phase = "validate"
    /\ cache[Entry.case] \in {"UNKNOWN", verdict}
    /\ cache' = [cache EXCEPT ![Entry.case] = verdict]
    /\ validation' = [validation EXCEPT ![Entry.case] = verdict]
    /\ UNCHANGED resumes

validations == <<cache, validation, resumes>>

InvalidCase ==
    /\ Validate("INVALID_CASE")
    /\ Keep([valid |-> FALSE, status |-> "INVALID_CASE", reason |-> "INFRASTRUCTURE_ERROR",
             domain |-> "CASE_VALIDATION", failure |-> None, calls |-> 0,
             correct |-> "unlabeled", seen |-> NothingRan])

ValidCase ==
    /\ Validate("VALID")
    /\ phase' = "plan"
    /\ UNCHANGED <<next, diagnosis, attempts, rows>>

\* strategy.run raised.
ExecutionError ==
    /\ phase \in {"plan", "repair"} /\ UNCHANGED validations
    /\ Keep([valid |-> TRUE, status |-> "EXECUTION_ERROR", reason |-> "INFRASTRUCTURE_ERROR",
             domain |-> "INFRASTRUCTURE", failure |-> None, calls |-> 0,
             correct |-> "unlabeled", seen |-> NothingRan])

Plan ==
    /\ phase = "plan"
    /\ diagnosis' \in Diagnoses
    /\ phase' = "repair"
    /\ UNCHANGED <<next, attempts, rows, validations>>

Repairing ==
    /\ PlanReady(Entry.strategy, diagnosis)
    /\ Len(attempts) < Budget[Entry.strategy]
    /\ attempts # <<>> => ~Stops(Last(attempts))

TryRepair ==
    /\ phase = "repair" /\ Repairing
    /\ \E p \in Providers : \E outcome \in AttemptStatuses(p) :
        attempts' = Append(attempts, Attempt(p, outcome))
    /\ UNCHANGED <<next, phase, diagnosis, rows, validations>>

\* Only the strategy that diagnoses is compared with the labels.
RootCorrect ==
    IF Entry.strategy # "bumpshield" THEN "unlabeled"
    ELSE IF diagnosis.hypothesis = "right" THEN "yes" ELSE "no"

Evidence(provider) ==
    CASE provider.status = "SUCCESS"     -> {}
      [] provider.status = "UNAVAILABLE" -> {"unavailable"}
      [] provider.status = "TIMEOUT"     -> {"timeout"}
      [] OTHER                           -> provider.says

WhatRan ==
    LET failed == {i \in DOMAIN attempts : attempts[i].provider.status # "SUCCESS"}
    IN [ran |-> attempts # <<>> /\ Last(attempts).status \in
                   {"COMPILE_FAILED", "TEST_FAILED", "VERIFIED", "VERIFICATION_FAILED"},
        evidence |-> UNION {Evidence(attempts[i].provider) : i \in failed},
        lastEvidence |-> IF failed = {} THEN {} ELSE Evidence(attempts[Max(failed)].provider)]

\* result_from_repair
Finish ==
    /\ phase = "repair" /\ ~Repairing /\ UNCHANGED validations
    /\ LET status == MigrationStatus(attempts)
           reason == FailureReasonOf(status, attempts)
           failure == RepairProviderFailure(attempts)
       IN Keep([valid |-> TRUE, status |-> status, reason |-> reason,
                domain |-> FailureDomainOf(status, attempts, reason, failure),
                failure |-> failure, calls |-> Len(attempts), correct |-> RootCorrect,
                seen |-> WhatRan])

\* The run is interrupted and resumed: what is on disk stays, the process does
\* not; a pause ends when the outage does.
Resume ==
    /\ resumes < MaxResumes /\ rows # <<>> /\ next <= Len(Trials)
    /\ resumes' = resumes + 1
    /\ phase' = "validate" /\ diagnosis' = Undiagnosed /\ attempts' = <<>>
    /\ cache' = [c \in Cases |-> "UNKNOWN"]
    /\ UNCHANGED <<next, rows, validation>>

Next == Resume \/ InvalidCase \/ ValidCase \/ ExecutionError \/ Plan \/ TryRepair \/ Finish
Spec == Init /\ [][Next]_vars

-----------------------------------------------------------------------------
(* metrics.py and final_report.py: what is computed from the rows.         *)

Strategies == {Trials[i].strategy : i \in DOMAIN Trials}
\* _failure_domain: a row that has no domain gets one from its reason.
Domain(row) ==
    IF row.domain # None THEN row.domain
    ELSE IF row.reason = "PROVIDER_FAILED" THEN "PROVIDER"
    ELSE IF row.reason = "INFRASTRUCTURE_ERROR" THEN "INFRASTRUCTURE"
    ELSE IF row.reason \in VerificationReasons THEN "VERIFICATION"
    ELSE IF row.status = "VERIFIED_MIGRATION" \/ row.reason = None THEN None
    ELSE "REPAIR"

Verified(i) == rows[i].status = "VERIFIED_MIGRATION"

\* _strategy_metrics of the rows whose case has one of the types.
Metrics(strategy, types) ==
    LET selected == {i \in DOMAIN rows :
                        rows[i].valid /\ Trials[i].strategy = strategy /\ Trials[i].type \in types}
        Of(domain) == {i \in selected : Domain(rows[i]) = domain}
        available == selected \ (Of("PROVIDER") \union Of("INFRASTRUCTURE"))
    IN [attempted    |-> Cardinality(selected),
        verified     |-> Cardinality({i \in selected : Verified(i)}),
        available    |-> Cardinality(available),
        availableVerified |-> Cardinality({i \in available : Verified(i)}),
        provider     |-> Cardinality(Of("PROVIDER")),
        infrastructure |-> Cardinality(Of("INFRASTRUCTURE")),
        repair       |-> Cardinality(Of("REPAIR")),
        verification |-> Cardinality(Of("VERIFICATION")),
        calls        |-> Cardinality(UNION {{i} \X (1..rows[i].calls) : i \in selected})]

\* A mutant: the pairs are formed by trial number, whatever the case.
PairByTrial(left, right, types) ==
    LET Of(strategy) == {i \in DOMAIN rows : rows[i].valid /\ Trials[i].strategy = strategy
                                               /\ Trials[i].type \in types}
        pairs == {p \in Of(left) \X Of(right) : Trials[p[1]].trial = Trials[p[2]].trial}
        Count(a, b) == Cardinality({p \in pairs : Verified(p[1]) = a /\ Verified(p[2]) = b})
    IN [both |-> Count(TRUE, TRUE), left |-> Count(TRUE, FALSE),
        right |-> Count(FALSE, TRUE), neither |-> Count(FALSE, FALSE),
        comparable |-> Cardinality(pairs)]

\* _pair: trials of one case that both strategies ran.
Pair(left, right, types) ==
    LET Of(strategy) == {i \in DOMAIN rows : rows[i].valid /\ Trials[i].strategy = strategy
                                               /\ Trials[i].type \in types}
        pairs == {p \in Of(left) \X Of(right) :
                    Trials[p[1]].case = Trials[p[2]].case /\ Trials[p[1]].trial = Trials[p[2]].trial}
        Count(a, b) == Cardinality({p \in pairs : Verified(p[1]) = a /\ Verified(p[2]) = b})
    IN [both |-> Count(TRUE, TRUE), left |-> Count(TRUE, FALSE),
        right |-> Count(FALSE, TRUE), neither |-> Count(FALSE, FALSE),
        comparable |-> Cardinality(pairs)]

-----------------------------------------------------------------------------
(* Properties.                                                             *)

\* Every valid trial is counted once, as verified or under one failure domain,
\* in the overall figures and in exactly one of the two case types; and the
\* secondary rate leaves out failures only, never a verified trial
\* (_strategy_metrics).
EachTrialCountsOnce ==
    phase = "report" => \A s \in Strategies :
        LET all == Metrics(s, AllTypes)
            direct == Metrics(s, {"direct"})
            transitive == Metrics(s, {"transitive"})
        IN /\ all.attempted = all.verified + all.provider + all.infrastructure
                                + all.repair + all.verification
           /\ all.availableVerified = all.verified
           /\ all.attempted = direct.attempted + transitive.attempted
           /\ all.verified = direct.verified + transitive.verified

\* The trials a strategy has a valid row of.
Ran(strategy) ==
    {<<Trials[i].case, Trials[i].trial>> :
        i \in {j \in DOMAIN rows : rows[j].valid /\ Trials[j].strategy = strategy}}

\* The paired outcomes of BumpShield and another strategy add up to each one's
\* own figures when both ran the same trials (paired_analysis).
PairsAgreeWithTotals ==
    phase = "report" => \A other \in Strategies \ {"bumpshield"} :
        LET pair == Pair("bumpshield", other, AllTypes)
            left == Metrics("bumpshield", AllTypes)
            right == Metrics(other, AllTypes)
        IN Ran("bumpshield") = Ran(other) =>
            /\ pair.comparable = left.attempted
            /\ pair.both + pair.left = left.verified
            /\ pair.both + pair.right = right.verified
            /\ pair.both + pair.left + pair.right + pair.neither = pair.comparable

\* The circuit breaker opens for an outage only, and does open when the trial's
\* last failed call was one: no trial is executed after that.
BreakerFollowsLastFailure ==
    /\ phase = "report" /\ next <= Len(Trials) =>
            Last(rows).seen.evidence \intersect OutageWords # {}
    /\ \A i \in DOMAIN rows :
            rows[i].seen.lastEvidence \intersect OutageWords # {} =>
                resumes > 0 \/ (i = Len(rows) /\ phase = "report")

\* docs/evaluation-protocol.md:92: quota, authentication, unavailable
\* executable or service evidence pauses the benchmark.
OutageEvidencePauses ==
    \A i \in DOMAIN rows :
        rows[i].seen.evidence \intersect OutageWords # {} =>
            resumes > 0 \/ (i = Len(rows) /\ phase = "report")

\* docs/evaluation-protocol.md:67: the denominator of the secondary rate is the
\* trials where provider and execution infrastructure ran.
AvailableIfEverythingRan ==
    \A i \in DOMAIN rows :
        rows[i].valid /\ rows[i].seen.ran => Domain(rows[i]) \notin {"PROVIDER", "INFRASTRUCTURE"}

\* evaluation/failures.py:55 and docs/evaluation-protocol.md:88: provider
\* failures are classified conservatively, from explicit evidence.
ProviderFailedMeansProvider ==
    \A i \in DOMAIN rows :
        rows[i].reason = "PROVIDER_FAILED" => rows[i].failure # None

\* docs/evaluation-protocol.md:47: invalid cases are explicit and excluded from
\* repair-rate denominators.
InvalidCasesAreExcluded ==
    \A i \in DOMAIN rows :
        validation[Trials[i].case] = "INVALID_CASE" => ~rows[i].valid
=============================================================================
