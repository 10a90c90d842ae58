------------------------- MODULE TrialResultsProofs -------------------------
(***************************************************************************)
(* What the figures of a report are worth, for every schedule, budget and  *)
(* provider: every trial is counted once, paired outcomes add up, and the  *)
(* circuit breaker opens for an outage and for nothing else.               *)
(***************************************************************************)
EXTENDS TrialResults, FiniteSetTheorems, TLAPS

USE DEF None

-----------------------------------------------------------------------------
(* The invariant.                                                          *)

\* The trial's last failed provider call was an outage.
Outage(row) == row.seen.lastEvidence \intersect OutageWords # {}

\* A valid row is a success or falls under exactly one domain.
FiledOnce(row) ==
    row.valid =>
        /\ Domain(row) \in {None, "PROVIDER", "INFRASTRUCTURE", "REPAIR", "VERIFICATION"}
        /\ Domain(row) = None <=> row.status = "VERIFIED_MIGRATION"

\* The failure the circuit breaker looks at is the outage there was.
OutageIsKnown(row) ==
    /\ row.failure \in GlobalProviderFailures <=> Outage(row)
    /\ row.seen.lastEvidence \subseteq row.seen.evidence

FailedCalls(made) == {i \in DOMAIN made : made[i].provider.status # "SUCCESS"}

RowInv ==
    /\ Len(rows) = next - 1
    /\ \A i \in DOMAIN rows : FiledOnce(rows[i]) /\ OutageIsKnown(rows[i])

PhaseInv ==
    /\ phase # "report" => next <= Len(Trials)
    /\ phase = "report" => rows # <<>>
    /\ phase = "report" /\ next <= Len(Trials) =>
            rows[Len(rows)].failure \in GlobalProviderFailures

\* No trial is executed after an outage, in this process.
BreakerInv ==
    \A i \in DOMAIN rows :
        Outage(rows[i]) => resumes > 0 \/ (i = Len(rows) /\ phase = "report")

\* If provider calls of the trial failed, one of them was the last.
LastFailureInv ==
    FailedCalls(attempts) # {} =>
        \E i \in FailedCalls(attempts) : \A j \in FailedCalls(attempts) : i >= j

TrialsInv == TypeOK /\ RowInv /\ PhaseInv /\ BreakerInv /\ LastFailureInv

-----------------------------------------------------------------------------
(* What a row says.                                                        *)

\* An outage is classified as one, and nothing else is.
LEMMA ProviderFailures ==
    ASSUME NEW p \in Providers
    PROVE  /\ ClassifyProviderFailure(p) \in ProviderFailureKind \union {None}
           /\ ClassifyProviderFailure(p) = None <=> p.status = "SUCCESS"
           /\ ClassifyProviderFailure(p) \in GlobalProviderFailures
                 <=> Evidence(p) \intersect OutageWords # {}
           /\ Evidence(p) \in SUBSET Words
  <1> USE DEF ClassifyProviderFailure, ProviderFailureKind, GlobalProviderFailures, Evidence,
              OutageWords, Words
  <1>1. /\ p.status \in {"SUCCESS", "UNAVAILABLE", "TIMEOUT", "ERROR"}
        /\ p.says \in SUBSET {"quota", "auth", "service", "exit"}
    BY ProviderAssumption
  <1>2. CASE p.status = "SUCCESS"
    BY <1>2
  <1>3. CASE p.status = "UNAVAILABLE"
    BY <1>3
  <1>4. CASE p.status = "TIMEOUT"
    BY <1>4
  <1>5. CASE p.status = "ERROR"
    <2>1. /\ ClassifyProviderFailure(p) =
                IF "quota" \in p.says THEN "PROVIDER_QUOTA_EXHAUSTED"
                ELSE IF "auth" \in p.says THEN "PROVIDER_AUTH_FAILURE"
                ELSE IF "service" \in p.says THEN "PROVIDER_SERVICE_UNAVAILABLE"
                ELSE IF "exit" \in p.says THEN "PROVIDER_NONZERO_EXIT"
                ELSE "PROVIDER_UNKNOWN_ERROR"
          /\ Evidence(p) = p.says
      BY <1>5
    <2>2. p.says \intersect OutageWords # {}
             <=> "quota" \in p.says \/ "auth" \in p.says \/ "service" \in p.says
      BY <1>1
    <2>3. QED
      BY <1>1, <1>5, <2>1, <2>2
  <1>6. QED
    BY <1>1, <1>2, <1>3, <1>4, <1>5

\* The row of an invalid case and that of a strategy that raised.
InvalidRow ==
    [valid |-> FALSE, status |-> "INVALID_CASE", reason |-> "INFRASTRUCTURE_ERROR",
     domain |-> "CASE_VALIDATION", failure |-> None, calls |-> 0,
     correct |-> "unlabeled", seen |-> NothingRan]
ErrorRow ==
    [valid |-> TRUE, status |-> "EXECUTION_ERROR", reason |-> "INFRASTRUCTURE_ERROR",
     domain |-> "INFRASTRUCTURE", failure |-> None, calls |-> 0,
     correct |-> "unlabeled", seen |-> NothingRan]

LEMMA PlainRows ==
    /\ InvalidRow \in Row /\ FiledOnce(InvalidRow) /\ OutageIsKnown(InvalidRow)
    /\ ErrorRow \in Row /\ FiledOnce(ErrorRow) /\ OutageIsKnown(ErrorRow)
  <1>1. NothingRan \in [ran : BOOLEAN, evidence : SUBSET Words, lastEvidence : SUBSET Words]
    BY DEF NothingRan
  <1>2. InvalidRow \in Row /\ ErrorRow \in Row
    BY <1>1 DEF InvalidRow, ErrorRow, Row, FailureReason, FailureDomain
  <1>3. FiledOnce(InvalidRow) /\ FiledOnce(ErrorRow)
    BY DEF InvalidRow, ErrorRow, FiledOnce, Domain
  <1>4. OutageIsKnown(InvalidRow) /\ OutageIsKnown(ErrorRow)
    BY DEF InvalidRow, ErrorRow, OutageIsKnown, Outage, NothingRan, GlobalProviderFailures
  <1>5. QED
    BY <1>2, <1>3, <1>4

\* The row result_from_repair makes.
RepairedRow ==
    LET status == MigrationStatus(attempts)
        reason == FailureReasonOf(status, attempts)
        failure == RepairProviderFailure(attempts)
    IN [valid |-> TRUE, status |-> status, reason |-> reason,
        domain |-> FailureDomainOf(status, attempts, reason, failure),
        failure |-> failure, calls |-> Len(attempts), correct |-> RootCorrect,
        seen |-> WhatRan]

\* The last failed call decides the failure and is the last evidence.
LEMMA LastFailure ==
    ASSUME attempts \in Seq(Made), LastFailureInv
    PROVE  /\ RepairProviderFailure(attempts) \in ProviderFailureKind \union {None}
           /\ WhatRan.evidence \in SUBSET Words
           /\ WhatRan.lastEvidence \in SUBSET WhatRan.evidence
           /\ RepairProviderFailure(attempts) \in GlobalProviderFailures
                 <=> WhatRan.lastEvidence \intersect OutageWords # {}
  <1> DEFINE failed == FailedCalls(attempts)
             last == Max(failed)
  <1>1. \A i \in DOMAIN attempts : attempts[i] \in Made
    OBVIOUS
  <1>2. \A i \in DOMAIN attempts : attempts[i].provider \in Providers
    BY <1>1 DEF Made
  <1>3. {i \in DOMAIN attempts : ClassifyProviderFailure(attempts[i].provider) # None} = failed
    BY <1>2, ProviderFailures DEF FailedCalls
  <1>4. RepairProviderFailure(attempts) =
            IF failed = {} THEN None ELSE ClassifyProviderFailure(attempts[last].provider)
    BY <1>3 DEF RepairProviderFailure
  <1>5. /\ WhatRan.evidence = UNION {Evidence(attempts[i].provider) : i \in failed}
        /\ WhatRan.lastEvidence = IF failed = {} THEN {} ELSE Evidence(attempts[last].provider)
    BY DEF WhatRan, FailedCalls
  <1>6. \A i \in failed : Evidence(attempts[i].provider) \in SUBSET Words
    BY <1>2, ProviderFailures DEF FailedCalls
  <1>7. WhatRan.evidence \in SUBSET Words
    BY <1>5, <1>6
  <1>8. CASE failed = {}
    <2>1. RepairProviderFailure(attempts) = None /\ WhatRan.lastEvidence = {}
      BY <1>4, <1>5, <1>8
    <2>2. None \notin GlobalProviderFailures
      BY DEF GlobalProviderFailures
    <2>3. QED
      BY <1>7, <2>1, <2>2
  <1>9. CASE failed # {}
    <2>1. \E i \in failed : \A j \in failed : i >= j
      BY <1>9 DEF LastFailureInv
    <2>2. last \in failed
      BY <2>1 DEF Max
    <2>3. attempts[last].provider \in Providers
      BY <1>2, <2>2 DEF FailedCalls
    <2>4. /\ RepairProviderFailure(attempts) = ClassifyProviderFailure(attempts[last].provider)
          /\ WhatRan.lastEvidence = Evidence(attempts[last].provider)
      BY <1>4, <1>5, <1>9
    <2>5. WhatRan.lastEvidence \in SUBSET WhatRan.evidence
      BY <1>5, <2>2, <2>4
    <2>6. QED
      BY <1>7, <2>3, <2>4, <2>5, ProviderFailures
  <1>10. QED
    BY <1>8, <1>9

LEMMA RepairedRowIsSound ==
    ASSUME attempts \in Seq(Made), LastFailureInv
    PROVE  RepairedRow \in Row /\ FiledOnce(RepairedRow) /\ OutageIsKnown(RepairedRow)
  <1> DEFINE status == MigrationStatus(attempts)
             reason == FailureReasonOf(status, attempts)
             failure == RepairProviderFailure(attempts)
             domain == FailureDomainOf(status, attempts, reason, failure)
  <1>1. status \in {"VERIFIED_MIGRATION", "UNRESOLVED", "NEEDS_HUMAN_REVIEW"}
    BY DEF MigrationStatus
  <1>2. reason \in FailureReason \union {None} /\ (status = "VERIFIED_MIGRATION" => reason = None)
    BY <1>1 DEF FailureReasonOf, FailureReason
  <1>3. /\ status = "VERIFIED_MIGRATION" => domain = None
        /\ status # "VERIFIED_MIGRATION" =>
              domain \in {"PROVIDER", "INFRASTRUCTURE", "REPAIR", "VERIFICATION"}
    BY DEF FailureDomainOf
  <1>4. RootCorrect \in {"yes", "no", "unlabeled"}
    BY DEF RootCorrect
  <1>5. WhatRan \in [ran : BOOLEAN, evidence : SUBSET Words, lastEvidence : SUBSET Words]
    <2>1. WhatRan.evidence \in SUBSET Words /\ WhatRan.lastEvidence \in SUBSET Words
      BY LastFailure
    <2>2. WhatRan = [ran |-> WhatRan.ran, evidence |-> WhatRan.evidence,
                     lastEvidence |-> WhatRan.lastEvidence]
      BY DEF WhatRan
    <2>3. WhatRan.ran \in BOOLEAN
      BY DEF WhatRan
    <2>4. QED
      BY <2>1, <2>2, <2>3
  <1>6. failure \in ProviderFailureKind \union {None} /\ Len(attempts) \in Nat
    BY LastFailure
  <1>7. RepairedRow = [valid |-> TRUE, status |-> status, reason |-> reason, domain |-> domain,
                       failure |-> failure, calls |-> Len(attempts), correct |-> RootCorrect,
                       seen |-> WhatRan]
    BY DEF RepairedRow
  <1> HIDE DEF status, reason, failure, domain
  <1>8. RepairedRow \in Row
    BY <1>1, <1>2, <1>3, <1>4, <1>5, <1>6, <1>7 DEF Row, FailureDomain
  <1>9. FiledOnce(RepairedRow)
    BY <1>2, <1>3, <1>7 DEF FiledOnce, Domain, VerificationReasons
  <1>10. OutageIsKnown(RepairedRow)
    BY <1>7, LastFailure DEF OutageIsKnown, Outage, failure
  <1>11. QED
    BY <1>8, <1>9, <1>10

-----------------------------------------------------------------------------
(* The steps.                                                              *)

LEMMA Initially == Init => TrialsInv
  <1>1. SUFFICES ASSUME Init PROVE TrialsInv
    OBVIOUS
  <1>2. Len(Trials) \in Nat /\ Len(Trials) >= 1 /\ DOMAIN Trials = 1..Len(Trials)
    BY ScheduleAssumption
  <1>3. Budget[Trials[1].strategy] \in Nat
    BY <1>2, BudgetAssumption
  <1>4. TypeOK
    BY <1>1, <1>2, <1>3, ResumesAssumption DEF Init, TypeOK, Entry
  <1>5. RowInv /\ PhaseInv /\ BreakerInv /\ LastFailureInv
    BY <1>1, <1>2 DEF Init, RowInv, PhaseInv, BreakerInv, LastFailureInv, FailedCalls
  <1>6. QED
    BY <1>4, <1>5 DEF TrialsInv

\* Keeping a sound row keeps the invariant.
LEMMA KeepStep ==
    ASSUME TrialsInv, phase # "report", NEW row \in Row, FiledOnce(row), OutageIsKnown(row),
           Keep(row), resumes' = resumes,
           {cache', validation'} \subseteq [Cases -> {"UNKNOWN", "VALID", "INVALID_CASE"}]
    PROVE  TrialsInv'
  <1>1. /\ rows \in Seq(Row) /\ rows' = Append(rows, row) /\ next' = next + 1
        /\ phase' = IF row.failure \in GlobalProviderFailures \/ next = Len(Trials)
                    THEN "report" ELSE "validate"
        /\ diagnosis' = Undiagnosed /\ attempts' = <<>>
    BY DEF TrialsInv, TypeOK, Keep
  <1>2. /\ Len(Trials) \in Nat /\ DOMAIN Trials = 1..Len(Trials)
        /\ next \in Nat /\ next >= 1 /\ next <= Len(Trials) /\ Len(rows) = next - 1
    BY ScheduleAssumption DEF TrialsInv, TypeOK, PhaseInv, RowInv
  <1> DEFINE n == Len(Trials)
  <1>a. n \in Nat /\ next \in Nat /\ next <= n /\ next' = next + 1
    BY <1>1, <1>2
  <1>b. next' \in Nat /\ next' >= 1 /\ next' - 1 = next /\ next' <= n + 1
    <2> HIDE DEF n
    <2>1. QED
      BY <1>a
  <1>3. /\ Len(rows') = Len(rows) + 1 /\ DOMAIN rows' = 1..(Len(rows) + 1)
        /\ DOMAIN rows = 1..Len(rows)
        /\ rows'[Len(rows) + 1] = row /\ \A i \in DOMAIN rows : rows'[i] = rows[i]
        /\ rows' \in Seq(Row)
    BY <1>1
  <1>4. next' <= Len(Trials) => Budget[Trials[next'].strategy] \in Nat
    <2>1. ASSUME next' <= Len(Trials) PROVE next' \in DOMAIN Trials
      BY <1>2, <1>b, <2>1
    <2>2. QED
      BY <2>1, BudgetAssumption
  <1>5. TypeOK'
    <2>1. next' \in 1..(Len(Trials) + 1)
      BY <1>2, <1>b
    <2>2. Len(attempts') = 0 /\ attempts' \in Seq(Made)
      BY <1>1
    <2>3. Len(attempts') <= IF next' > Len(Trials) THEN 0 ELSE Budget[Entry'.strategy]
      <3>1. Entry' = Trials[next']
        BY DEF Entry
      <3>2. ASSUME ~(next' > Len(Trials)) PROVE 0 <= Budget[Entry'.strategy]
        <4>1. next' <= Len(Trials)
          BY <1>2, <1>b, <3>2
        <4>2. QED
          BY <1>4, <3>1, <4>1
      <3>3. QED
        BY <2>2, <3>2
    <2>4. phase' \in {"validate", "plan", "repair", "report"}
      BY <1>1
    <2>5. resumes' \in 0..MaxResumes
      BY DEF TrialsInv, TypeOK
    <2>6. QED
      BY <1>1, <1>3, <2>1, <2>2, <2>3, <2>4, <2>5 DEF TypeOK
  <1>6. RowInv'
    <2>1. Len(rows') = next' - 1
      <3>1. Len(rows') = Len(rows) + 1 /\ Len(rows) = next - 1
        BY <1>2, <1>3
      <3>2. QED
        BY <1>a, <1>b, <3>1
    <2>2. \A i \in DOMAIN rows' : FiledOnce(rows'[i]) /\ OutageIsKnown(rows'[i])
      <3>1. SUFFICES ASSUME NEW i \in DOMAIN rows'
                     PROVE  FiledOnce(rows'[i]) /\ OutageIsKnown(rows'[i])
        OBVIOUS
      <3>2. CASE i \in DOMAIN rows
        BY <1>3, <3>2 DEF TrialsInv, RowInv
      <3>3. CASE i \notin DOMAIN rows
        <4>1. rows'[i] = row
          BY <1>2, <1>3, <3>3
        <4>2. QED
          BY <4>1
      <3>4. QED
        BY <3>2, <3>3
    <2>3. QED
      BY <2>1, <2>2 DEF RowInv
  <1>7. PhaseInv'
    <2>1. phase' # "report" => next' <= n
      <3>1. ASSUME phase' # "report" PROVE next # n
        BY <1>1, <3>1
      <3>2. QED
        BY <1>a, <3>1
    <2>2. rows' # <<>> /\ rows'[Len(rows')] = row
      BY <1>2, <1>3
    <2>3. phase' = "report" /\ next' <= n => row.failure \in GlobalProviderFailures
      <3>1. ASSUME next = n PROVE ~(next' <= n)
        BY <1>a, <3>1
      <3>2. QED
        BY <1>1, <3>1
    <2>4. QED
      BY <2>1, <2>2, <2>3 DEF PhaseInv
  <1>8. BreakerInv'
    <2>1. SUFFICES ASSUME NEW i \in DOMAIN rows', Outage(rows'[i])
                   PROVE  resumes > 0 \/ (i = Len(rows') /\ phase' = "report")
      BY DEF BreakerInv
    <2>2. CASE i \in DOMAIN rows
      BY <1>3, <2>1, <2>2 DEF TrialsInv, BreakerInv
    <2>3. CASE i \notin DOMAIN rows
      <3>1. i = Len(rows') /\ rows'[i] = row
        BY <1>2, <1>3, <2>3
      <3>2. row.failure \in GlobalProviderFailures
        BY <2>1, <3>1 DEF OutageIsKnown
      <3>3. QED
        BY <1>1, <3>1, <3>2
    <2>4. QED
      BY <2>2, <2>3
  <1>9. LastFailureInv'
    BY <1>1 DEF LastFailureInv, FailedCalls
  <1>10. QED
    BY <1>5, <1>6, <1>7, <1>8, <1>9 DEF TrialsInv

\* A step of the trial at hand that keeps no row.
LEMMA InnerStep ==
    ASSUME TrialsInv, phase # "report", phase' \in {"validate", "plan", "repair"},
           next' = next, rows' = rows, resumes' = resumes, TypeOK', LastFailureInv'
    PROVE  TrialsInv'
  <1>1. RowInv' /\ PhaseInv'
    BY DEF TrialsInv, RowInv, PhaseInv
  <1>2. BreakerInv'
    BY DEF TrialsInv, BreakerInv
  <1>3. QED
    BY <1>1, <1>2 DEF TrialsInv

\* What Validate leaves is well typed.
LEMMA ValidateType ==
    ASSUME TrialsInv, phase = "validate", NEW verdict \in {"VALID", "INVALID_CASE"},
           Validate(verdict)
    PROVE  {cache', validation'} \subseteq [Cases -> {"UNKNOWN", "VALID", "INVALID_CASE"}]
  BY DEF TrialsInv, TypeOK, Validate

LEMMA AttemptType ==
    ASSUME NEW p \in Providers, NEW outcome \in AttemptStatuses(p)
    PROVE  Attempt(p, outcome) \in Made /\ Attempt(p, outcome).provider = p
  <1>1. outcome \in {"NO_CHANGES", "PATCH_REJECTED", "COMPILE_FAILED", "TEST_FAILED", "TIMEOUT",
                     "EXECUTION_ERROR", "VERIFIED", "VERIFICATION_FAILED",
                     "NEEDS_HUMAN_REVIEW", "PROVIDER_ERROR"}
    BY DEF AttemptStatuses
  <1>2. QED
    BY <1>1 DEF Attempt, Made

\* One more attempt: if its call failed it is now the last that did.
LEMMA TryStep ==
    ASSUME TrialsInv, TryRepair
    PROVE  TrialsInv'
  <1>0. PICK p \in Providers : \E outcome \in AttemptStatuses(p) :
            attempts' = Append(attempts, Attempt(p, outcome))
    BY DEF TryRepair
  <1>1. PICK outcome \in AttemptStatuses(p) :
            attempts' = Append(attempts, Attempt(p, outcome))
    BY <1>0
  <1> DEFINE attempt == Attempt(p, outcome)
  <1>2. attempt \in Made
    BY AttemptType
  <1> HIDE DEF attempt
  <1>3. /\ attempts \in Seq(Made) /\ attempts' = Append(attempts, attempt)
        /\ attempts' \in Seq(Made)
    BY <1>1, <1>2 DEF TrialsInv, TypeOK, attempt
  <1>4. /\ Len(attempts) \in Nat /\ DOMAIN attempts = 1..Len(attempts)
        /\ Len(attempts') = Len(attempts) + 1 /\ DOMAIN attempts' = 1..(Len(attempts) + 1)
        /\ attempts'[Len(attempts) + 1] = attempt
        /\ \A i \in DOMAIN attempts : attempts'[i] = attempts[i]
    BY <1>2, <1>3
  <1>5. /\ phase = "repair" /\ phase' = phase /\ next' = next /\ rows' = rows
        /\ diagnosis' = diagnosis /\ cache' = cache /\ validation' = validation
        /\ resumes' = resumes /\ Len(attempts) < Budget[Entry.strategy]
    BY DEF TryRepair, Repairing, validations
  <1>6. next <= Len(Trials) /\ next \in DOMAIN Trials /\ Len(Trials) \in Nat /\ next \in Nat
    BY <1>5, ScheduleAssumption DEF TrialsInv, TypeOK, PhaseInv
  <1>7. Entry' = Entry /\ Budget[Entry.strategy] \in Nat
    BY <1>5, <1>6, BudgetAssumption DEF Entry
  <1>8. Len(attempts') <= IF next' > Len(Trials) THEN 0 ELSE Budget[Entry'.strategy]
    BY <1>4, <1>5, <1>6, <1>7
  <1>9. TypeOK'
    BY <1>3, <1>5, <1>8 DEF TrialsInv, TypeOK
  <1>10. LastFailureInv'
    <2>1. FailedCalls(attempts') =
              FailedCalls(attempts) \union
                  (IF attempt.provider.status # "SUCCESS" THEN {Len(attempts) + 1} ELSE {})
      BY <1>4 DEF FailedCalls
    <2>2. \A i \in FailedCalls(attempts) : i \in Nat /\ i < Len(attempts) + 1
      BY <1>4 DEF FailedCalls
    <2>3. CASE attempt.provider.status # "SUCCESS"
      <3>1. /\ Len(attempts) + 1 \in FailedCalls(attempts')
            /\ \A j \in FailedCalls(attempts') : Len(attempts) + 1 >= j
        BY <1>4, <2>1, <2>2, <2>3
      <3>2. QED
        BY <3>1 DEF LastFailureInv
    <2>4. CASE attempt.provider.status = "SUCCESS"
      <3>1. FailedCalls(attempts') = FailedCalls(attempts)
        BY <2>1, <2>4
      <3>2. QED
        BY <3>1 DEF TrialsInv, LastFailureInv
    <2>5. QED
      BY <2>3, <2>4
  <1>11. QED
    BY <1>5, <1>9, <1>10, InnerStep

LEMMA TrialsStep == TrialsInv /\ [Next]_vars => TrialsInv'
  <1>1. SUFFICES ASSUME TrialsInv, [Next]_vars PROVE TrialsInv'
    OBVIOUS
  <1>2. CASE InvalidCase
    <2>1. Validate("INVALID_CASE") /\ Keep(InvalidRow)
      BY <1>2 DEF InvalidCase, InvalidRow
    <2>2. phase = "validate" /\ resumes' = resumes
      BY <2>1 DEF Validate
    <2>3. {cache', validation'} \subseteq [Cases -> {"UNKNOWN", "VALID", "INVALID_CASE"}]
      BY <1>1, <2>1, <2>2, ValidateType
    <2>4. QED
      BY <1>1, <2>1, <2>2, <2>3, PlainRows, KeepStep
  <1>3. CASE ExecutionError
    <2>1. Keep(ErrorRow) /\ phase \in {"plan", "repair"} /\ UNCHANGED validations
      BY <1>3 DEF ExecutionError, ErrorRow
    <2>2. {cache', validation'} \subseteq [Cases -> {"UNKNOWN", "VALID", "INVALID_CASE"}]
             /\ resumes' = resumes
      BY <1>1, <2>1 DEF TrialsInv, TypeOK, validations
    <2>3. QED
      BY <1>1, <2>1, <2>2, PlainRows, KeepStep
  <1>4. CASE Finish
    <2>1. Keep(RepairedRow) /\ phase = "repair" /\ UNCHANGED validations
      BY <1>4 DEF Finish, RepairedRow
    <2>2. {cache', validation'} \subseteq [Cases -> {"UNKNOWN", "VALID", "INVALID_CASE"}]
             /\ resumes' = resumes
      BY <1>1, <2>1 DEF TrialsInv, TypeOK, validations
    <2>3. RepairedRow \in Row /\ FiledOnce(RepairedRow) /\ OutageIsKnown(RepairedRow)
      BY <1>1, RepairedRowIsSound DEF TrialsInv, TypeOK
    <2>4. QED
      BY <1>1, <2>1, <2>2, <2>3, KeepStep
  <1>5. CASE ValidCase
    <2>1. /\ Validate("VALID") /\ phase' = "plan"
          /\ UNCHANGED <<next, diagnosis, attempts, rows>>
      BY <1>5 DEF ValidCase
    <2>2. phase = "validate" /\ resumes' = resumes
      BY <2>1 DEF Validate
    <2>3. {cache', validation'} \subseteq [Cases -> {"UNKNOWN", "VALID", "INVALID_CASE"}]
      BY <1>1, <2>1, <2>2, ValidateType
    <2>4. TypeOK' /\ LastFailureInv'
      BY <1>1, <2>1, <2>2, <2>3 DEF TrialsInv, TypeOK, LastFailureInv, Entry
    <2>5. QED
      BY <1>1, <2>1, <2>2, <2>4, InnerStep
  <1>6. CASE Plan
    <2>1. TypeOK' /\ LastFailureInv'
      BY <1>1, <1>6 DEF Plan, validations, TrialsInv, TypeOK, LastFailureInv, Entry
    <2>2. QED
      BY <1>1, <1>6, <2>1, InnerStep DEF Plan, validations
  <1>7. CASE TryRepair
    BY <1>1, <1>7, TryStep
  <1>8. CASE Resume
    <2>1. /\ resumes < MaxResumes /\ rows # <<>> /\ next <= Len(Trials)
          /\ resumes' = resumes + 1
          /\ phase' = "validate" /\ diagnosis' = Undiagnosed /\ attempts' = <<>>
          /\ cache' = [c \in Cases |-> "UNKNOWN"]
          /\ next' = next /\ rows' = rows /\ validation' = validation
      BY <1>8 DEF Resume
    <2>2. Len(Trials) \in Nat /\ next \in DOMAIN Trials /\ resumes' \in 0..MaxResumes
             /\ resumes' > 0
      BY <1>1, <2>1, ScheduleAssumption, ResumesAssumption DEF TrialsInv, TypeOK
    <2>3. Budget[Entry.strategy] \in Nat /\ Entry' = Entry
      BY <2>1, <2>2, BudgetAssumption DEF Entry
    <2>4. Len(attempts') <= IF next' > Len(Trials) THEN 0 ELSE Budget[Entry'.strategy]
      BY <2>1, <2>2, <2>3, ScheduleAssumption
    <2>5. TypeOK'
      BY <1>1, <2>1, <2>2, <2>4 DEF TrialsInv, TypeOK
    <2>6. RowInv' /\ PhaseInv'
      BY <1>1, <2>1 DEF TrialsInv, RowInv, PhaseInv
    <2>7. BreakerInv' /\ LastFailureInv'
      BY <2>1, <2>2 DEF BreakerInv, LastFailureInv, FailedCalls
    <2>8. QED
      BY <2>5, <2>6, <2>7 DEF TrialsInv
  <1>9. CASE UNCHANGED vars
    <2>1. TypeOK' /\ LastFailureInv'
      BY <1>1, <1>9 DEF vars, TrialsInv, TypeOK, LastFailureInv, Entry
    <2>2. RowInv' /\ PhaseInv' /\ BreakerInv'
      BY <1>1, <1>9 DEF vars, TrialsInv, RowInv, PhaseInv, BreakerInv
    <2>3. QED
      BY <2>1, <2>2 DEF TrialsInv
  <1>10. QED
    BY <1>1, <1>2, <1>3, <1>4, <1>5, <1>6, <1>7, <1>8, <1>9 DEF Next

THEOREM TrialsInvariance == Spec => []TrialsInv
  <1>1. QED
    BY Initially, TrialsStep, PTL DEF Spec

\* The breaker opens for an outage, at once, and for nothing else: whatever the
\* providers answer, for any schedule and any budgets (is_global_provider_failure
\* and runner.py's break).
THEOREM BreakerIsRight == Spec => []BreakerFollowsLastFailure
  <1>1. ASSUME TrialsInv PROVE BreakerFollowsLastFailure
    <2>1. ASSUME phase = "report", next <= Len(Trials)
          PROVE  Last(rows).seen.evidence \intersect OutageWords # {}
      <3>1. rows \in Seq(Row) /\ rows # <<>>
        BY <1>1, <2>1 DEF TrialsInv, TypeOK, PhaseInv
      <3>2. Len(rows) \in DOMAIN rows /\ Last(rows) = rows[Len(rows)]
        BY <3>1 DEF Last
      <3>3. OutageIsKnown(rows[Len(rows)])
        BY <1>1, <3>2 DEF TrialsInv, RowInv
      <3>4. rows[Len(rows)].failure \in GlobalProviderFailures
        BY <1>1, <2>1 DEF TrialsInv, PhaseInv
      <3>5. QED
        BY <3>2, <3>3, <3>4 DEF OutageIsKnown, Outage
    <2>2. QED
      BY <1>1, <2>1 DEF BreakerFollowsLastFailure, TrialsInv, BreakerInv, Outage
  <1>2. QED
    BY <1>1, TrialsInvariance, PTL

\* Rows, attempts and validations are what the code's types say they are.
THEOREM TypeCorrect == Spec => []TypeOK
  <1>1. TrialsInv => TypeOK
    BY DEF TrialsInv
  <1>2. QED
    BY <1>1, TrialsInvariance, PTL

-----------------------------------------------------------------------------
(* Counting.                                                               *)

\* A finite set that is divided in two has as many members as both parts.
LEMMA TwoParts ==
    ASSUME NEW S, IsFiniteSet(S), NEW A, NEW B, A \union B = S, A \intersect B = {}
    PROVE  /\ IsFiniteSet(A) /\ IsFiniteSet(B)
           /\ Cardinality(S) = Cardinality(A) + Cardinality(B)
           /\ Cardinality(A) \in Nat /\ Cardinality(B) \in Nat
  <1>1. IsFiniteSet(A) /\ IsFiniteSet(B)
    BY FS_Subset
  <1>2. Cardinality(A) \in Nat /\ Cardinality(B) \in Nat
    BY <1>1, FS_CardinalityType
  <1>3. Cardinality(A \intersect B) = 0
    BY FS_EmptySet
  <1>4. Cardinality(S) = Cardinality(A) + Cardinality(B) - Cardinality(A \intersect B)
    BY <1>1, FS_Union
  <1>5. QED
    BY <1>1, <1>2, <1>3, <1>4

\* Pairs in which every member of A comes first exactly once are as many as A.
LEMMA FirstOfPairs ==
    ASSUME NEW A, NEW B, IsFiniteSet(A), IsFiniteSet(B), NEW P \in SUBSET (A \X B),
           \A i \in A : \E p \in P : p[1] = i,
           \A p, q \in P : p[1] = q[1] => p = q
    PROVE  Cardinality(P) = Cardinality(A)
  <1> DEFINE f == [p \in P |-> p[1]]
  <1>1. IsFiniteSet(A \X B)
    BY FS_Product
  <1>2. IsFiniteSet(P)
    BY <1>1, FS_Subset
  <1>3. f \in [P -> A]
    OBVIOUS
  <1>4. f \in Bijection(P, A)
    BY <1>3 DEF Bijection, Injection, Surjection, IsInjective
  <1>5. ExistsBijection(P, A)
    BY <1>4 DEF ExistsBijection
  <1>6. QED
    BY <1>2, <1>5, FS_Bijection

LEMMA SecondOfPairs ==
    ASSUME NEW A, NEW B, IsFiniteSet(A), IsFiniteSet(B), NEW P \in SUBSET (A \X B),
           \A j \in B : \E p \in P : p[2] = j,
           \A p, q \in P : p[2] = q[2] => p = q
    PROVE  Cardinality(P) = Cardinality(B)
  <1> DEFINE f == [p \in P |-> p[2]]
  <1>1. IsFiniteSet(A \X B)
    BY FS_Product
  <1>2. IsFiniteSet(P)
    BY <1>1, FS_Subset
  <1>3. f \in [P -> B]
    OBVIOUS
  <1>4. f \in Bijection(P, B)
    BY <1>3 DEF Bijection, Injection, Surjection, IsInjective
  <1>5. ExistsBijection(P, B)
    BY <1>4 DEF ExistsBijection
  <1>6. QED
    BY <1>2, <1>5, FS_Bijection

\* The rows _strategy_metrics is given for a strategy and the case types.
Selected(strategy, types) ==
    {i \in DOMAIN rows :
        rows[i].valid /\ Trials[i].strategy = strategy /\ Trials[i].type \in types}

Under(S, domain) == {i \in S : Domain(rows[i]) = domain}
VerifiedOf(S) == {i \in S : Verified(i)}

LEMMA MetricsAreCounts ==
    ASSUME NEW s, NEW types
    PROVE  LET S == Selected(s, types)
               available == S \ (Under(S, "PROVIDER") \union Under(S, "INFRASTRUCTURE"))
               metrics == Metrics(s, types)
           IN  /\ metrics.attempted = Cardinality(S)
               /\ metrics.verified = Cardinality(VerifiedOf(S))
               /\ metrics.availableVerified = Cardinality(VerifiedOf(available))
               /\ metrics.provider = Cardinality(Under(S, "PROVIDER"))
               /\ metrics.infrastructure = Cardinality(Under(S, "INFRASTRUCTURE"))
               /\ metrics.repair = Cardinality(Under(S, "REPAIR"))
               /\ metrics.verification = Cardinality(Under(S, "VERIFICATION"))
  BY DEF Metrics, Selected, Under, VerifiedOf

\* The rows are a part of the schedule, and there are finitely many.
LEMMA RowsAreTrials ==
    ASSUME TrialsInv
    PROVE  /\ IsFiniteSet(DOMAIN rows)
           /\ DOMAIN rows \subseteq DOMAIN Trials
           /\ \A s, types : IsFiniteSet(Selected(s, types))
  <1>1. rows \in Seq(Row) /\ next \in 1..(Len(Trials) + 1) /\ Len(rows) = next - 1
    BY DEF TrialsInv, TypeOK, RowInv
  <1>2. Len(Trials) \in Nat /\ DOMAIN Trials = 1..Len(Trials)
    BY ScheduleAssumption
  <1>3. DOMAIN rows = 1..Len(rows) /\ Len(rows) \in Nat
    BY <1>1
  <1>4. IsFiniteSet(DOMAIN rows)
    BY <1>3, FS_Interval
  <1>5. Len(rows) <= Len(Trials)
    BY <1>1, <1>2
  <1>6. DOMAIN rows \subseteq DOMAIN Trials
    BY <1>2, <1>3, <1>5
  <1>7. \A s, types : Selected(s, types) \in SUBSET DOMAIN rows
    BY DEF Selected
  <1>8. QED
    BY <1>4, <1>6, <1>7, FS_Subset

\* A valid row is verified or under one of the four domains of a failure.
LEMMA PartsOfSelected ==
    ASSUME TrialsInv, NEW s, NEW types
    PROVE  LET S == Selected(s, types)
           IN  \A i \in S :
                 \/ Verified(i) /\ Domain(rows[i]) = None
                 \/ ~Verified(i) /\ Domain(rows[i]) \in
                        {"PROVIDER", "INFRASTRUCTURE", "REPAIR", "VERIFICATION"}
  BY DEF TrialsInv, RowInv, FiledOnce, Selected, Verified

LEMMA CountsOnce ==
    ASSUME TrialsInv, NEW s
    PROVE  LET all == Metrics(s, AllTypes)
               direct == Metrics(s, {"direct"})
               transitive == Metrics(s, {"transitive"})
           IN /\ all.attempted = all.verified + all.provider + all.infrastructure
                                   + all.repair + all.verification
              /\ all.availableVerified = all.verified
              /\ all.attempted = direct.attempted + transitive.attempted
              /\ all.verified = direct.verified + transitive.verified
  <1> DEFINE S == Selected(s, AllTypes)
             D == Selected(s, {"direct"})
             T == Selected(s, {"transitive"})
             V == VerifiedOf(S)
             provider == Under(S, "PROVIDER")
             infrastructure == Under(S, "INFRASTRUCTURE")
             repair == Under(S, "REPAIR")
             verification == Under(S, "VERIFICATION")
  <1>1. IsFiniteSet(S)
    BY RowsAreTrials
  <1>2. \A i \in S :
           \/ Verified(i) /\ Domain(rows[i]) = None
           \/ ~Verified(i) /\ Domain(rows[i]) \in
                  {"PROVIDER", "INFRASTRUCTURE", "REPAIR", "VERIFICATION"}
    BY PartsOfSelected
  <1>3. Cardinality(S) = Cardinality(V) + Cardinality(provider) + Cardinality(infrastructure)
                            + Cardinality(repair) + Cardinality(verification)
    <2> DEFINE S4 == S \ V
               S3 == S4 \ provider
               S2 == S3 \ infrastructure
    <2>1. V \union S4 = S /\ V \intersect S4 = {}
      BY DEF VerifiedOf
    <2>2. provider \union S3 = S4 /\ provider \intersect S3 = {}
      BY <1>2 DEF VerifiedOf, Under
    <2>3. infrastructure \union S2 = S3 /\ infrastructure \intersect S2 = {}
      BY <1>2 DEF VerifiedOf, Under
    <2>4. repair \union verification = S2 /\ repair \intersect verification = {}
      BY <1>2 DEF VerifiedOf, Under
    <2> HIDE DEF S, V, provider, infrastructure, repair, verification, S4, S3, S2
    <2>5. /\ Cardinality(S) = Cardinality(V) + Cardinality(S4) /\ IsFiniteSet(S4)
          /\ Cardinality(V) \in Nat
      BY <1>1, <2>1, TwoParts
    <2>6. /\ Cardinality(S4) = Cardinality(provider) + Cardinality(S3) /\ IsFiniteSet(S3)
          /\ Cardinality(provider) \in Nat
      BY <2>2, <2>5, TwoParts
    <2>7. /\ Cardinality(S3) = Cardinality(infrastructure) + Cardinality(S2) /\ IsFiniteSet(S2)
          /\ Cardinality(infrastructure) \in Nat
      BY <2>3, <2>6, TwoParts
    <2>8. /\ Cardinality(S2) = Cardinality(repair) + Cardinality(verification)
          /\ Cardinality(repair) \in Nat /\ Cardinality(verification) \in Nat
      BY <2>4, <2>7, TwoParts
    <2>9. QED
      BY <2>5, <2>6, <2>7, <2>8
  <1>4. VerifiedOf(S \ (provider \union infrastructure)) = V
    BY <1>2 DEF VerifiedOf, Under
  <1>5. \A i \in S : Trials[i].type \in AllTypes
    BY DEF Selected
  <1>6. D \union T = S /\ D \intersect T = {}
    BY DEF Selected, AllTypes
  <1>7. VerifiedOf(D) \union VerifiedOf(T) = V /\ VerifiedOf(D) \intersect VerifiedOf(T) = {}
    BY <1>6 DEF VerifiedOf
  <1>8. IsFiniteSet(V)
    BY <1>1, FS_Subset DEF VerifiedOf
  <1>9. Cardinality(S) = Cardinality(D) + Cardinality(T)
    <2> HIDE DEF S, D, T
    <2>1. QED
      BY <1>1, <1>6, TwoParts
  <1>10. Cardinality(V) = Cardinality(VerifiedOf(D)) + Cardinality(VerifiedOf(T))
    <2> HIDE DEF V, D, T
    <2>1. QED
      BY <1>7, <1>8, TwoParts
  <1>11. /\ Metrics(s, AllTypes).attempted = Cardinality(S)
         /\ Metrics(s, AllTypes).verified = Cardinality(V)
         /\ Metrics(s, AllTypes).availableVerified
                = Cardinality(VerifiedOf(S \ (provider \union infrastructure)))
         /\ Metrics(s, AllTypes).provider = Cardinality(provider)
         /\ Metrics(s, AllTypes).infrastructure = Cardinality(infrastructure)
         /\ Metrics(s, AllTypes).repair = Cardinality(repair)
         /\ Metrics(s, AllTypes).verification = Cardinality(verification)
    BY MetricsAreCounts
  <1>12. /\ Metrics(s, {"direct"}).attempted = Cardinality(D)
         /\ Metrics(s, {"direct"}).verified = Cardinality(VerifiedOf(D))
         /\ Metrics(s, {"transitive"}).attempted = Cardinality(T)
         /\ Metrics(s, {"transitive"}).verified = Cardinality(VerifiedOf(T))
    BY MetricsAreCounts
  <1> HIDE DEF S, D, T, V, provider, infrastructure, repair, verification
  <1>13. QED
    BY <1>3, <1>4, <1>9, <1>10, <1>11, <1>12

\* Every valid trial is counted once, as verified or under one failure domain,
\* and in one of the two case types; the secondary rate leaves out no verified
\* trial: for any schedule, however often the run is resumed (_strategy_metrics).
THEOREM FiguresAddUp == Spec => []EachTrialCountsOnce
  <1>1. TrialsInv => EachTrialCountsOnce
    BY CountsOnce DEF EachTrialCountsOnce
  <1>2. QED
    BY <1>1, TrialsInvariance, PTL

-----------------------------------------------------------------------------
(* Pairs.                                                                  *)

\* The pairs _pair compares.
PairsOf(left, right) ==
    {p \in Selected(left, AllTypes) \X Selected(right, AllTypes) :
        Trials[p[1]].case = Trials[p[2]].case /\ Trials[p[1]].trial = Trials[p[2]].trial}

LEMMA PairIsCounts ==
    ASSUME NEW left, NEW right
    PROVE  LET P == PairsOf(left, right)
               pair == Pair(left, right, AllTypes)
           IN  /\ pair.both = Cardinality({p \in P : Verified(p[1]) /\ Verified(p[2])})
               /\ pair.left = Cardinality({p \in P : Verified(p[1]) /\ ~Verified(p[2])})
               /\ pair.right = Cardinality({p \in P : ~Verified(p[1]) /\ Verified(p[2])})
               /\ pair.neither = Cardinality({p \in P : ~Verified(p[1]) /\ ~Verified(p[2])})
               /\ pair.comparable = Cardinality(P)
  <1> DEFINE P == PairsOf(left, right)
             Count(a, b) == Cardinality({p \in P : Verified(p[1]) = a /\ Verified(p[2]) = b})
  <1>1. Pair(left, right, AllTypes) =
            [both |-> Count(TRUE, TRUE), left |-> Count(TRUE, FALSE),
             right |-> Count(FALSE, TRUE), neither |-> Count(FALSE, FALSE),
             comparable |-> Cardinality(P)]
    BY DEF Pair, PairsOf, Selected
  <1>2. \A i : Verified(i) \in BOOLEAN
    BY DEF Verified
  <1>3. /\ {p \in P : Verified(p[1]) = TRUE /\ Verified(p[2]) = TRUE}
                = {p \in P : Verified(p[1]) /\ Verified(p[2])}
        /\ {p \in P : Verified(p[1]) = TRUE /\ Verified(p[2]) = FALSE}
                = {p \in P : Verified(p[1]) /\ ~Verified(p[2])}
        /\ {p \in P : Verified(p[1]) = FALSE /\ Verified(p[2]) = TRUE}
                = {p \in P : ~Verified(p[1]) /\ Verified(p[2])}
        /\ {p \in P : Verified(p[1]) = FALSE /\ Verified(p[2]) = FALSE}
                = {p \in P : ~Verified(p[1]) /\ ~Verified(p[2])}
    BY <1>2
  <1>4. QED
    BY <1>1, <1>3

\* One strategy has at most one row of a trial of a case.
LEMMA OneRowPerTrial ==
    ASSUME TrialsInv, NEW s, NEW i \in Selected(s, AllTypes), NEW j \in Selected(s, AllTypes),
           Trials[i].case = Trials[j].case, Trials[i].trial = Trials[j].trial
    PROVE  i = j
  <1>1. i \in DOMAIN Trials /\ j \in DOMAIN Trials
    BY RowsAreTrials DEF Selected
  <1>2. QED
    BY <1>1, ScheduleAssumption DEF Selected

\* If the other strategy ran every trial this one did, every row is in a pair.
LEMMA EveryRowIsPaired ==
    ASSUME TrialsInv, NEW s, NEW t, Ran(s) \subseteq Ran(t), NEW i \in Selected(s, AllTypes)
    PROVE  \E j \in Selected(t, AllTypes) :
               Trials[i].case = Trials[j].case /\ Trials[i].trial = Trials[j].trial
  <1>1. \A k \in DOMAIN rows : Trials[k].type \in AllTypes
    BY RowsAreTrials, ScheduleAssumption
  <1>2. <<Trials[i].case, Trials[i].trial>> \in Ran(t)
    BY DEF Ran, Selected
  <1>3. PICK j \in {k \in DOMAIN rows : rows[k].valid /\ Trials[k].strategy = t} :
            <<Trials[i].case, Trials[i].trial>> = <<Trials[j].case, Trials[j].trial>>
    BY <1>2 DEF Ran
  <1>4. j \in Selected(t, AllTypes)
    BY <1>1, <1>3 DEF Selected
  <1>5. Trials[i].case = Trials[j].case /\ Trials[i].trial = Trials[j].trial
    BY <1>3
  <1>6. QED
    BY <1>4, <1>5

LEMMA PairsAddUp ==
    ASSUME TrialsInv, NEW l, NEW r, Ran(l) = Ran(r)
    PROVE  LET pair == Pair(l, r, AllTypes)
               left == Metrics(l, AllTypes)
               right == Metrics(r, AllTypes)
           IN  /\ pair.comparable = left.attempted
               /\ pair.both + pair.left = left.verified
               /\ pair.both + pair.right = right.verified
               /\ pair.both + pair.left + pair.right + pair.neither = pair.comparable
  <1> DEFINE A == Selected(l, AllTypes)
             B == Selected(r, AllTypes)
             P == PairsOf(l, r)
             VA == VerifiedOf(A)
             VB == VerifiedOf(B)
             PA == {p \in P : Verified(p[1])}
             PB == {p \in P : Verified(p[2])}
             NA == {p \in P : ~Verified(p[1])}
             both == {p \in P : Verified(p[1]) /\ Verified(p[2])}
             onlyl == {p \in P : Verified(p[1]) /\ ~Verified(p[2])}
             onlyr == {p \in P : ~Verified(p[1]) /\ Verified(p[2])}
             none == {p \in P : ~Verified(p[1]) /\ ~Verified(p[2])}
  <1>1. IsFiniteSet(A) /\ IsFiniteSet(B)
    BY RowsAreTrials
  <1>2. IsFiniteSet(VA) /\ IsFiniteSet(VB) /\ VA \subseteq A /\ VB \subseteq B
    BY <1>1, FS_Subset DEF VerifiedOf
  <1>3. /\ P \in SUBSET (A \X B)
        /\ \A i \in A, j \in B :
              Trials[i].case = Trials[j].case /\ Trials[i].trial = Trials[j].trial
                  <=> <<i, j>> \in P
    BY DEF PairsOf
  <1>4. IsFiniteSet(P)
    BY <1>1, <1>3, FS_Product, FS_Subset
  <1>5. \A p \in P : /\ p[1] \in A /\ p[2] \in B /\ p = <<p[1], p[2]>>
                     /\ Trials[p[1]].case = Trials[p[2]].case
                     /\ Trials[p[1]].trial = Trials[p[2]].trial
    BY DEF PairsOf
  <1>6. \A i \in A : \E j \in B : <<i, j>> \in P
    BY <1>3, EveryRowIsPaired
  <1>7. \A j \in B : \E i \in A : <<i, j>> \in P
    <2>1. SUFFICES ASSUME NEW j \in B PROVE \E i \in A : <<i, j>> \in P
      OBVIOUS
    <2>2. PICK i \in A : Trials[j].case = Trials[i].case /\ Trials[j].trial = Trials[i].trial
      BY EveryRowIsPaired
    <2>3. QED
      BY <1>3, <2>2
  <1>8. \A p, q \in P : p[1] = q[1] => p = q
    <2>1. SUFFICES ASSUME NEW p \in P, NEW q \in P, p[1] = q[1] PROVE p = q
      OBVIOUS
    <2>2. p[2] = q[2]
      BY <1>5, <2>1, OneRowPerTrial
    <2>3. QED
      BY <1>5, <2>1, <2>2
  <1>9. \A p, q \in P : p[2] = q[2] => p = q
    <2>1. SUFFICES ASSUME NEW p \in P, NEW q \in P, p[2] = q[2] PROVE p = q
      OBVIOUS
    <2>2. p[1] = q[1]
      BY <1>5, <2>1, OneRowPerTrial
    <2>3. QED
      BY <1>5, <2>1, <2>2
  <1>10. Cardinality(P) = Cardinality(A)
    <2>1. \A i \in A : \E p \in P : p[1] = i
      BY <1>6
    <2> HIDE DEF A, B, P
    <2>2. QED
      BY <1>1, <1>3, <1>8, <2>1, FirstOfPairs
  <1>11. Cardinality(PA) = Cardinality(VA)
    <2>1. PA \in SUBSET (VA \X B) /\ \A i \in VA : \E p \in PA : p[1] = i
      <3>1. \A p \in PA : p \in VA \X B
        BY <1>5 DEF VerifiedOf
      <3>2. ASSUME NEW i \in VA PROVE \E p \in PA : p[1] = i
        <4>1. i \in A /\ Verified(i)
          BY DEF VerifiedOf
        <4>2. PICK j \in B : <<i, j>> \in P
          BY <1>6, <4>1
        <4>3. <<i, j>> \in PA /\ <<i, j>>[1] = i
          BY <4>1, <4>2
        <4>4. QED
          BY <4>3
      <3>3. QED
        BY <3>1, <3>2
    <2>2. \A p, q \in PA : p[1] = q[1] => p = q
      BY <1>8
    <2> HIDE DEF A, B, P, PA, VA
    <2>3. QED
      BY <1>1, <1>2, <2>1, <2>2, FirstOfPairs
  <1>12. Cardinality(PB) = Cardinality(VB)
    <2>1. PB \in SUBSET (A \X VB) /\ \A j \in VB : \E p \in PB : p[2] = j
      <3>1. \A p \in PB : p \in A \X VB
        BY <1>5 DEF VerifiedOf
      <3>2. ASSUME NEW j \in VB PROVE \E p \in PB : p[2] = j
        <4>1. j \in B /\ Verified(j)
          BY DEF VerifiedOf
        <4>2. PICK i \in A : <<i, j>> \in P
          BY <1>7, <4>1
        <4>3. <<i, j>> \in PB /\ <<i, j>>[2] = j
          BY <4>1, <4>2
        <4>4. QED
          BY <4>3
      <3>3. QED
        BY <3>1, <3>2
    <2>2. \A p, q \in PB : p[2] = q[2] => p = q
      BY <1>9
    <2> HIDE DEF A, B, P, PB, VB
    <2>3. QED
      BY <1>1, <1>2, <2>1, <2>2, SecondOfPairs
  <1>13. IsFiniteSet(PA) /\ IsFiniteSet(PB) /\ IsFiniteSet(NA)
    BY <1>4, FS_Subset
  <1>14. /\ both \union onlyl = PA /\ both \intersect onlyl = {}
         /\ both \union onlyr = PB /\ both \intersect onlyr = {}
         /\ onlyr \union none = NA /\ onlyr \intersect none = {}
         /\ PA \union NA = P /\ PA \intersect NA = {}
    OBVIOUS
  <1>15. /\ Pair(l, r, AllTypes).both = Cardinality(both)
         /\ Pair(l, r, AllTypes).left = Cardinality(onlyl)
         /\ Pair(l, r, AllTypes).right = Cardinality(onlyr)
         /\ Pair(l, r, AllTypes).neither = Cardinality(none)
         /\ Pair(l, r, AllTypes).comparable = Cardinality(P)
    BY PairIsCounts
  <1>16. /\ Metrics(l, AllTypes).attempted = Cardinality(A)
         /\ Metrics(l, AllTypes).verified = Cardinality(VA)
         /\ Metrics(r, AllTypes).verified = Cardinality(VB)
    BY MetricsAreCounts
  <1> HIDE DEF A, B, P, VA, VB, PA, PB, NA, both, onlyl, onlyr, none
  <1>17. /\ Cardinality(PA) = Cardinality(both) + Cardinality(onlyl)
         /\ Cardinality(both) \in Nat /\ Cardinality(onlyl) \in Nat
    <2>1. IsFiniteSet(PA) /\ both \union onlyl = PA /\ both \intersect onlyl = {}
      BY <1>13, <1>14
    <2>2. Cardinality(PA) = Cardinality(both) + Cardinality(onlyl)
      BY <2>1, TwoParts
    <2>3. Cardinality(both) \in Nat /\ Cardinality(onlyl) \in Nat
      BY <2>1, TwoParts
    <2>4. QED
      BY <2>2, <2>3
  <1>18. Cardinality(PB) = Cardinality(both) + Cardinality(onlyr)
    BY <1>13, <1>14, TwoParts
  <1>19. /\ Cardinality(NA) = Cardinality(onlyr) + Cardinality(none)
         /\ Cardinality(onlyr) \in Nat /\ Cardinality(none) \in Nat
    BY <1>13, <1>14, TwoParts
  <1>20. Cardinality(P) = Cardinality(PA) + Cardinality(NA)
    BY <1>4, <1>14, TwoParts
  <1>21. QED
    BY <1>10, <1>11, <1>12, <1>15, <1>16, <1>17, <1>18, <1>19, <1>20

\* Where two strategies ran the same trials, no pair is lost or formed twice:
\* the paired outcomes add up to each strategy's own figures (_pair).
THEOREM PairsAreFaithful == Spec => []PairsAgreeWithTotals
  <1>1. TrialsInv => PairsAgreeWithTotals
    BY PairsAddUp DEF PairsAgreeWithTotals
  <1>2. QED
    BY <1>1, TrialsInvariance, PTL
=============================================================================
