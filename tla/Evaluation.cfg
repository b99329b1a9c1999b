\* Two handlers in flight, a required criterion with a provider and an optional
\* one without; two observation times, so that a repeated answer may differ; and two
\* rows of callers, under any identity.
CONSTANTS
    Criteria = {c1, c2}
    Required = {c1}
    Provided = {c1}
    Handlers = {h1, h2}
    Answers <- MCAnswers
    CallerAnswers <- MCCallerAnswers
    MaxCallerRows = 2
    Stamps = {"t1", "t2"}
    NoCriterion = NoCriterion
SPECIFICATION FairSpec
INVARIANTS TypeOK PassIsNeverImplicit FailsOnlyAfterDecision
PROPERTIES ImplementsPromise RequestLeadsToDecision DecisionReachesItem
