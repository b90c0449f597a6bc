SPECIFICATION Spec
CONSTANTS
    Clause <- MCClause
    Supply <- MCSupply
    MaxClauses = 3
INVARIANTS
    TypeOK
    ScoreTellsLevel
    AnswerExplainsItself
    AdviceLeadsOutside
    NoticeStaysSilent
PROPERTIES
    EvidenceOnlyAdds
    ReassuranceHidesNothing
\* The user stops asking.
CHECK_DEADLOCK FALSE
