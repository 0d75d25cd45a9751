SPECIFICATION Spec
CONSTANTS
    t1 = t1
    t2 = t2
    c1 = c1
    ana = ana
    luis = luis
    Tab = {t1}
    Call = {c1}
    home <- OneCall
    Query = {c1}
    Mutation = {}
    Panel = {t1}
    Person = {ana, luis}
    MaxSessions = 2
    MaxKey = 1
INVARIANTS NobodyElsesData
