SPECIFICATION Spec
CONSTANTS
    t1 = t1
    t2 = t2
    fix1 = fix1
    fix2 = fix2
    r1 = r1
    r2 = r2
    Tasks = {t1, t2}
    Needs = {fix1, fix2}
    Want <- MCWant
    Advised = {t1, t2}
    Refs = {r1, r2}
    Filings <- SharedOrOwn
    TriggerCap = 1
    MaxFaults = 0
    MaxHuman = 0
INVARIANT OmittedAdvisoryIsReviewed
