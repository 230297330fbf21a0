SPECIFICATION FairSpec
CONSTANTS
    Creators = {c1, c2}
    Confirmers = {f1}
    Admins = {m1}
    Assessors = {s1}
    Prices = {low, high}
    MaxTroubles = 1
INVARIANTS TypeOK PaidForReason StatusAgrees AssessmentsPaidFor
 
CHECK_DEADLOCK FALSE
