SPECIFICATION Spec
CONSTANTS
    m1 = m1
    m2 = m2
    s1 = s1
    s2 = s2
    b1 = b1
    q1 = q1
    q2 = q2
    q3 = q3
    Mains = {m1, m2, m3}
    Sections = {s1, s2, s3}
    Subs = {b1, b2}
    Questions = {q1, q2, q3, q4}
    Nowhere = Nowhere
    Tree <- SmallTree
    Editors = {e1}
    MaxRank = 3
    MaxEdits = 3
    MaxAnswers = 1
PROPERTY QuestionsKept
CHECK_DEADLOCK FALSE
