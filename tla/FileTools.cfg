CONSTANTS
    Callers = {c1, c2}
    c1 = c1
    c2 = c2
    Cases <- MCCases
    Absent = Absent
    NoCall = NoCall
    MaxBytes = 3
    MaxLines = 2
SPECIFICATION FairSpec
INVARIANTS TextExact WholeTexts
PROPERTIES EffectIsReported FailureUndone CallsEnd
