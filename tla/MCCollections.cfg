CONSTANTS
    Null = Null
    Undefined = Undefined
    NoText = NoText
    EmptyText = EmptyText
    EmptyKey = EmptyKey
    NoSubmit = NoSubmit
    Absent = Absent
    k1 = k1
    k2 = k2
    t1 = t1
    t2 = t2
    Numbers = {0, 1, 2}
    Keys <- MCKeys
    Texts <- MCTexts
    Forms <- MCForms
    MaxLength = 4
SPECIFICATION CollectionsSpec
INVARIANTS ArrayLaws HashLaws FormLaws
