SPECIFICATION Spec
CONSTANTS
    Person = {owner, a}
    Department = {d1}
    Task = {t1}
    Caller = {c1}
    Owner = owner
    Stranger = {}
    NoOne = nobody
    NoDepartment = nowhere
    MaxCalls = 2
INVARIANTS
    AddedAsAsked
CHECK_DEADLOCK FALSE
