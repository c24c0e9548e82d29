\* Two sessions fail tasks while two cleanups remove the reports.
SPECIFICATION Spec
CONSTANTS
    Agents = {a1, a2}
    Tasks = {t1, t2}
    Cleaners = {w1, w2}
    NoOne = none
    MaxReports = 3
SYMMETRY Symmetry
CHECK_DEADLOCK FALSE
INVARIANTS
    IssuesComplete
    OwnFailureIfCalm
