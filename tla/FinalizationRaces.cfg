SPECIFICATION Spec
CONSTANTS
    Tasks = {t1, t2}
    Findings = {x1}
    Approvals = {a1}
    HighRisk = TRUE
    Finalizers = {f1, f2}
INVARIANT DecidesWhenPushed
PROPERTY CommitsReadyRun
SYMMETRY Symmetry
