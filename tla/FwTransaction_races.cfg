\* Two requests to the local or to a remote node that use one label in turn, one bus reset,
\* card removal.
CONSTANTS
    Txn = {t1, t2}
    NoTxn = NoTxn
    NodeId = {n1, local}
    LocalId = local
    NLabels = 1
    MaxGen = 1
    HwStatus = {"complete", "pending", "busy", "missing_ack"}
    Cancellable = {t1, t2}
    CanRemove = TRUE
SPECIFICATION Spec
SYMMETRY Symmetry
CHECK_DEADLOCK FALSE
INVARIANTS
    LabelsExact
    CompletedOnce
    GivenBackForGood
    AnswersAreTrue
