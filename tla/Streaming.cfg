\* Seven hundred cycles of each sequence; domains of up to three streams, with
\* interrupts that are late by up to two cycles and one fault; two users of the IRM.
SPECIFICATION StreamingSpec
CONSTANTS
    SeqMax = 700
    t1 = t1  t2 = t2  r1 = r1  r2 = r2
    TxStream = {t1, t2}
    RxStream = {r1, r2}
    Setups <- Domains
    Queue = 6
    Period = 2
    MaxLate = 2
    StartSpread = 1
    InitSkip = 1
    JumboSkip = 2
    Wrap = 20
    Phases = {9}
    MaxFault = 1
    User = {u1, u2}
    Hi = {0, 1}
    Lo = {2}
    Initial = 3
    Masks <- AnyOrNone
    Units = {0, 2}
    Tries = 1
    IrmMaxGen = 1
    MaxOps = 5
INVARIANTS SequenceExact StreamsKeepStep ResourcesExact
PROPERTIES DomainGetsReady ImplementsLedger
CHECK_DEADLOCK FALSE
