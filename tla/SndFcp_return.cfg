\* One transaction, one bus reset: does fcp_avc_transaction() finish?
SPECIFICATION SndFcpSpec
CONSTANTS
    Call = {c1}
    Command = {k1}
    Deferrable = {k1}
    FcpTries = 2
    FcpMaxFrames = 2
    FcpMaxGen = 1
PROPERTY TransactionReturns
CHECK_DEADLOCK FALSE
