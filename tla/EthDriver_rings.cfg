SPECIFICATION FairSpec
CONSTANTS
    txRingSize = 3
    rxRingSize = 3
    MaxCallers = 1
    MaxCount = 4
CHECK_DEADLOCK FALSE
INVARIANTS TxSafe RxSafe
 
