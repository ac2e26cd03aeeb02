SPECIFICATION FairSpec
CONSTANTS
    b1 = b1
    e1 = e1
    Epochs = {e1}
    Bindings = {b1}
    MaxVersion = 2
    Controls <- RenewControls
    Marks <- RenewMarks
    Replacements <- RenewRequests
    MaxReceipts = 3
    MaxKeyset = 1
    MaxJobs = 1
PROPERTY ExpiredIsRemoved
