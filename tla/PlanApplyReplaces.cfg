SPECIFICATION Spec
CONSTANTS
    MaxLines = 1
    MaxApplies = 1
PROPERTY ApplyNeverReplaces
