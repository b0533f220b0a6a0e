SPECIFICATION Spec
CONSTANTS
    Keys = {"k"}
    MaxTokens = 9
    StackLimit = 3
INVARIANT ReadsLeadingValue
