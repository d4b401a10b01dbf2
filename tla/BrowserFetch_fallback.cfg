\* One portal that is asked again when its first page fails.
SPECIFICATION Spec
CONSTANTS
    Fetches = {f1}
    Pasted = {}
    Retrying = {f1}
    MinInterval = 3
    Timeout = 5
PROPERTIES
    NavigationsSpaced
