SPECIFICATION RetryingSpec
CONSTANTS
    ScanIds = {s1}
    JobIds = {j1, j2}
    Images = {i1}
    NoImage = NoImage
    MaxTries = 2
    MaxStops = 0

PROPERTIES
    EveryScanSettles
