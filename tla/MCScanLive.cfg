SPECIFICATION LiveSpec
CONSTANTS
    ScanIds = {s1}
    JobIds = {j1, j2}
    Images = {i1}
    NoImage = NoImage
    MaxTries = 2
    MaxStops = 1
PROPERTIES
    EveryScanSettles
