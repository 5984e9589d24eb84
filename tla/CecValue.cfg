\* 41667 = 162 * 256 + 195 and 500 = 256 + 244 are the ends of the shutter range,
\* 2048 = 8 * 256 is the end of the gamma range.
CONSTANTS
    Codes = {"contrast", "luma", "shutter", "wbt"}
    Data1 = {0, 100, 195, 244}
    Data2 = {0, 1, 8, 162}
    Controls <- MCControls
    Garbage = {0, 70000}
SPECIFICATION Spec
INVARIANT LegalValue
PROPERTY Monotone
