\* Messages reaching the camera.
CONSTANTS
    Codes = {"contrast", "luma", "shutter", "wbt"}
    Data1 = {0, 100, 195, 244}
    Data2 = {0, 1, 8, 162}
    Controls <- MCControls
    Garbage = {0, 70000}
SPECIFICATION Spec
INVARIANT WhiteBalanceForwarded
