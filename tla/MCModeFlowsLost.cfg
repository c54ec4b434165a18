SPECIFICATION MCSpec
CONSTANTS
    Picos = {1, 2}
    Adapters <- MCAdapters
    Beginnings = {"Xinput", "Debug"}
    Wanted = {"xbox", "BluetoothXbox"}
    MaxOutages = 1
    None = None
INVARIANT
    OriginalRestored
CHECK_DEADLOCK FALSE
