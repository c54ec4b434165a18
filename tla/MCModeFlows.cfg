SPECIFICATION MCSpec
CONSTANTS
    Picos = {1, 2}
    Adapters <- MCAdapters
    Beginnings = {"Xinput", "Debug"}
    Wanted = {"xbox", "BluetoothXbox"}
    MaxOutages = 1
    None = None
INVARIANTS
    StreamMatchesMode
    SurveyLeavesNoTrace
    ReportIsTrue
CHECK_DEADLOCK FALSE
