SPECIFICATION TableSpec
CONSTANTS
    TableKeys <- MCTableKeys
    TableHandles = {"h"}
    MaxEntries = 10
INVARIANT HalfFullFinds
