\* Payloads of every kind, on every path.
SPECIFICATION Spec
CONSTANTS
    Payloads <- MCPayloads
INVARIANTS PayloadKept ErrorExact NoForeignPointer WrittenOnce
CHECK_DEADLOCK FALSE
