\* providers/snapshot.py:149-150 and :179 against the code.
CONSTANT Calls = {c1, c2}
SPECIFICATION ExecSpec
INVARIANT OnlyAskedAreCancelled
CHECK_DEADLOCK FALSE
