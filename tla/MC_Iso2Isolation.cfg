SPECIFICATION Spec
INVARIANT IsolationIsAlwaysBehindDcPower
