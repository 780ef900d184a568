SPECIFICATION RegistrySpec
CONSTANTS
 RegNames={n1}
 RegHashes={h1,h2}
 Researchers={p1,p2}
 MaxEvents=3
 MaxRegFaults=2
INVARIANT HoldoutOnce
CHECK_DEADLOCK FALSE
