--------------------------- MODULE MCLifecycleGate ---------------------------
\* Instances of LifecycleGate for TLC: three host threads as model values.
EXTENDS LifecycleGate

CONSTANTS h1, h2, h3

MCThreads == {h1, h2, h3}
OneIdler == {h3}
=============================================================================
