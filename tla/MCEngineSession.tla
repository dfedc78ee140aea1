--------------------------- MODULE MCEngineSession ---------------------------
\* Instances of EngineSession for TLC.
EXTENDS EngineSession

\* The documented way to tear an engine down, with a callback that retains, and a
\* host that just drops its references, in a build that does not.
DisciplinedPrograms == {[retains |-> TRUE, keepsRef |-> TRUE],
                        [retains |-> FALSE, keepsRef |-> FALSE]}

\* A host that just drops its references while the callback retains the object.
CarelessProgram == {[retains |-> TRUE, keepsRef |-> FALSE]}
=============================================================================
