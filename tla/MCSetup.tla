------------------------------- MODULE MCSetup -------------------------------
\* Small instances of Setup: one base name in the default directory, and a file
\* of that name where the commands run (Beside), or one in the same directory
\* without the extension (Twins).
EXTENDS Setup

Beside == {Path("home", ".json"), Path("here", "")}
Twins  == {Path("home", ".json"), Path("home", "")}
=============================================================================
