--------------------------- MODULE MCProgramList ---------------------------
EXTENDS ProgramList

\* The second and the third name begin alike, as far as the kernel keeps them.
MCKey == <<"gimp", "openoffice-write", "openoffice-write", "firefox">>
=============================================================================
