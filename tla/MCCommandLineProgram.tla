------------------------ MODULE MCCommandLineProgram ------------------------
\* The command line with the display attached, two executions.
EXTENDS CommandLineProgram
=============================================================================
