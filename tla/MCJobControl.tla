---------------------------- MODULE MCJobControl ----------------------------
EXTENDS JobControl

\* Two children are enough for two jobs, or a job and a foreground command. If
\* SIGCHLD was ignored at the start one is enough: it vanishes when it ends.
FewIfIgnored == ignored => proc[2] = "None"
=============================================================================
