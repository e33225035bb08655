--------------------------- MODULE MCWindowsProcess ---------------------------
\* Two failing system calls: one for a launch step and one for its abort, or one
\* for a termination and one for the release that follows it.
EXTENDS WindowsProcess

=============================================================================
