--------------------------- MODULE MCDaemonProcess ---------------------------
\* One fault anywhere: a snapshot that fails or leaves processes out, or a kill, a
\* read or a copy that fails.
EXTENDS DaemonProcess

=============================================================================
