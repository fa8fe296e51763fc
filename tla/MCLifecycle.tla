----------------------------- MODULE MCLifecycle -----------------------------
EXTENDS Lifecycle

\* One terminal starts, stops or restarts daemons; the other one does so too, or
\* asks a daemon for something, or shows the dashboard.
MCCommands ==
  << {"start", "stop", "restart"}, {"start", "restart", "padding", "pause", "none"} >>

\* Beyond what + and - ask for, on either side; after -100, + asks for -95.
MCPaddings == {90, -100}
=============================================================================
