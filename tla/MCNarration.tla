----------------------------- MODULE MCNarration -----------------------------
EXTENDS Narration

DemoThreads == {"client", "service", "store"}
DemoEndpoints == {"service", "store"}
=============================================================================
