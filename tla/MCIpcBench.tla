----------------------------- MODULE MCIpcBench -----------------------------
EXTENDS IpcBench

Halves == {client, server}
OneEndpoint == {endpoint}
=============================================================================
