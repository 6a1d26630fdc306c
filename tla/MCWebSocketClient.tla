------------------------- MODULE MCWebSocketClient -------------------------
EXTENDS WebSocketClient
=============================================================================
