--------------------------- MODULE MCAzureIoTHub ---------------------------
EXTENDS AzureIoTHub
=============================================================================
