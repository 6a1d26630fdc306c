----------------------------- MODULE MCAzureIoT -----------------------------
EXTENDS AzureIoT
=============================================================================
