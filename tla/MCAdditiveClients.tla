---------------------------- MODULE MCAdditiveClients ----------------------------
EXTENDS AdditiveClients

================================================================================
