------------------------------ MODULE MCStatusPage ------------------------------
EXTENDS StatusPage

================================================================================
