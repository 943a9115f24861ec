------------------------------ MODULE MCMessages ------------------------------
EXTENDS Messages
===============================================================================
