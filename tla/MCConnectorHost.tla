---------------------------- MODULE MCConnectorHost ----------------------------
EXTENDS ConnectorHost, TLC
Interchangeable == Permutations(Commands)
===============================================================================
