------------------------------ MODULE MCCustody ------------------------------
EXTENDS ValidationCustody
MCPhases == <<"restore", "test">>
MCRoots == {[attempt |-> 1, nonce |-> 1], [attempt |-> 1, nonce |-> 2]}
=============================================================================
