-------------------------- MODULE MCLedgerStoreV2 --------------------------
EXTENDS LedgerStoreV2, TLC

CONSTANTS s1, s2, t1, t2, request, other

MCStores == {s1, s2}
MCTxs == {t1, t2}
MCBodies == {request, other}
MCDispatches == {request}

\* Two failures or deaths, or one of them and a power loss, in any order.
MCBudgets == {[faults |-> 2, losses |-> 0], [faults |-> 1, losses |-> 1]}
=============================================================================
