-------------------------- MODULE MCVaultRegistry --------------------------
EXTENDS VaultRegistry
=============================================================================
