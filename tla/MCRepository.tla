----------------------------- MODULE MCRepository -----------------------------
EXTENDS RepositoryPublication
=============================================================================
