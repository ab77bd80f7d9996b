----------------------------- MODULE MCLoadView -----------------------------
EXTENDS LoadView

Steps == <<2, 0, 1>>

=============================================================================
