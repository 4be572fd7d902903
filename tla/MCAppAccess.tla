---------------------------- MODULE MCAppAccess ----------------------------
\* One application with two users and one role, small enough for liveness.
EXTENDS AppAccess
=============================================================================
