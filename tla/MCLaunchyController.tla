------------------------- MODULE MCLaunchyController -------------------------
EXTENDS LaunchyController
CONSTANTS r1, r2, r3

\* Every combination of --wait and --nostart.
AnyMode == [noExit : BOOLEAN, noStart : BOOLEAN]
=============================================================================
