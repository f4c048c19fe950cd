----------------------------- MODULE MCGitScan -----------------------------
EXTENDS GitScan

\* A maximum depth, and a base commit.
DepthOrBase == {<<2, 0>>, <<0, 2>>}
=============================================================================
