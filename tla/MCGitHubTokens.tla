--------------------------- MODULE MCGitHubTokens ---------------------------
EXTENDS GitHubTokens, TLC

MCSymmetry == Permutations(Threads)
=============================================================================
