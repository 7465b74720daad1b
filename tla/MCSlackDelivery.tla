-------------------------- MODULE MCSlackDelivery --------------------------
EXTENDS SlackDelivery, TLC

MCSymmetry == Permutations(Processes)
=============================================================================
