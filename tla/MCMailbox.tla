------------------------------- MODULE MCMailbox -------------------------------
EXTENDS Mailbox, TLC

Symmetry == Permutations(Procs) \cup Permutations(Keys) \cup Permutations(Messages)
=============================================================================
