---------------------------- MODULE MCProblemContent ----------------------------
EXTENDS ProblemContent, TLC

MCSymmetry == Permutations(Transactions)
===============================================================================
