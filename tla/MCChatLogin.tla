---- MODULE MCChatLogin ----
EXTENDS ChatLogin, TLC

Symmetry == Permutations(Sessions) \union Permutations(Servers) \union Permutations(Users)
====
