------------------------------ MODULE MCSetup ------------------------------
(* Small instances of Setup: two requests in flight, two process starts. *)
EXTENDS Setup, TLC

MCNames == {"admin", "emiya"}
MCPipeName == {"pi|pe"}
MCNamesWithPipe == {"admin", "pi|pe"}
\* "short" is too short, and "emiya" is refused for the user "emiya" alone.
MCPasswords == {"correct horse", "emiya", "short"}
MCWeak == {"short"}
\* Nothing tells the handlers apart.
MCSymmetry == Permutations(Handlers)
MCNoNames == {}
MCEnvHashes == {"correct horse"}
=============================================================================
