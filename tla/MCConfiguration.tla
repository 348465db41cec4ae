--------------------------- MODULE MCConfiguration ---------------------------
(* Instances of Configuration for TLC. *)
EXTENDS Configuration, TLC

CONSTANTS p1, p2

Cmd(op, key, value, flags) ==
  [op |-> op, key |-> key, value |-> value, global |-> "-g" \in flags,
   noinherit |-> "-n" \in flags, custom |-> "-c" \in flags]

\* Sets of every file, of values that are fine and values that are not,
\* deletions, and the flags in combination.
SomeCommands ==
  {Cmd("get", "editor", "x", {}), Cmd("get", "misspelt", "x", {}),
   Cmd("set", "editor", "x", {}), Cmd("set", "editor", "y", {"-g"}),
   Cmd("set", "editor", "mistyped", {}), Cmd("set", "editor", "empty", {}),
   Cmd("set", "misspelt", "x", {}), Cmd("set", "remote", "schemeless", {}),
   Cmd("set", "remote", "y", {"-c"}), Cmd("set", "remote", "x", {"-n", "-c"}),
   Cmd("set", "editor", "y", {"-n"}), Cmd("set", "editor", "x", {"-g", "-n", "-c"}),
   Cmd("del", "editor", "x", {}), Cmd("del", "remote", "x", {"-c"})}

\* What users have written into a file: nothing, an editor and a key
\* that dorothy does not know, a remote.
SomeFiles ==
  {Empty, [Empty EXCEPT !["editor"] = "y", !["misspelt"] = "x"],
   [Empty EXCEPT !["remote"] = "y"]}

\* Processes are interchangeable.
ProcSymmetry == Permutations(Proc)
=============================================================================
