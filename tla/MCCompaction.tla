----------------------------- MODULE MCCompaction -----------------------------
(* Small instances of Compaction.                                          *)
EXTENDS Compaction

Call(name, on, part) == [name |-> name, on |-> on, part |-> part]

\* Two parts of one file, a write to it, a command.
Work == {[call |-> Call("read", "f", 1), args |-> 1, out |-> 8],
         [call |-> Call("read", "f", 2), args |-> 1, out |-> 12],
         [call |-> Call("write", "f", 0), args |-> 4, out |-> 1],
         [call |-> Call("shell", "make", 0), args |-> 1, out |-> 4]}
=============================================================================
