---------------------------- MODULE MCFileTools ----------------------------
(* Small instances of FileTools.                                            *)
EXTENDS FileTools, TLC

CONSTANTS e1, e2, w1, x, y

\* e1 is a transaction whose second segment only applies to some contents, e2
\* replaces every hit and doubles it.
MCOp(c) ==
  CASE c = e1 -> [kind |-> "edit",
                  edits |-> <<[old |-> x, new |-> <<y, y>>, all |-> FALSE],
                              [old |-> y, new |-> <<x>>, all |-> TRUE]>>]
    [] c = e2 -> [kind |-> "edit", edits |-> <<[old |-> x, new |-> <<x, x>>, all |-> TRUE]>>]
    [] c = w1 -> [kind |-> "write", content |-> <<y, x>>]

MCInitial == <<x, y>>
=============================================================================
