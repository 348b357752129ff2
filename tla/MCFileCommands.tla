---------------------------- MODULE MCFileCommands ----------------------------
(* Instances of FileCommands for TLC: files called "doc", their containers.   *)
EXTENDS FileCommands, Functions, TLC

PlainNames == <<"doc", "doc (1)", "doc (2)", "doc (3)">>
ContainerNames == <<"doc.w", "doc.w (1)", "doc.w (2)", "doc.w (3)">>
DocNames == Range(PlainNames) \cup Range(ContainerNames)

DocContainers == [n \in DocNames |-> "doc.w"]
DocSiblings == [n \in DocNames |-> IF n \in Range(PlainNames) THEN PlainNames ELSE ContainerNames]

Request(op, input, output, shred) ==
  [op |-> op, input |-> input, output |-> output, shred |-> shred]

\* A document and the container of an earlier version of it.
DocAndOldContainer == [n \in {"doc", "doc.w"} |->
  IF n = "doc" THEN Plain(1) ELSE [origin |-> 2, names |-> <<"doc">>]]

\* Destinations left to the program, sources kept and shredded.
DefaultRequests ==
  {Request("encrypt", "doc", NoName, s) : s \in BOOLEAN}
    \cup {Request("decrypt", "doc.w", NoName, s) : s \in BOOLEAN}
    \cup {Request("decrypt", "doc.w (1)", NoName, TRUE)}

\* Destinations that exist, among them the source itself.
ExplicitRequests ==
  {Request("encrypt", "doc", n, TRUE) : n \in {"doc", "doc.w"}}
    \cup {Request("decrypt", "doc.w", "doc", TRUE), Request("decrypt", "doc", NoName, FALSE)}

AllRequests == DefaultRequests \cup ExplicitRequests
                 \cup {Request("shred", "doc", NoName, TRUE)}

\* The commands are interchangeable.
JobSymmetry == Permutations(Jobs)
=============================================================================
