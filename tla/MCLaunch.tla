------------------------------- MODULE MCLaunch -------------------------------
(* An instance of Launch for TLC.                                             *)
EXTENDS Launch

Tails(words, n) == UNION {[1 .. k -> words] : k \in 0 .. n}
With(start, words, n) == {start \o t : t \in Tails(words, n)}

SomeLines ==
  With(<<"encrypt", "/doc">>, {"-p", "-k", "-o", "--shred", "--password-stdin", "x", ""}, 4)
    \cup With(<<"encrypt", "/doc", "-k", "x">>,
              {"--pqc", "--chunk-size", "--passes", "1024", "300", "x"}, 4)
    \cup With(<<"decrypt", "/doc.wraith">>, {"-p", "-k", "--shred", "--passes", "1", "x"}, 4)
    \cup With(<<"shred", "/doc">>, {"--passes", "--mode", "1", "300"}, 4)
    \cup With(<<"keyfile", "generate">>, {"-s", "300", "x"}, 5)
    \cup Tails({"gui", "--gui-encrypt", "--gui-decrypt", "--gui-inspect", "/doc", "/doc.wraith",
                "doc", "help", "encrypt", "keyfile"}, 2)

\* A pass count has eight bits.
NumbersOf == [o \in {"--chunk-size", "--passes", "-s"} |->
  IF o = "--passes" THEN {"1"} ELSE {"1", "300", "1024"}]

DashedWords == {"-p", "-k", "-o", "-s", "--shred", "--password-stdin", "--pqc", "--chunk-size",
                "--passes", "--mode", "--gui-encrypt", "--gui-decrypt", "--gui-inspect"}
=============================================================================
