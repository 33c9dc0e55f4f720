------------------------------ MODULE MCKrxFeed ------------------------------
(* KrxFeed for TLC: one feed of either mode around a midnight in Korea.     *)
EXTENDS KrxFeed

\* Late, a schedule notice, and one datagram for every way to be turned away;
\* the pairs of flaws show which check comes first.
MCVariants ==
  {[flaws |-> {}, m4 |-> FALSE, delay |-> 2], [flaws |-> {"OtherIsin"}, m4 |-> TRUE, delay |-> 2]}
  \cup [flaws : {{"Short"}, {"OtherCode", "Length"}, {"Unknown"}, {"Length", "OtherIsin"},
                 {"OtherIsin"}, {"Undecodable"}}, m4 : {FALSE}, delay : {0}]
MCSteps == {-1, 1}
====
