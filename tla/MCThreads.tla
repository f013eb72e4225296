----------------------------- MODULE MCThreads ------------------------------
(* Instances of Threads: a selector over two channels beside one over one, *)
(* and the joiners of a worker.                                            *)
EXTENDS ThreadsProps

CONSTANTS c1, c2, done, s1, s2

MCWatch == [s \in Selectors |-> CASE s = s1 -> {c1, c2} [] s = s2 -> {c1}
                                  [] OTHER -> {done}]
MCCap == [c \in Channels |-> 1]
=============================================================================
