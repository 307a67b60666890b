------------------------------ MODULE MCShell -------------------------------
(* The commands for the instance of Shell: to parse, all of depth two over  *)
(* commands of no, one and two words; to run, one of each way to nest.      *)
EXTENDS Shell

Over(S) == {Redir(c, fd) : c \in S, fd \in {0, 1}} \cup {Back(c) : c \in S}
           \cup {Pipe(l, r) : l, r \in S} \cup {List(l, r) : l, r \in S}

Words == {Exec(n) : n \in 0..2}

E == Exec(1)

MCStarted == {Exec(0), Exec(2), Redir(Redir(E, 0), 1), Pipe(E, Pipe(E, E)), List(Pipe(E, E), E), List(Back(E), E),
              Back(Pipe(E, E)), Redir(List(E, E), 1), Redir(Pipe(E, E), 0), Pipe(List(E, E), Redir(E, 1)),
              Pipe(Redir(E, 0), Back(E)), Back(Back(E)), List(E, List(E, E)),
              Pipe(Pipe(E, E), E), Pipe(E, List(Back(E), E)), List(Back(Pipe(E, E)), E), Pipe(Redir(Pipe(E, E), 0), E)}

MCTrees == MCStarted \cup Words \cup Over(Words \cup Over(Words))
=============================================================================
