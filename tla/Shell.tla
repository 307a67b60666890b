------------------------------- MODULE Shell --------------------------------
(* The shells sh.c and lsh.c: how a command line becomes a command, and     *)
(* which processes, descriptors and pipes a command becomes.  A process     *)
(* runs the calls its part of the shell makes, one at a time; fork(),       *)
(* pipe(), open() and exec() may fail.  A program reads its input to the    *)
(* end, if that is a pipe, and exits.  init runs lsh, and sh runs from lsh. *)
(* The kernel's side of these calls is the subject of ProcTable and         *)
(* FileTable; here they do what their callers expect.                       *)
EXTENDS Integers, Sequences, FiniteSets, FiniteSetsExt, SequencesExt

CONSTANTS NPROC,      \* processes; 1 is the shell
          NOFILE,     \* descriptors of a process
          MAXARGS,    \* words of a command, and one
          LSH_TOK_BUFSIZE,   \* words in each of the arrays left and right of lsh
          Trees,      \* commands a user of sh may mean
          Started,    \* those of them that are run
          MaxFails    \* bound: fork()s and pipe()s that fail, and lsh's that init cannot exec

ASSUME ShellAssumption == /\ NPROC \in Nat \ {0} /\ MaxFails \in Nat
                          /\ LSH_TOK_BUFSIZE \in Nat \ {0}
                          /\ NOFILE \in Nat /\ NOFILE >= 5
                          /\ MAXARGS \in Nat \ {0} /\ Started \subseteq Trees

VARIABLES shell,   \* which shell got the line: "sh" or "lsh"
          line,    \* the tokens of the command line
          cmd,     \* what the shell makes of them
          proc,    \* per process: st, parent, fd, code, p
          fails,   \* calls that failed
          down     \* the kernel panicked: "init exiting"

vars == <<shell, line, cmd, proc, fails, down>>

Proc == 1..NPROC
Fd == 0..(NOFILE - 1)

-----------------------------------------------------------------------------
(* Commands.  Words are alike, and only counted.  A syntax error ends the  *)
(* process that parses, whatever is around it.                              *)
Syntax == [type |-> "syntax"]
Unless(parts, c) == IF Syntax \in parts THEN Syntax ELSE c
Exec(n) == [type |-> "exec", argc |-> n]
Redir(c, fd) == Unless({c}, [type |-> "redir", cmd |-> c, fd |-> fd])
Pipe(l, r) == Unless({l, r}, [type |-> "pipe", left |-> l, right |-> r])
List(l, r) == Unless({l, r}, [type |-> "list", left |-> l, right |-> r])
Back(c) == Unless({c}, [type |-> "back", cmd |-> c])

(* How the user writes a command: with parentheses where they are needed.   *)
RECURSIVE Written(_)
Paren(c, types) == IF c.type \in types THEN Written(c) ELSE <<"(">> \o Written(c) \o <<")">>
Written(c) ==
    CASE c.type = "exec" -> [n \in 1..c.argc |-> "w"]
      [] c.type = "redir" -> Paren(c.cmd, {"exec", "redir"}) \o (IF c.fd = 0 THEN <<"<", "w">> ELSE <<">", "w">>)
      [] c.type = "pipe" -> Paren(c.left, {"exec", "redir"}) \o <<"|">> \o Paren(c.right, {"exec", "redir", "pipe"})
      [] c.type = "back" -> Paren(c.cmd, {"exec", "redir", "pipe", "back"}) \o <<"&">>
      [] c.type = "list" -> Paren(c.left, {"exec", "redir", "pipe", "back"}) \o <<";">> \o Written(c.right)

-----------------------------------------------------------------------------
(* The parser of sh.c.  A parse is a command and the tokens after it.       *)
Got(c, rest) == [cmd |-> c, rest |-> rest]
Gettoken(s) == Tail(s)
Peek(s, toks) == s # <<>> /\ Head(s) \in toks

RECURSIVE ParseLine(_), ParsePipe(_), ParseExec(_), ParseRedirs(_, _), ParseBacks(_, _), ParseArgs(_, _), AddWord(_)

(* parseredirs() *)
ParseRedirs(c, s) ==
    IF ~Peek(s, {"<", ">"}) THEN Got(c, s)
    ELSE IF Len(s) < 2 \/ s[2] # "w" THEN Got(Syntax, <<>>)
    ELSE ParseRedirs(Redir(c, IF s[1] = "<" THEN 0 ELSE 1), Gettoken(Gettoken(s)))

(* One more word for the command inside the redirections. *)
AddWord(c) == IF c.type = "redir" THEN Redir(AddWord(c.cmd), c.fd)
              ELSE IF c.argc + 1 >= MAXARGS THEN Syntax ELSE Exec(c.argc + 1)

(* The words of parseexec(), with redirections between them. *)
ParseArgs(c, s) ==
    IF c = Syntax \/ s = <<>> \/ Peek(s, {"|", ")", "&", ";"}) THEN Got(c, s)
    ELSE IF Head(s) # "w" \/ AddWord(c) = Syntax THEN Got(Syntax, <<>>)
    ELSE LET r == ParseRedirs(AddWord(c), Gettoken(s)) IN ParseArgs(r.cmd, r.rest)

ParseBlock(s) ==
    LET l == ParseLine(Gettoken(s))
    IN  IF ~Peek(l.rest, {")"}) THEN Got(Syntax, <<>>) ELSE ParseRedirs(l.cmd, Gettoken(l.rest))

ParseExec(s) == IF Peek(s, {"("}) THEN ParseBlock(s)
                ELSE LET r == ParseRedirs(Exec(0), s) IN ParseArgs(r.cmd, r.rest)

(* Variant with a bug: a pipe ends at its second command. *)
ParsePipeShort(s) ==
    LET l == ParseExec(s)
        r == ParseExec(Gettoken(l.rest))
    IN  IF Peek(l.rest, {"|"}) THEN Got(Pipe(l.cmd, r.cmd), r.rest) ELSE l

ParsePipe(s) ==
    LET l == ParseExec(s)
        r == ParsePipe(Gettoken(l.rest))
    IN  IF Peek(l.rest, {"|"}) THEN Got(Pipe(l.cmd, r.cmd), r.rest) ELSE l

ParseBacks(c, s) == IF Peek(s, {"&"}) THEN ParseBacks(Back(c), Gettoken(s)) ELSE Got(c, s)

ParseLine(s) ==
    LET p == ParsePipe(s)
        l == ParseBacks(p.cmd, p.rest)
        r == ParseLine(Gettoken(l.rest))
    IN  IF Peek(l.rest, {";"}) THEN Got(List(l.cmd, r.cmd), r.rest) ELSE l

(* parsecmd(): what is left over is an error. *)
ParseCmd(s) == LET l == ParseLine(s) IN IF l.rest = <<>> THEN l.cmd ELSE Syntax

-----------------------------------------------------------------------------
(* The token loop of main() in lsh.c: the last operator gives the type, the *)
(* words go left, right after "|", or are the file.  No index is checked:   *)
(* see LshParse.                                                            *)
LshToken(c, t) ==
    CASE t = "<" -> [c EXCEPT !.type = "redin", !.file = TRUE]
      [] t = ">" -> [c EXCEPT !.type = "redout", !.file = TRUE]
      [] t = "|" -> [c EXCEPT !.type = "pipe", !.parsingRight = TRUE]
      [] t \in {"w", "exit"} /\ c.file -> [c EXCEPT !.right = IF @ = 0 THEN 1 ELSE @, !.file = FALSE]
      [] t \in {"w", "exit"} /\ ~c.file -> IF c.parsingRight THEN [c EXCEPT !.right = @ + 1] ELSE [c EXCEPT !.left = @ + 1]

NoTokens == [type |-> "exec", left |-> 0, right |-> 0, parsingRight |-> FALSE, file |-> FALSE]

(* left[] runs over into right[], which comes next in struct cmd: a word    *)
(* there stands for a target, and a full left[] ends where right[] does.    *)
(* right[] runs over into the line, for malloc() puts that next: it spoils  *)
(* words, which are alike here.                                             *)
LshParse(s) ==
    LET c == FoldLeft(LshToken, NoTokens, s)
        right == Max({c.right, c.left - LSH_TOK_BUFSIZE})
        left == IF c.left < LSH_TOK_BUFSIZE THEN c.left ELSE LSH_TOK_BUFSIZE + right
    IN  IF c.left = 0 \/ (c.type # "exec" /\ right = 0) THEN Syntax
        ELSE CASE c.type = "exec" -> Exec(left)
               [] c.type = "redin" -> Redir(Exec(left), 0)
               [] c.type = "redout" -> Redir(Exec(left), 1)
               [] c.type = "pipe" -> Pipe(Exec(left), Exec(right))

(* Commands of at most one operator, the ones lsh has.                      *)
LshTrees == LET E == Exec(1) IN {E, Redir(E, 0), Redir(Exec(2), 1), Pipe(E, Exec(2))}

(* The end of the input of sh, and the built-in command of lsh that ends it. *)
Ctrl_D == <<"^D">>
LshExit == <<"exit">>

(* Words that run over left[], and no command after the "|". *)
LshLong == Append([n \in 1..(LSH_TOK_BUFSIZE + 1) |-> "w"], "|")

(* Lines that are no command: for lsh, a word or file is missing; for sh, a *)
(* file, a parenthesis, a ";" is, there are too many words, or no line.     *)
LshFaulty == {<<>>, <<"|", "w">>, <<"w", "<">>, <<"w", "|">>}
ShFaulty == {<<"w", "<">>, <<"w", ">", "|", "w">>, <<"(", "w">>, <<"w", "|", "w", ")">>, <<"w", "&", "w">>,
             <<"w", "(", "w", ")">>, [n \in 1..MAXARGS |-> "w"], Ctrl_D}

-----------------------------------------------------------------------------
(* The calls a command makes.  node is the place of the command in its tree; *)
(* p[0] and p[1] are the descriptors of the last pipe().                     *)
Call(op) == [op |-> op]
Close(x) == [op |-> "close", fd |-> x]
CloseP(i) == [op |-> "closep", i |-> i]
Dup(i) == [op |-> "dup", i |-> i]
Fork(code) == [op |-> "fork", code |-> code]
Run(c, node) == [op |-> "run", cmd |-> c, node |-> node]
PipeCall(node) == [op |-> "pipe", node |-> node]
ExecCall(node) == [op |-> "exec", node |-> node]

(* Variant with a bug: the right side keeps the end it does not use. *)
PipeSideKeeps(fd, i, rest) == <<Close(fd), Dup(i), CloseP(i)>> \o rest

(* The child of a pipe that has end i of it as descriptor fd. *)
PipeSide(fd, i, rest) == <<Close(fd), Dup(i), CloseP(0), CloseP(1)>> \o rest

(* Variant with a bug: the shell waits for one side of a pipe. *)
PipeParentOnce == <<CloseP(0), CloseP(1), Call("wait")>>

PipeParent == <<CloseP(0), CloseP(1), Call("wait"), Call("wait")>>

(* runcmd() of sh.c *)
RunCmd(c, node) ==
    CASE c.type = "syntax" -> <<Call("exit")>>
      [] c.type = "exec" -> IF c.argc = 0 THEN <<Call("exit")>> ELSE <<ExecCall(node)>>
      [] c.type = "redir" -> <<Close(c.fd), Call("open"), Run(c.cmd, Append(node, "c"))>>
      [] c.type = "list" -> <<Fork(<<Run(c.left, Append(node, "l"))>>), Call("wait"), Run(c.right, Append(node, "r"))>>
      [] c.type = "pipe" -> <<PipeCall(node),
                              Fork(PipeSide(1, 1, <<Run(c.left, Append(node, "l"))>>)),
                              Fork(PipeSide(0, 0, <<Run(c.right, Append(node, "r"))>>))>>
                            \o PipeParent \o <<Call("exit")>>
      [] c.type = "back" -> <<Fork(<<Run(c.cmd, Append(node, "c"))>>), Call("exit")>>

(* lsh_execute() of lsh.c: the shell itself makes the pipe and waits. *)
LshExecute(c) ==
    CASE c.type = "syntax" -> <<>>
      [] c.type = "exec" -> <<Fork(<<ExecCall(<<>>)>>), Call("wait")>>
      [] c.type = "redir" -> <<Fork(<<Close(c.fd), Call("open"), ExecCall(<<"c">>)>>), Call("wait")>>
      [] c.type = "pipe" -> <<PipeCall(<<>>), Fork(PipeSide(1, 1, <<ExecCall(<<"l">>)>>)),
                              Fork(PipeSide(0, 0, <<ExecCall(<<"r">>)>>))>> \o PipeParent

Getcmd(s) == s # Ctrl_D

(* main() of both; lsh_exit() is the one built-in that makes a call here. *)
Main(sh, s, c) == IF sh = "lsh" THEN (IF s = LshExit THEN <<Call("exit")>> ELSE LshExecute(c))
                  ELSE IF Getcmd(s) THEN <<Fork(<<Run(c, <<>>)>>), Call("wait")>> ELSE <<Call("exit")>>

-----------------------------------------------------------------------------
None == [k |-> "none", node |-> <<>>]
Console == [k |-> "console", node |-> <<>>]
AFile == [k |-> "file", node |-> <<>>]
End(node, i) == [k |-> IF i = 0 THEN "r" ELSE "w", node |-> node]

NoProc == [st |-> "none", parent |-> 0, fd |-> [f \in Fd |-> None], code |-> <<>>, p |-> <<0, 0>>, node |-> <<>>]

(* The descriptors init.c gives a shell, and those a shell makes sure of. *)
ConsoleFds == [f \in Fd |-> IF f < 3 THEN Console ELSE None]

Init ==
    /\ \/ /\ shell = "sh"
          /\ line \in {Written(t) : t \in Started} \cup ShFaulty
          /\ cmd = ParseCmd(line)
       \/ /\ shell = "lsh"
          /\ line \in {Written(t) : t \in LshTrees} \cup LshFaulty \cup {LshExit, LshLong}
          /\ cmd = LshParse(line)
    /\ proc = [i \in Proc |-> IF i # 1 THEN NoProc
                              ELSE [NoProc EXCEPT !.st = "run", !.fd = ConsoleFds, !.code = Main(shell, line, cmd)]]
    /\ fails = 0 /\ down = FALSE

Next1(i) == Head(proc[i].code)
Does(i, op) == proc[i].st = "run" /\ proc[i].code # <<>> /\ Next1(i).op = op

(* The process goes on as r, after its first call. *)
Becomes(i, r) == /\ proc' = [proc EXCEPT ![i] = [r EXCEPT !.code = Tail(@)]]
                 /\ UNCHANGED <<shell, line, cmd, fails, down>>

Lowest(i) == Min({f \in Fd : proc[i].fd[f] = None})

Closes(i) == \/ Does(i, "close") /\ Becomes(i, [proc[i] EXCEPT !.fd[Next1(i).fd] = None])
             \/ Does(i, "closep") /\ Becomes(i, [proc[i] EXCEPT !.fd[proc[i].p[Next1(i).i + 1]] = None])

Dups(i) == Does(i, "dup") /\ Becomes(i, [proc[i] EXCEPT !.fd[Lowest(i)] = proc[i].fd[proc[i].p[Next1(i).i + 1]]])

Pipes(i) ==
    /\ Does(i, "pipe")
    /\ LET r == Lowest(i)
           w == Min({f \in Fd : f # r /\ proc[i].fd[f] = None})
       IN  Becomes(i, [proc[i] EXCEPT !.fd[r] = End(Next1(i).node, 0), !.fd[w] = End(Next1(i).node, 1), !.p = <<r, w>>])

(* A process ends: its descriptors are closed, its children go to init. *)
Ended(i) == [j \in Proc |-> IF j = i THEN (IF proc[i].parent = 0 THEN NoProc
                                           ELSE [NoProc EXCEPT !.st = "zombie", !.parent = proc[i].parent])
                            ELSE IF proc[j].parent # i THEN proc[j]
                            ELSE IF proc[j].st = "zombie" THEN NoProc
                            ELSE [proc[j] EXCEPT !.parent = 0]]

Exits(i) == /\ proc' = Ended(i)
            /\ UNCHANGED <<shell, line, cmd, fails, down>>

(* pipe() fails: runcmd() panics, lsh_execute() returns. *)
PipeFails(i) ==
    /\ Does(i, "pipe") /\ fails < MaxFails
    /\ fails' = fails + 1
    /\ proc' = IF shell = "sh" THEN Ended(i) ELSE [proc EXCEPT ![i].code = <<>>]
    /\ UNCHANGED <<shell, line, cmd, down>>

(* open() of the file of a redirection, which may fail. *)
Opens(i) == Does(i, "open") /\ (Exits(i) \/ Becomes(i, [proc[i] EXCEPT !.fd[Lowest(i)] = AFile]))

Forks(i) ==
    /\ Does(i, "fork")
    /\ \E j \in Proc :
         /\ proc[j].st = "none"
         /\ \A h \in Proc : proc[h].st = "none" => j <= h
         /\ proc' = [proc EXCEPT ![i].code = Tail(@),
                                 ![j] = [proc[i] EXCEPT !.parent = i, !.code = Next1(i).code]]
    /\ UNCHANGED <<shell, line, cmd, fails, down>>

(* fork() fails: fork1() of sh.c exits, lsh_execute() goes on as a parent. *)
ForkFails(i) ==
    /\ Does(i, "fork") /\ fails < MaxFails
    /\ fails' = fails + 1
    /\ proc' = IF shell = "sh" THEN Ended(i) ELSE [proc EXCEPT ![i].code = Tail(@)]
    /\ UNCHANGED <<shell, line, cmd, down>>

Children(i) == {j \in Proc : proc[j].st # "none" /\ proc[j].parent = i}

Waits(i) == /\ Does(i, "wait")
            /\ \/ \E j \in Children(i) : /\ proc[j].st = "zombie"
                                         /\ proc' = [proc EXCEPT ![i].code = Tail(@), ![j] = NoProc]
                                         /\ UNCHANGED <<shell, line, cmd, fails, down>>
               \/ Children(i) = {} /\ Becomes(i, proc[i])

Runs(i) == /\ Does(i, "run")
           /\ proc' = [proc EXCEPT ![i].code = RunCmd(Next1(i).cmd, Next1(i).node)]
           /\ UNCHANGED <<shell, line, cmd, fails, down>>

(* exec() succeeds, or fails and the process exits. *)
Execs(i) == Does(i, "exec") /\ (Exits(i) \/ Becomes(i, [proc[i] EXCEPT !.st = "program", !.node = Next1(i).node]))

ExitCall(i) == Does(i, "exit") /\ Exits(i)

(* The end of input on descriptor 0. *)
Eof(i) == LET in == proc[i].fd[0]
          IN  in.k = "r" => \A j \in Proc, f \in Fd : proc[j].fd[f] # End(in.node, 1)

ProgramEnds(i) == proc[i].st = "program" /\ Eof(i) /\ Exits(i)

Prompts == [proc EXCEPT ![1] = [NoProc EXCEPT !.st = "run", !.fd = ConsoleFds]]

(* sh has ended: the lsh that ran it comes back from wait() and prompts. *)
LshGoesOn == /\ shell = "sh" /\ proc[1].st = "none"
             /\ proc' = Prompts
             /\ UNCHANGED <<shell, line, cmd, fails, down>>

(* lsh has ended: init comes back from wait() and forks.  Its child execs   *)
(* lsh, which prompts, or cannot, and init tries again; when fork() fails   *)
(* init exits, and with it the kernel.                                      *)
InitRestarts ==
    /\ shell = "lsh" /\ proc[1].st = "none" /\ ~down
    /\ \/ proc' = Prompts /\ UNCHANGED <<fails, down>>
       \/ fails < MaxFails /\ fails' = fails + 1 /\ down' \in BOOLEAN /\ UNCHANGED proc
    /\ UNCHANGED <<shell, line, cmd>>

Step(i) == ~down /\ (\/ Closes(i) \/ Dups(i) \/ Pipes(i) \/ PipeFails(i) \/ Opens(i) \/ Forks(i) \/ ForkFails(i)
                     \/ Waits(i) \/ Runs(i) \/ Execs(i) \/ ExitCall(i) \/ ProgramEnds(i))

Next == LshGoesOn \/ InitRestarts \/ \E i \in Proc : Step(i)

Spec == Init /\ [][Next]_vars

(* Every process is scheduled, and every program ends once its input does. *)
FairSpec == Spec /\ WF_vars(LshGoesOn) /\ WF_vars(InitRestarts) /\ \A i \in Proc : WF_vars(Step(i))

-----------------------------------------------------------------------------
(* Properties *)

(* What sh parses is what the user means, whatever the nesting. *)
ParsesTrees == \A t \in Trees : ParseCmd(Written(t)) = t

(* The command is the one the user wrote: pipes bind tighter than "&" and   *)
(* ";", redirections belong to their command, parentheses group, and a      *)
(* faulty line is refused, by sh, and by lsh as long as the words fit its   *)
(* arrays.                                                                  *)
ParsedRight == /\ ParsesTrees
               /\ IF line \in (IF shell = "sh" THEN ShFaulty ELSE LshFaulty) THEN cmd = Syntax
                  ELSE line \notin {LshExit, LshLong} => cmd # Syntax /\ Written(cmd) = line

(* Descriptors 0 and 1 of the program at a node, where c is at the node     *)
(* done so far and has these two.                                           *)
RECURSIVE Stdio(_, _, _, _, _)
Stdio(c, done, todo, in, out) ==
    LET to(child, side, i, o) == Stdio(child, Append(done, side), Tail(todo), i, o)
    IN  CASE c.type = "exec" -> <<in, out>>
          [] c.type = "redir" -> to(c.cmd, "c", IF c.fd = 0 THEN AFile ELSE in, IF c.fd = 1 THEN AFile ELSE out)
          [] c.type = "back" -> to(c.cmd, "c", in, out)
          [] c.type = "list" -> to(IF Head(todo) = "l" THEN c.left ELSE c.right, Head(todo), in, out)
          [] c.type = "pipe" -> IF Head(todo) = "l" THEN to(c.left, "l", in, End(done, 1))
                                                    ELSE to(c.right, "r", End(done, 0), out)

(* A program starts with the input and output its place in the command      *)
(* gives it, and no other descriptor: an end of a pipe left open would keep *)
(* its reader from ever seeing the end.                                     *)
ProgramFds ==
    \A i \in Proc : proc[i].st = "program" =>
        LET io == Stdio(cmd, <<>>, proc[i].node, Console, Console)
        IN  proc[i].fd = [f \in Fd |-> CASE f = 0 -> io[1] [] f = 1 -> io[2] [] f = 2 -> Console [] OTHER -> None]

(* Whether the command at a node is under an "&". *)
RECURSIVE Backgrounded(_, _)
Backgrounded(c, todo) ==
    CASE c.type = "exec" -> FALSE
      [] c.type = "back" -> TRUE
      [] c.type = "redir" -> Backgrounded(c.cmd, Tail(todo))
      [] OTHER -> Backgrounded(IF Head(todo) = "l" THEN c.left ELSE c.right, Tail(todo))

Prompt == proc[1].st = "run" /\ proc[1].code = <<>>

(* The shell prompts again when every foreground program has ended, and it  *)
(* keeps no child and no end of a pipe: lsh whatever failed, sh when no     *)
(* call did (a fork1() that fails in a side process of sh leaves the other  *)
(* side of the pipe running).                                               *)
PromptLast ==
    Prompt /\ (shell = "sh" => fails = 0) =>
        /\ \A i \in Proc : proc[i].st = "program" => Backgrounded(cmd, proc[i].node)
        /\ Children(1) = {}
        /\ proc[1].fd = ConsoleFds

(* There is a prompt again after any command, whichever fork(), pipe(),     *)
(* open() or exec() of it fails: a shell never waits for a child it does    *)
(* not have or that cannot end, and where panic(), "exit" or the end of the *)
(* input ends the shell, lsh goes on or init starts one.  Only a fork()     *)
(* that fails in init itself takes the prompt away: it stops the kernel.    *)
ShellReturns == <>(Prompt \/ down)
=============================================================================
