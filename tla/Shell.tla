------------------------------- MODULE Shell --------------------------------
(***************************************************************************)
(* operating-systems/shell/SEEsh.c: it reads lines, keeps them in a        *)
(* history from which a line "!prefix" recalls one, and runs a program in  *)
(* the foreground, which control-C is to end.                              *)
(*                                                                         *)
(* A command is the sequence of its words; a line of blanks has none.  The *)
(* builtins that only call the system or print (cd, pwd, help, set, unset  *)
(* and history) are one.  The shell waits in two places, for a line and    *)
(* for a program: control-C meets it there.                                *)
(***************************************************************************)
EXTENDS Naturals, Sequences, SequencesExt

CONSTANTS
  Lines,          (* what the user may type                                *)
  Recalls,       (* what may follow the !                                 *)
  Builtins,       (* the words that name a builtin                         *)
  Growth,         (* DEFAULT_HISTORY_SIZE: 50                              *)
  Pids,           (* the processes                                         *)
  MaxHistory, MaxInterrupts  (* bounds of the model                        *)

ASSUME ShellAssumption ==
  /\ Lines \subseteq Seq(STRING) /\ Recalls \subseteq Seq(STRING)
  /\ "exit" \in Builtins
  /\ Growth \in Nat \ {0}
  /\ {MaxHistory, MaxInterrupts} \subseteq Nat

VARIABLES
  source,        (* "config", and then "stdin"                             *)
  at,            (* the shell is at its "prompt", "waits" for a program,   *)
                 (* has "exited", "crashed", or was "killed"               *)
  history,       (* items of c_history, and its length; whether it is gone *)
  entered,       (* the commands as they were put in the history           *)
  children,      (* a process is "none", a copy of the shell that is       *)
                 (* "starting" its program, "running", "catching" SIGINT,  *)
                 (* or has "ended"                                         *)
  awaited,       (* pid in spawn_process                                   *)
  abandoned,     (* the processes whose wait ended without them            *)
  handling,      (* the shell is in sig_int_handler                        *)
  interrupts     (* how often control-C was pressed: bounded               *)

remembered == <<history, entered>>
processes == <<children, awaited, abandoned>>
signals == <<handling, interrupts>>
shellVars == <<source, at, remembered, processes, signals>>

ShellInit ==
  /\ source \in {"config", "stdin"}
  /\ at = "prompt"
  /\ history \in [items : {<<>>}, length : {0, Growth}, gone : {FALSE}]
  /\ entered = <<>>
  /\ children = [p \in Pids |-> "none"]
  /\ awaited \in Pids
  /\ abandoned = {}
  /\ handling = FALSE
  /\ interrupts = 0

-----------------------------------------------------------------------------
(* The history.                                                            *)

\* add_to_history: the command is added, or there is no memory for it, or none for a
\* longer array, in which case the array is freed and nevertheless said to be longer.
Added(command) ==
  LET added == [history EXCEPT !.items = Append(@, command)]
      longer == history.length + Growth
  IN {history} \cup
     IF Len(history.items) < history.length THEN {added}
     ELSE {[added EXCEPT !.length = longer], [history EXCEPT !.length = longer, !.gone = TRUE]}

\* match_command: the first item with that prefix.
Matching(prefix) ==
  {i \in 1..Len(history.items) : prefix # <<>> /\ IsPrefix(prefix, history.items[i])}

First(S) == CHOOSE i \in S : \A j \in S : i <= j

\* strtok ends the first word of the string it is given: of the item itself, if the
\* command was recalled.
Tokenized(h, i) == [h EXCEPT !.items[i] = SubSeq(@, 1, 1)]

-----------------------------------------------------------------------------
(* Lines.                                                                  *)

Fork(p) ==
  /\ children[p] = "none"
  /\ children' = [children EXCEPT ![p] = "starting"]
  /\ awaited' = p
  /\ at' = "waits"
  /\ UNCHANGED abandoned

\* run_process; a program runs unless fork fails.
Run(command) ==
  \/ /\ command = <<>>
     /\ at' = "crashed"
     /\ UNCHANGED processes
  \/ /\ command = <<"exit">>
     /\ at' = IF history'.gone THEN "crashed" ELSE "exited"
     /\ UNCHANGED processes
  \/ /\ command \notin {<<>>, <<"exit">>}
     /\ UNCHANGED <<at, processes>>
  \/ /\ command # <<>> /\ Head(command) \notin Builtins
     /\ \E p \in Pids : Fork(p)

Reads ==
  /\ at = "prompt" /\ ~handling
  /\ Len(history.items) < MaxHistory

\* process_line with a line that is a command.
Line(command) ==
  /\ Reads /\ ~history.gone
  /\ history' \in Added(command)
  /\ entered' = IF history'.items = history.items THEN entered ELSE Append(entered, command)
  /\ Run(command)
  /\ UNCHANGED <<source, signals>>

\* Mutant: the words are separated before the command is copied.
Recall_TokenizedFirst(prefix) ==
  /\ Reads /\ ~history.gone
  /\ Matching(prefix) # {}
  /\ LET i == First(Matching(prefix))
     IN /\ \E h \in Added(SubSeq(history.items[i], 1, 1)) :
             /\ history' = Tokenized(h, i)
             /\ entered' = IF Len(h.items) = Len(entered) THEN entered
                           ELSE Append(entered, history.items[i])
        /\ Run(history.items[i])
  /\ UNCHANGED <<source, signals>>

\* process_line with a line "!prefix".
Recall(prefix) ==
  /\ Reads /\ ~history.gone
  /\ Matching(prefix) # {}
  /\ LET i == First(Matching(prefix))
     IN /\ \E h \in Added(history.items[i]) :
             /\ history' = Tokenized(h, i)
             /\ entered' = IF Len(h.items) = Len(entered) THEN entered
                           ELSE Append(entered, history.items[i])
        /\ Run(history.items[i])
  /\ UNCHANGED <<source, signals>>

\* Whatever comes next is read from, or written to, freed memory.
UseAfterFree ==
  /\ Reads /\ history.gone
  /\ at' = "crashed"
  /\ UNCHANGED <<source, remembered, processes, signals>>

EndOfInput ==
  /\ at = "prompt" /\ ~handling
  /\ source' = "stdin"
  /\ at' = IF source = "stdin" THEN "exited" ELSE "prompt"
  /\ UNCHANGED <<remembered, processes, signals>>

-----------------------------------------------------------------------------
(* Programs.                                                               *)

Changes(p, from, to) ==
  /\ children[p] \in from
  /\ children' = [children EXCEPT ![p] = to]
  /\ UNCHANGED <<source, at, remembered, awaited, abandoned, signals>>

\* execvp, and what the program makes of itself.
Exec(p) == Changes(p, {"starting"}, "running")
CatchInterrupts(p) == Changes(p, {"running"}, "catching")
End(p) == Changes(p, {"starting", "running", "catching"}, "ended")

\* Mutant: the shell does not wait at all.
Waited_NotAtAll ==
  /\ at = "waits" /\ ~handling
  /\ at' = "prompt"
  /\ UNCHANGED <<source, remembered, processes, signals>>

\* waitpid returns, and whatever the status is spawn_process does too.
Waited ==
  /\ at = "waits" /\ ~handling
  /\ children[awaited] = "ended"
  /\ at' = "prompt"
  /\ children' = [children EXCEPT ![awaited] = "none"]
  /\ UNCHANGED <<source, remembered, awaited, abandoned, signals>>

-----------------------------------------------------------------------------
(* Control-C sends SIGINT to the shell and to all that it started.         *)

\* A program that does not catch it ends; a copy of the shell has its handler.
Interrupted(p) ==
  IF children[p] = "running" THEN "ended" ELSE children[p]

\* signal() has the System V meaning here: the handler is in place for one signal only,
\* until it puts itself in place again.
ControlC ==
  /\ at \in {"prompt", "waits"}
  /\ interrupts < MaxInterrupts
  /\ interrupts' = interrupts + 1
  /\ handling' = TRUE
  /\ at' = IF handling THEN "killed" ELSE at
  /\ children' = [p \in Pids |-> Interrupted(p)]
  /\ UNCHANGED <<source, remembered, awaited, abandoned>>

\* sig_int_handler knows no process to kill, because nobody sets curr_pid.  If the
\* signal came while the shell was in waitpid, that returns with an error now.
HandlerReturns ==
  /\ handling /\ at \in {"prompt", "waits"}
  /\ handling' = FALSE
  /\ \/ UNCHANGED <<at, abandoned>>
     \/ /\ at = "waits"
        /\ at' = "prompt"
        /\ abandoned' = abandoned \cup {awaited}
  /\ UNCHANGED <<source, remembered, children, awaited, interrupts>>

Program(p) == Exec(p) \/ CatchInterrupts(p) \/ End(p)

ShellNext ==
  \/ \E command \in Lines : Line(command)
  \/ \E prefix \in Recalls : Recall(prefix)
  \/ UseAfterFree \/ EndOfInput
  \/ \E p \in Pids : Program(p)
  \/ Waited \/ ControlC \/ HandlerReturns

ShellSpec == ShellInit /\ [][ShellNext]_shellVars
-----------------------------------------------------------------------------
\* Lines run in the foreground: at the prompt no program runs but those whose wait a
\* control-C broke off, and the shell waits for nothing that is not there.
ForegroundOnly ==
  /\ at = "prompt" => \A p \in Pids \ abandoned : children[p] = "none"
  /\ at = "waits" => children[awaited] # "none"

\* A recall cuts the recalled item short, but no command is lost from the history: the
\* whole of it is still there, at its place or in a copy behind it, unless the memory
\* for that copy was missing.
HistoryKeepsCommands ==
  [][history' # history /\ Len(entered') > Len(entered) =>
       \A i \in 1..Len(history.items) :
         \E j \in i..Len(history'.items) : history'.items[j] = history.items[i]]_shellVars

\* "! will run the most recent command with a matching prefix" (display_help).
RecallRunsMostRecent ==
  [][\A prefix \in Recalls :
       Recall(prefix) /\ Len(entered') > Len(entered) =>
         LET matching == {i \in 1..Len(entered) : IsPrefix(prefix, entered[i])}
         IN Last(entered') = entered[CHOOSE i \in matching : \A j \in matching : i >= j]]_shellVars
=============================================================================
