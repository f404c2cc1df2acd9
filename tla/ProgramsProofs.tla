--------------------------- MODULE ProgramsProofs ---------------------------
(***************************************************************************)
(* Theorems about the programs that run on their own, and their proofs.    *)
(*                                                                         *)
(* The shell, for any lines, processes and control-Cs: programs run in the *)
(* foreground, and the history loses no command.                           *)
(*                                                                         *)
(* The sorted sets, for any keys, objects and memory: every set has a      *)
(* buffer of its own and every buffer its set, and what is seen of them    *)
(* are sets in ascending order.                                            *)
(***************************************************************************)
EXTENDS Shell, SvSet, FiniteSetTheorems, SequenceTheorems, WellFoundedInduction, TLAPS

-----------------------------------------------------------------------------
(* Where the shell is, and what it has started.                            *)

States == {"none", "starting", "running", "catching", "ended"}

\* Where the shell may be, and which processes may be there then: the one that it
\* waits for, and those that a control-C made it forget.
ShellInv ==
  /\ at \in {"prompt", "waits", "exited", "crashed", "killed"}
  /\ children \in [Pids -> States]
  /\ awaited \in Pids
  /\ at = "prompt" => \A p \in Pids \ abandoned : children[p] = "none"
  /\ at = "waits" => /\ children[awaited] # "none"
                     /\ \A p \in Pids \ (abandoned \cup {awaited}) : children[p] = "none"

\* A line is run at the prompt; what it starts, the shell waits for.
LEMMA RunInv ==
  ASSUME ShellInv, at = "prompt", NEW command, Run(command)
  PROVE  ShellInv'
<1>1. CASE UNCHANGED processes /\ at' \in {"exited", "crashed", at}
  BY <1>1 DEF ShellInv, processes
<1>2. ASSUME NEW p \in Pids, Fork(p) PROVE ShellInv'
  <2>1. children' \in [Pids -> States] /\ children'[p] = "starting"
        /\ \A q \in Pids \ {p} : children'[q] = children[q]
    BY <1>2 DEF Fork, ShellInv, States
  <2> QED BY <1>2, <2>1 DEF Fork, ShellInv
<1> QED BY <1>1, <1>2 DEF Run

\* Programs go on, but a process neither appears nor disappears by it.
LEMMA ChildrenInv ==
  ASSUME ShellInv, UNCHANGED <<awaited, abandoned>>, at' \in {at, "killed"},
         children' \in [Pids -> States],
         \A p \in Pids : children'[p] = "none" <=> children[p] = "none"
  PROVE  ShellInv'
BY DEF ShellInv

LEMMA ShellInvStep ==
  ASSUME ShellInv, ShellNext
  PROVE  ShellInv'
<1>1. ASSUME NEW command \in Lines, Line(command) PROVE ShellInv'
  BY <1>1, RunInv DEF Line, Reads
<1>2. ASSUME NEW prefix \in Recalls, Recall(prefix) PROVE ShellInv'
  <2>1. PICK command : command = history.items[First(Matching(prefix))]
    OBVIOUS
  <2>2. Run(command)
    BY <1>2, <2>1 DEF Recall
  <2> QED BY <1>2, <2>2, RunInv DEF Recall, Reads
<1>3. CASE UseAfterFree \/ EndOfInput
  BY <1>3 DEF UseAfterFree, EndOfInput, ShellInv, processes
<1>4. ASSUME NEW p \in Pids, Program(p) PROVE ShellInv'
  <2>1. PICK from \in SUBSET (States \ {"none"}), to \in States \ {"none"} : Changes(p, from, to)
    BY <1>4 DEF Program, Exec, CatchInterrupts, End, States
  <2>2. children' \in [Pids -> States]
    BY <2>1 DEF Changes, ShellInv
  <2>3. \A q \in Pids : children'[q] = "none" <=> children[q] = "none"
    BY <2>1 DEF Changes, ShellInv
  <2> QED BY <2>1, <2>2, <2>3, ChildrenInv DEF Changes
<1>5. CASE Waited
  BY <1>5 DEF Waited, ShellInv, States
<1>6. CASE ControlC
  <2>1. children' \in [Pids -> States]
    BY <1>6 DEF ControlC, Interrupted, ShellInv, States
  <2>2. \A p \in Pids : children'[p] = "none" <=> children[p] = "none"
    BY <1>6 DEF ControlC, Interrupted
  <2> QED BY <1>6, <2>1, <2>2, ChildrenInv DEF ControlC
<1>7. CASE HandlerReturns
  BY <1>7 DEF HandlerReturns, ShellInv
<1> QED BY <1>1, <1>2, <1>3, <1>4, <1>5, <1>6, <1>7 DEF ShellNext

\* For any lines, any processes and any number of control-Cs: the shell comes back to
\* its prompt only when the program it started has ended, or control-C broke off the
\* wait for it.
THEOREM ProgramsRunInForeground == ShellSpec => []ForegroundOnly
<1>1. ShellInit => ShellInv
  BY DEF ShellInit, ShellInv, States
<1>2. ShellInv /\ [ShellNext]_shellVars => ShellInv'
  BY ShellInvStep DEF ShellInv, shellVars, processes
<1>3. ShellInv => ForegroundOnly
  BY DEF ShellInv, ForegroundOnly
<1> QED BY <1>1, <1>2, <1>3, PTL DEF ShellSpec

-----------------------------------------------------------------------------
(* The history.                                                            *)

Commands == Seq(STRING)

\* The history has as many items as commands were put in it.
HistoryInv ==
  /\ history.items \in Seq(Commands)
  /\ history \in [items : Seq(Commands), length : Nat, gone : BOOLEAN]
  /\ entered \in Seq(Commands)
  /\ Len(history.items) = Len(entered)

LEMMA FirstIn ==
  ASSUME NEW S \in SUBSET Nat, S # {}
  PROVE  First(S) \in S
<1>1. IsWellFoundedOn(OpToRel(<, Nat), Nat)
  BY NatLessThanWellFounded
<1>2. \E x \in S : \A y \in S : ~(<<y, x>> \in OpToRel(<, Nat))
  BY <1>1, WFMin
<1>3. \E x \in S : \A y \in S : ~(y < x)
  BY <1>2 DEF OpToRel
<1>4. \E x \in S : \A y \in S : x <= y
  BY <1>3
<1> QED BY <1>4 DEF First

\* What add_to_history makes of the history.
LEMMA AddedHistory ==
  ASSUME HistoryInv, NEW command \in Commands, NEW h \in Added(command)
  PROVE  /\ h \in [items : Seq(Commands), length : Nat, gone : BOOLEAN]
         /\ h.items = history.items \/ h.items = Append(history.items, command)
<1>1. history \in [items : Seq(Commands), length : Nat, gone : BOOLEAN] /\ Growth \in Nat
  BY ShellAssumption DEF HistoryInv
<1>2. Append(history.items, command) \in Seq(Commands)
  BY <1>1
<1>3. PICK longer \in Nat, more \in Seq(Commands) :
        longer = history.length + Growth /\ more = Append(history.items, command)
  <2>1. history.length + Growth \in Nat
    BY <1>1
  <2> QED BY <1>2, <2>1
<1>4. h \in {history, [history EXCEPT !.items = more],
              [[history EXCEPT !.items = more] EXCEPT !.length = longer],
              [history EXCEPT !.length = longer, !.gone = TRUE]}
  BY <1>3 DEF Added
<1> QED BY <1>1, <1>3, <1>4

\* A recalled item has a first word.
LEMMA Recalled ==
  ASSUME HistoryInv, NEW prefix \in Recalls, Matching(prefix) # {}
  PROVE  /\ First(Matching(prefix)) \in 1..Len(history.items)
         /\ history.items[First(Matching(prefix))] \in Commands
         /\ SubSeq(history.items[First(Matching(prefix))], 1, 1) \in Commands
<1>1. Matching(prefix) \in SUBSET Nat
  BY DEF Matching, HistoryInv
<1>2. PICK i : i = First(Matching(prefix))
  OBVIOUS
<1>3. i \in 1..Len(history.items) /\ prefix # <<>> /\ IsPrefix(prefix, history.items[i])
  BY <1>1, <1>2, FirstIn DEF Matching
<1>4. PICK c \in Commands : c = history.items[i]
  BY <1>3 DEF HistoryInv
<1>5. prefix \in Seq(STRING) /\ Len(prefix) >= 1
  BY <1>3, ShellAssumption
<1>6. Len(c) \in Nat /\ Len(c) >= 1
  <2>1. Len(prefix) <= Len(c)
    BY <1>3, <1>4 DEF IsPrefix
  <2> QED BY <1>4, <1>5, <2>1 DEF Commands
<1>7. SubSeq(c, 1, 1) \in Seq(STRING)
  <2>1. \A j \in 1..1 : c[j] \in STRING
    BY <1>4, <1>6 DEF Commands
  <2> QED BY <2>1, SubSeqProperties
<1> QED BY <1>2, <1>3, <1>4, <1>7 DEF Commands

\* strtok changes the words of one item only.
LEMMA TokenizedHistory ==
  ASSUME NEW h \in [items : Seq(Commands), length : Nat, gone : BOOLEAN],
         NEW i \in 1..Len(h.items), SubSeq(h.items[i], 1, 1) \in Commands
  PROVE  /\ Tokenized(h, i) \in [items : Seq(Commands), length : Nat, gone : BOOLEAN]
         /\ Len(Tokenized(h, i).items) = Len(h.items)
         /\ \A j \in 1..Len(h.items) \ {i} : Tokenized(h, i).items[j] = h.items[j]
<1>1. PICK s \in Seq(Commands) : s = h.items
  OBVIOUS
<1>2. PICK w \in Commands : w = SubSeq(s[i], 1, 1)
  BY <1>1
<1>3. PICK t : t = [s EXCEPT ![i] = w]
  OBVIOUS
<1>4. t \in Seq(Commands) /\ Len(t) = Len(s) /\ \A j \in 1..Len(s) \ {i} : t[j] = s[j]
  BY <1>1, <1>2, <1>3
<1>5. Tokenized(h, i) = [h EXCEPT !.items = t]
  BY <1>1, <1>2, <1>3 DEF Tokenized
<1> QED BY <1>1, <1>4, <1>5

\* The commands that were there are there.
Keeps == \A i \in 1..Len(history.items) :
           \E j \in i..Len(history'.items) : history'.items[j] = history.items[i]

LEMMA LineKeeps ==
  ASSUME HistoryInv, NEW command \in Lines, Line(command)
  PROVE  /\ HistoryInv'
         /\ Len(entered') > Len(entered) => Keeps
<1>1. command \in Commands /\ history' \in Added(command)
  BY ShellAssumption DEF Commands, Line
<1>2. /\ history' \in [items : Seq(Commands), length : Nat, gone : BOOLEAN]
      /\ history'.items = history.items \/ history'.items = Append(history.items, command)
  BY <1>1, AddedHistory
<1>3. CASE history'.items = history.items
  BY <1>2, <1>3 DEF Line, HistoryInv, Keeps
<1>4. CASE history'.items # history.items
  <2>1. history'.items = Append(history.items, command) /\ entered' = Append(entered, command)
    BY <1>2, <1>4 DEF Line
  <2>2. PICK s \in Seq(Commands), e \in Seq(Commands) : s = history.items /\ e = entered /\ Len(s) = Len(e)
    BY DEF HistoryInv
  <2>3. Append(s, command) \in Seq(Commands) /\ Len(Append(s, command)) = Len(s) + 1
        /\ Append(e, command) \in Seq(Commands) /\ Len(Append(e, command)) = Len(e) + 1
        /\ \A i \in 1..Len(s) : Append(s, command)[i] = s[i]
    BY <1>1, <2>2, AppendProperties
  <2>4. HistoryInv'
    BY <1>2, <2>1, <2>2, <2>3 DEF HistoryInv
  <2>5. Keeps
    <3> SUFFICES ASSUME NEW i \in 1..Len(s)
                 PROVE  \E j \in i..Len(history'.items) : history'.items[j] = s[i]
      BY <2>2 DEF Keeps
    <3>1. i \in i..Len(history'.items) /\ history'.items[i] = s[i]
      BY <2>1, <2>2, <2>3
    <3> QED BY <3>1
  <2> QED BY <2>4, <2>5
<1> QED BY <1>3, <1>4

LEMMA RecallKeeps ==
  ASSUME HistoryInv, NEW prefix \in Recalls, Recall(prefix)
  PROVE  /\ HistoryInv'
         /\ Len(entered') > Len(entered) => Keeps
<1>1. Matching(prefix) # {}
  BY DEF Recall
<1>2. PICK i : i = First(Matching(prefix))
  OBVIOUS
<1>3. i \in 1..Len(history.items) /\ history.items[i] \in Commands
      /\ SubSeq(history.items[i], 1, 1) \in Commands
  BY <1>1, <1>2, Recalled
<1>4. PICK s \in Seq(Commands), e \in Seq(Commands), c \in Commands :
        s = history.items /\ e = entered /\ Len(s) = Len(e) /\ c = history.items[i]
  BY <1>3 DEF HistoryInv
<1>5. PICK h \in Added(c) :
        /\ history' = Tokenized(h, i)
        /\ entered' = IF Len(h.items) = Len(entered) THEN entered ELSE Append(entered, c)
  BY <1>2, <1>4 DEF Recall
<1>6. /\ h \in [items : Seq(Commands), length : Nat, gone : BOOLEAN]
      /\ h.items = s \/ h.items = Append(s, c)
  BY <1>4, <1>5, AddedHistory
<1>7. Append(s, c) \in Seq(Commands) /\ Len(Append(s, c)) = Len(s) + 1
      /\ Append(e, c) \in Seq(Commands) /\ Len(Append(e, c)) = Len(e) + 1
      /\ Append(s, c)[Len(s) + 1] = c
      /\ \A j \in 1..Len(s) : Append(s, c)[j] = s[j]
  BY <1>4, AppendProperties
<1>8. i \in 1..Len(h.items) /\ h.items[i] = s[i]
  <2>1. CASE h.items = s
    BY <1>3, <1>4, <2>1
  <2>2. CASE h.items = Append(s, c)
    BY <1>3, <1>4, <1>7, <2>2
  <2> QED BY <1>6, <2>1, <2>2
<1>9. /\ history' \in [items : Seq(Commands), length : Nat, gone : BOOLEAN]
      /\ Len(history'.items) = Len(h.items)
      /\ \A j \in 1..Len(h.items) \ {i} : history'.items[j] = h.items[j]
  BY <1>3, <1>4, <1>5, <1>6, <1>8, TokenizedHistory
<1>10. CASE h.items = s
  <2>1. entered' = e
    BY <1>4, <1>5, <1>10
  <2>2. HistoryInv'
    BY <1>4, <1>9, <1>10, <2>1 DEF HistoryInv
  <2> QED BY <1>4, <2>1, <2>2
<1>11. CASE h.items = Append(s, c)
  <2>1. entered' = Append(e, c)
    BY <1>4, <1>5, <1>7, <1>11
  <2>2. HistoryInv'
    BY <1>4, <1>7, <1>9, <1>11, <2>1 DEF HistoryInv
  <2>3. ASSUME NEW k \in 1..Len(s)
        PROVE  \E j \in k..Len(history'.items) : history'.items[j] = s[k]
    <3>1. CASE k = i
      <4>1. Len(s) + 1 \in k..Len(history'.items) /\ Len(s) + 1 # i
            /\ Len(s) + 1 \in 1..Len(h.items)
        BY <1>3, <1>4, <1>7, <1>9, <1>11
      <4>2. history'.items[Len(s) + 1] = s[k]
        BY <1>4, <1>7, <1>9, <1>11, <3>1, <4>1
      <4> QED BY <4>1, <4>2
    <3>2. CASE k # i
      <4>1. k \in k..Len(history'.items) /\ k \in 1..Len(h.items) \ {i}
        BY <1>4, <1>7, <1>9, <1>11, <3>2
      <4>2. history'.items[k] = s[k]
        BY <1>7, <1>9, <1>11, <4>1
      <4> QED BY <4>1, <4>2
    <3> QED BY <3>1, <3>2
  <2>4. Keeps
    BY <1>4, <2>3 DEF Keeps
  <2> QED BY <2>2, <2>4
<1> QED BY <1>6, <1>10, <1>11

LEMMA HistoryInvStep ==
  ASSUME HistoryInv, [ShellNext]_shellVars
  PROVE  /\ HistoryInv'
         /\ history' # history /\ Len(entered') > Len(entered) => Keeps
<1>1. ASSUME UNCHANGED remembered
      PROVE  HistoryInv' /\ history' = history
  BY <1>1 DEF HistoryInv, remembered
<1>2. ASSUME NEW command \in Lines, Line(command)
      PROVE  HistoryInv' /\ (Len(entered') > Len(entered) => Keeps)
  BY <1>2, LineKeeps
<1>3. ASSUME NEW prefix \in Recalls, Recall(prefix)
      PROVE  HistoryInv' /\ (Len(entered') > Len(entered) => Keeps)
  BY <1>3, RecallKeeps
<1>4. CASE UNCHANGED shellVars
  BY <1>1, <1>4 DEF shellVars
<1>5. CASE UseAfterFree \/ EndOfInput \/ (\E p \in Pids : Program(p))
           \/ Waited \/ ControlC \/ HandlerReturns
  BY <1>1, <1>5 DEF UseAfterFree, EndOfInput, Program, Exec, CatchInterrupts, End, Changes,
                    Waited, ControlC, HandlerReturns
<1> QED BY <1>2, <1>3, <1>4, <1>5 DEF ShellNext

\* For any lines and prefixes: a recall cuts an item short, and the whole of it is in
\* the history nevertheless, unless there was no memory for its copy.
THEOREM NoCommandIsForgotten == ShellSpec => HistoryKeepsCommands
<1>1. ShellInit => HistoryInv
  <2> SUFFICES ASSUME ShellInit PROVE HistoryInv
    OBVIOUS
  <2>1. history.items = <<>> /\ history.length \in Nat /\ history.gone = FALSE
        /\ history = [items |-> history.items, length |-> history.length, gone |-> history.gone]
    <3>1. history \in [items : {<<>>}, length : {0, Growth}, gone : {FALSE}]
      BY DEF ShellInit
    <3>2. Growth \in Nat /\ 0 \in Nat
      BY ShellAssumption
    <3> QED BY <3>1, <3>2
  <2>2. <<>> \in Seq(Commands) /\ entered = <<>>
    BY DEF ShellInit
  <2> QED BY <2>1, <2>2 DEF HistoryInv
<1>2. HistoryInv /\ [ShellNext]_shellVars => HistoryInv'
  BY HistoryInvStep
<1>3. HistoryInv /\ [ShellNext]_shellVars =>
        [history' # history /\ Len(entered') > Len(entered) =>
           \A i \in 1..Len(history.items) :
             \E j \in i..Len(history'.items) : history'.items[j] = history.items[i]]_shellVars
  BY HistoryInvStep DEF Keeps
<1> QED BY <1>1, <1>2, <1>3, PTL DEF ShellSpec, HistoryKeepsCommands

-----------------------------------------------------------------------------
(* What a buffer is filled with.                                           *)

SetObjects == [start : Buffers \cup {Nowhere}, finish : Nat, end : Nat]

\* What an object can use, and what its memory may hold.
Cells == Keys \cup {Moved}
Memory == Keys \cup {Raw, Moved, Spilt}

\* A buffer of an object: keys up to finish, and none it could use from there to the end.
Fits(o, row) ==
  /\ row \in Seq(Memory) /\ Len(row) = o.end /\ o.finish <= o.end
  /\ \A i \in 1..Len(row) : row[i] \in Cells <=> i <= o.finish

\* So many keys, and maybe something behind them.
Counts(keys, size) ==
  /\ keys \in Seq(Memory) /\ size \in 0..Len(keys)
  /\ \A i \in 1..Len(keys) : keys[i] \in Cells <=> i <= size

\* The keys of a set as it should have them.
Ascends(keys) == \A i \in 1..Len(keys), j \in 1..Len(keys) : i < j => keys[i] < keys[j]

LEMMA KeysAreNumbers ==
  ASSUME NEW keys \in Seq(Keys)
  PROVE  Len(keys) \in Nat /\ \A i \in 1..Len(keys) : keys[i] \in Keys /\ keys[i] \in Nat
<1>1. Keys \subseteq Nat
  BY SetAssumption
<1>2. \A i \in 1..Len(keys) : keys[i] \in Keys
  OBVIOUS
<1>3. Len(keys) \in Nat
  BY LenProperties
<1> QED BY <1>1, <1>2, <1>3

\* The keys below one of them are fewer than those below a larger one, so that the
\* k-th key is one for each k.
LEMMA AscendingOf ==
  ASSUME NEW S \in SUBSET Keys
  PROVE  /\ Ascending(S) \in Seq(Keys) /\ Ascends(Ascending(S))
         /\ Cardinality(S) \in Nat /\ Len(Ascending(S)) = Cardinality(S)
         /\ \A i \in 1..Cardinality(S) : Ascending(S)[i] \in S
<1> DEFINE upto(x) == {y \in S : y <= x}
<1>1. IsFiniteSet(S) /\ S \subseteq Nat
  BY FS_Subset, SetAssumption
<1>2. PICK c \in Nat : c = Cardinality(S)
  BY <1>1, FS_CardinalityType
<1>3. ASSUME NEW x \in S
      PROVE  /\ IsFiniteSet(upto(x)) /\ Cardinality(upto(x)) \in 1..c
  <2>1. IsFiniteSet(upto(x)) /\ Cardinality(upto(x)) <= c
    BY <1>1, <1>2, FS_Subset
  <2>2. Cardinality(upto(x)) \in Nat
    BY <2>1, FS_CardinalityType
  <2>3. x \in upto(x)
    BY <1>1
  <2>4. Cardinality(upto(x)) # 0
    BY <2>1, <2>3, FS_EmptySet
  <2> QED BY <2>1, <2>2, <2>4
<1>4. ASSUME NEW x \in S, NEW y \in S, x < y
      PROVE  Cardinality(upto(x)) < Cardinality(upto(y))
  <2>1. upto(x) \subseteq upto(y) /\ y \in upto(y) /\ y \notin upto(x)
    <3>1. \A z \in S : z \in Nat
      BY <1>1
    <3>2. \A z \in S : z <= x => z <= y
      BY <1>4, <3>1
    <3> QED BY <1>4, <3>1, <3>2
  <2>2. Cardinality(upto(x)) <= Cardinality(upto(y))
        /\ Cardinality(upto(x)) # Cardinality(upto(y))
    <3>1. PICK A, B : A = upto(x) /\ B = upto(y)
      OBVIOUS
    <3>2. IsFiniteSet(B) /\ A \in SUBSET B /\ A # B
      BY <1>3, <2>1, <3>1
    <3>3. Cardinality(A) <= Cardinality(B) /\ (Cardinality(B) = Cardinality(A) => B = A)
      BY <3>2, FS_Subset
    <3> QED BY <3>1, <3>2, <3>3
  <2>3. Cardinality(upto(x)) \in Nat /\ Cardinality(upto(y)) \in Nat
    BY <1>3
  <2> QED BY <2>2, <2>3
<1>5. PICK r : r = [x \in S |-> Cardinality(upto(x))]
  OBVIOUS
<1>6. /\ r \in [S -> 1..c]
      /\ \A x \in S, y \in S : x < y => r[x] < r[y]
  BY <1>3, <1>4, <1>5
<1> HIDE DEF upto
<1>7. \A x \in S, y \in S : r[x] = r[y] => x = y
  <2> SUFFICES ASSUME NEW x \in S, NEW y \in S, r[x] = r[y], x # y PROVE FALSE
    OBVIOUS
  <2>1. x \in Nat /\ y \in Nat /\ r[x] \in Nat /\ r[y] \in Nat
    BY <1>1, <1>6
  <2>2. x < y \/ y < x
    BY <2>1
  <2> QED BY <1>6, <2>1, <2>2
<1>8. \A i \in 1..c : \E x \in S : r[x] = i
  <2>1. r \in Injection(S, 1..c)
    BY <1>6, <1>7 DEF Injection, IsInjective
  <2>2. IsFiniteSet(1..c) /\ Cardinality(1..c) = c
    BY FS_Interval
  <2>3. r \in Surjection(S, 1..c)
    BY <1>2, <2>1, <2>2, FS_Injection
  <2> QED BY <2>3 DEF Surjection
<1>9. PICK s : s = [i \in 1..c |-> CHOOSE x \in S : r[x] = i]
  OBVIOUS
<1>a. \A i \in 1..c : s[i] \in S /\ r[s[i]] = i
  BY <1>8, <1>9
<1>b. s \in [1..c -> S] /\ \A i, j \in DOMAIN s : i < j => s[i] < s[j]
  <2>1. s \in [1..c -> S]
    BY <1>9, <1>a
  <2>2. ASSUME NEW i \in 1..c, NEW j \in 1..c, i < j PROVE s[i] < s[j]
    <3>1. s[i] \in Nat /\ s[j] \in Nat /\ s[i] \in S /\ s[j] \in S
      BY <1>1, <1>a
    <3>2. ~(s[j] < s[i]) /\ s[j] # s[i]
      BY <1>6, <1>a, <2>2, <3>1
    <3> QED BY <3>1, <3>2
  <2> QED BY <2>1, <2>2
<1>c. PICK t : t = Ascending(S)
  OBVIOUS
<1>d. t \in [1..c -> S] /\ \A i, j \in DOMAIN t : i < j => t[i] < t[j]
  <2>1. t = CHOOSE u \in [1..c -> S] : \A i, j \in DOMAIN u : i < j => u[i] < u[j]
    BY <1>2, <1>c DEF Ascending
  <2> QED BY ONLY <1>b, <2>1, Zenon
<1>e. t \in Seq(Keys) /\ Len(t) = c
  BY <1>d
<1> QED BY <1>2, <1>c, <1>d, <1>e DEF Ascends

LEMMA KindsOfCells ==
  /\ Cells \subseteq Memory /\ Keys \subseteq Cells /\ Moved \in Cells /\ Moved \notin Keys
  /\ Raw \in Memory /\ Raw \notin Cells /\ Spilt \in Memory /\ Spilt \notin Cells
BY SetAssumption DEF Cells, Memory

LEMMA CountsCells ==
  ASSUME NEW keys \in Seq(Cells)
  PROVE  /\ Counts(keys, Len(keys)) /\ SubSeq(keys, 1, Len(keys)) = keys
         /\ keys \in Seq(Memory) /\ Len(keys) \in Nat
<1>1. Len(keys) \in Nat /\ \A i \in 1..Len(keys) : keys[i] \in Cells
  OBVIOUS
<1>2. keys \in Seq(Memory)
  BY KindsOfCells
<1>3. SubSeq(keys, 1, Len(keys)) = keys
  OBVIOUS
<1> QED BY <1>1, <1>2, <1>3 DEF Counts

LEMMA KeysAreCells ==
  ASSUME NEW keys \in Seq(Keys)
  PROVE  keys \in Seq(Cells)
BY KindsOfCells

\* The keys and what is behind them.
LEMMA FilledRow ==
  ASSUME NEW keys \in Seq(Memory), NEW end \in Nat, Len(keys) <= end
  PROVE  /\ Filled(keys, end) \in Seq(Memory) /\ Len(Filled(keys, end)) = end
         /\ \A i \in 1..end : Filled(keys, end)[i] = IF i <= Len(keys) THEN keys[i] ELSE Raw
<1>1. PICK l \in Nat : l = Len(keys)
  OBVIOUS
<1>2. PICK rest : rest = [i \in 1..(end - l) |-> Raw]
  OBVIOUS
<1>3. rest \in Seq(Memory) /\ Len(rest) = end - l /\ \A i \in 1..(end - l) : rest[i] = Raw
  <2>1. end - l \in Nat
    BY <1>1
  <2>2. rest \in [1..(end - l) -> Memory]
    BY <1>2, KindsOfCells
  <2> QED BY <1>2, <2>1, <2>2
<1>4. PICK row : row = keys \o rest
  OBVIOUS
<1>5. /\ row \in Seq(Memory) /\ Len(row) = end
      /\ \A i \in 1..end : row[i] = IF i <= l THEN keys[i] ELSE Raw
  BY <1>1, <1>3, <1>4, ConcatProperties
<1>6. Filled(keys, end) = row
  BY <1>1, <1>2, <1>4 DEF Filled
<1> QED BY <1>1, <1>5, <1>6

\* The first of the cells of a row that begins with the keys.
LEMMA SameFirst ==
  ASSUME NEW keys, NEW size, Counts(keys, size), NEW row \in Seq(Memory),
         Len(keys) <= Len(row), \A i \in 1..Len(keys) : row[i] = keys[i]
  PROVE  SubSeq(row, 1, size) = SubSeq(keys, 1, size)
<1>1. PICK k \in Seq(Memory), n \in Nat : k = keys /\ n = size /\ n <= Len(k)
  BY DEF Counts
<1>2. PICK s : s = SubSeq(row, 1, n)
  OBVIOUS
<1>3. PICK t : t = SubSeq(k, 1, n)
  OBVIOUS
<1>4. s \in Seq(Memory) /\ Len(s) = n /\ \A i \in 1..n : s[i] = row[i]
  BY <1>1, <1>2
<1>5. t \in Seq(Memory) /\ Len(t) = n /\ \A i \in 1..n : t[i] = k[i]
  BY <1>1, <1>3
<1>6. \A i \in 1..n : s[i] = t[i]
  BY <1>1, <1>4, <1>5
<1>7. s = t
  BY <1>4, <1>5, <1>6
<1> QED BY <1>1, <1>2, <1>3, <1>7

\* A new buffer.
LEMMA FilledFits ==
  ASSUME NEW keys, NEW size, Counts(keys, size), NEW end \in Nat, Len(keys) <= end,
         NEW o \in SetObjects, o.finish = size, o.end = end
  PROVE  /\ Fits(o, Filled(keys, end))
         /\ SubSeq(Filled(keys, end), 1, size) = SubSeq(keys, 1, size)
<1>1. PICK row : row = Filled(keys, end)
  OBVIOUS
<1>2. /\ row \in Seq(Memory) /\ Len(row) = end
      /\ \A i \in 1..end : row[i] = IF i <= Len(keys) THEN keys[i] ELSE Raw
  BY <1>1, FilledRow DEF Counts
<1>3. size \in Nat /\ Len(keys) \in Nat /\ size <= Len(keys)
  BY DEF Counts
<1>4. \A i \in 1..end : row[i] \in Cells <=> i <= size
  BY <1>2, <1>3, KindsOfCells DEF Counts
<1>5. Fits(o, row)
  BY <1>2, <1>3, <1>4 DEF Fits
<1>6. \A i \in 1..Len(keys) : row[i] = keys[i]
  BY <1>2, <1>3
<1> QED BY <1>1, <1>2, <1>5, <1>6, SameFirst

\* Other keys in an old one.
LEMMA RefilledFits ==
  ASSUME NEW o \in SetObjects, Fits(o, memory[o.start]),
         NEW keys, NEW size, Counts(keys, size), Len(keys) <= o.end,
         NEW p \in SetObjects, p.finish = size, p.end = o.end
  PROVE  /\ Fits(p, Refilled(o, keys))
         /\ SubSeq(Refilled(o, keys), 1, size) = SubSeq(keys, 1, size)
<1>1. PICK old \in Seq(Memory), f \in Nat, e \in Nat :
        /\ old = memory[o.start] /\ f = o.finish /\ e = o.end /\ Len(old) = e
        /\ \A i \in 1..e : old[i] \in Cells <=> i <= f
  BY DEF Fits, SetObjects
<1>2. PICK k \in Seq(Memory), l \in Nat, n \in Nat :
        /\ k = keys /\ l = Len(k) /\ n = size /\ n <= l /\ l <= e
        /\ \A i \in 1..l : k[i] \in Cells <=> i <= n
  BY <1>1 DEF Counts
<1>3. PICK row : row = [i \in 1..e |-> IF i <= l THEN k[i] ELSE IF i <= f THEN Raw ELSE old[i]]
  OBVIOUS
<1>4. row = Refilled(o, keys)
  BY <1>1, <1>2, <1>3 DEF Refilled
<1>5. \A i \in 1..e : row[i] \in Memory /\ (row[i] \in Cells <=> i <= n)
  <2>1. ASSUME NEW i \in 1..e, i <= l PROVE row[i] \in Memory /\ (row[i] \in Cells <=> i <= n)
    BY <1>2, <1>3, <2>1
  <2>2. ASSUME NEW i \in 1..e, i > l PROVE row[i] \in Memory /\ row[i] \notin Cells
    BY <1>1, <1>2, <1>3, <2>2, KindsOfCells
  <2> QED BY <1>2, <2>1, <2>2
<1>6. row \in Seq(Memory) /\ Len(row) = e
  <2>1. row \in [1..e -> Memory]
    BY <1>3, <1>5
  <2> QED BY <1>3, <2>1
<1>7. Fits(p, row)
  BY <1>1, <1>2, <1>5, <1>6 DEF Fits
<1>8. Len(keys) <= Len(row) /\ \A i \in 1..Len(keys) : row[i] = keys[i]
  BY <1>2, <1>3, <1>6
<1> QED BY <1>4, <1>6, <1>7, <1>8, SameFirst

\* What an object can use of memory.
Owns(o, mem) ==
  IF o.start = Nowhere THEN o = Empty ELSE o.start \in Buffers /\ Fits(o, mem[o.start])

LEMMA ContentOf ==
  ASSUME NEW o \in SetObjects, Owns(o, memory)
  PROVE  Content(o) \in Seq(Cells) /\ Len(Content(o)) = o.finish /\ o.finish <= o.end
<1>1. CASE o.start = Nowhere
  BY <1>1 DEF Content, Empty, Owns
<1>2. CASE o.start # Nowhere
  <2>1. PICK row \in Seq(Memory), f \in Nat : row = memory[o.start] /\ f = o.finish
    BY <1>2 DEF Owns, Fits, SetObjects
  <2>2. f <= Len(row) /\ \A i \in 1..f : row[i] \in Cells
    BY <1>2, <2>1 DEF Owns, Fits
  <2>3. /\ SubSeq(row, 1, f) \in Seq(Memory) /\ Len(SubSeq(row, 1, f)) = f
        /\ \A i \in 1..f : SubSeq(row, 1, f)[i] = row[i]
    BY <2>1, <2>2
  <2>4. SubSeq(row, 1, f) \in Seq(Cells)
    BY <2>2, <2>3
  <2> QED BY <1>2, <2>1, <2>3, <2>4 DEF Content, Owns, Fits
<1> QED BY <1>1, <1>2

\* insert finds a place for a key.
LEMMA LowerBoundIn ==
  ASSUME NEW keys \in Seq(Keys), NEW k \in Keys
  PROVE  /\ LowerBound(keys, k) \in 1..(Len(keys) + 1)
         /\ \A j \in 1..(LowerBound(keys, k) - 1) : keys[j] < k
         /\ LowerBound(keys, k) <= Len(keys) => keys[LowerBound(keys, k)] >= k
<1>1. PICK l \in Nat : l = Len(keys)
  OBVIOUS
<1>2. k \in Nat /\ \A i \in 1..l : keys[i] \in Nat
  <2>1. Keys \subseteq Nat /\ \A i \in 1..l : keys[i] \in Keys
    BY <1>1, SetAssumption
  <2> QED BY <2>1
<1>3. PICK S \in SUBSET Nat : S = {i \in 1..(l + 1) : i <= l => keys[i] >= k}
  <2>1. {i \in 1..(l + 1) : i <= l => keys[i] >= k} \subseteq Nat
    OBVIOUS
  <2> QED BY <2>1
<1>4. S # {}
  <2>1. l + 1 \in S
    BY <1>3
  <2> QED BY <2>1
<1>5. IsWellFoundedOn(OpToRel(<, Nat), Nat)
  BY NatLessThanWellFounded
<1>6. \E x \in S : \A y \in S : ~(<<y, x>> \in OpToRel(<, Nat))
  BY <1>4, <1>5, WFMin
<1>7. PICK i \in S : \A y \in S : ~(y < i)
  BY <1>6 DEF OpToRel
<1>8. /\ i \in 1..(l + 1)
      /\ \A j \in 1..(i - 1) : keys[j] < k
      /\ i <= l => keys[i] >= k
  <2>1. ASSUME NEW j \in 1..(i - 1) PROVE keys[j] < k
    <3>1. j \in 1..l /\ j < i
      BY <1>3
    <3>2. ~(keys[j] >= k)
      BY <1>3, <1>7, <3>1
    <3> QED BY <1>2, <3>1, <3>2
  <2> QED BY <1>3, <2>1
<1>9. PICK b : b = LowerBound(keys, k)
  OBVIOUS
<1>a. b \in 1..(l + 1) /\ (\A j \in 1..(b - 1) : keys[j] < k) /\ (b <= l => keys[b] >= k)
  <2>1. b = CHOOSE a \in 1..(l + 1) : (\A j \in 1..(a - 1) : keys[j] < k) /\ (a <= l => keys[a] >= k)
    BY <1>1, <1>9 DEF LowerBound
  <2>2. \E a \in 1..(l + 1) : (\A j \in 1..(a - 1) : keys[j] < k) /\ (a <= l => keys[a] >= k)
    BY <1>8
  <2> QED BY ONLY <2>1, <2>2, Zenon
<1> QED BY <1>1, <1>9, <1>a

\* With one key more, from whose place on the others are one place further.
MakesRoom(longer, keys, i, k) ==
  /\ Len(longer) = Len(keys) + 1
  /\ \A j \in 1..(Len(keys) + 1) :
       longer[j] = IF j < i THEN keys[j] ELSE IF j = i THEN k ELSE keys[j - 1]

LEMMA Longer ==
  ASSUME NEW T, NEW keys \in Seq(T), NEW k \in T, NEW i \in 1..(Len(keys) + 1)
  PROVE  InsertAt(keys, i, k) \in Seq(T) /\ MakesRoom(InsertAt(keys, i, k), keys, i, k)
<1>1. /\ SubSeq(keys, 1, i - 1) \in Seq(T) /\ Len(SubSeq(keys, 1, i - 1)) = i - 1
      /\ \A j \in 1..(i - 1) : SubSeq(keys, 1, i - 1)[j] = keys[j]
  OBVIOUS
<1>2. /\ SubSeq(keys, i, Len(keys)) \in Seq(T) /\ Len(SubSeq(keys, i, Len(keys))) = Len(keys) + 1 - i
      /\ \A j \in 1..(Len(keys) + 1 - i) : SubSeq(keys, i, Len(keys))[j] = keys[j + i - 1]
  OBVIOUS
<1>3. <<k>> \in Seq(T) /\ Len(<<k>>) = 1 /\ <<k>>[1] = k
  OBVIOUS
<1>4. PICK l \in Nat : l = Len(keys)
  BY LenProperties
<1>a. PICK a \in Seq(T) :
        a = SubSeq(keys, 1, i - 1) /\ Len(a) = i - 1 /\ \A j \in 1..(i - 1) : a[j] = keys[j]
  BY <1>1
<1>b. PICK b \in Seq(T) : b = <<k>> /\ Len(b) = 1 /\ b[1] = k
  BY <1>3
<1>c. PICK c \in Seq(T) :
        /\ c = SubSeq(keys, i, Len(keys)) /\ Len(c) = l + 1 - i
        /\ \A j \in 1..(l + 1 - i) : c[j] = keys[j + i - 1]
  BY <1>2, <1>4
<1>5. PICK d : d = a \o b
  OBVIOUS
<1>6. /\ d \in Seq(T) /\ Len(d) = i
      /\ \A j \in 1..i : d[j] = IF j < i THEN keys[j] ELSE k
  <2>1. /\ d \in Seq(T) /\ Len(d) = Len(a) + Len(b)
        /\ \A j \in 1..(Len(a) + Len(b)) : d[j] = IF j <= Len(a) THEN a[j] ELSE b[j - Len(a)]
    BY <1>5, ConcatProperties
  <2>2. i \in Nat /\ i >= 1 /\ Len(a) + Len(b) = i
    BY <1>4, <1>a, <1>b
  <2>3. Len(d) = i /\ \A j \in 1..i : d[j] = IF j <= i - 1 THEN a[j] ELSE b[j - (i - 1)]
    BY <1>a, <1>b, <2>1, <2>2
  <2>4. ASSUME NEW j \in 1..i PROVE d[j] = IF j < i THEN keys[j] ELSE k
    <3>1. CASE j < i
      <4>1. j <= i - 1 /\ j \in 1..(i - 1)
        BY <2>2, <3>1
      <4>2. d[j] = a[j] /\ a[j] = keys[j]
        BY <1>a, <2>3, <4>1
      <4> QED BY <3>1, <4>2
    <3>2. CASE j = i
      <4>1. j - (i - 1) = 1 /\ ~(j <= i - 1)
        BY <2>2, <3>2
      <4> QED BY <1>b, <2>3, <3>2, <4>1
    <3> QED BY <2>2, <3>1, <3>2
  <2> QED BY <2>1, <2>3, <2>4
<1>7. PICK e : e = d \o c
  OBVIOUS
<1>8. /\ e \in Seq(T) /\ Len(e) = l + 1
      /\ \A j \in 1..(l + 1) : e[j] = IF j < i THEN keys[j] ELSE IF j = i THEN k ELSE keys[j - 1]
  <2>1. /\ e \in Seq(T) /\ Len(e) = Len(d) + Len(c)
        /\ \A j \in 1..(Len(d) + Len(c)) : e[j] = IF j <= Len(d) THEN d[j] ELSE c[j - Len(d)]
    BY <1>6, <1>7, ConcatProperties
  <2>2. i \in Nat /\ i >= 1 /\ i <= l + 1 /\ Len(d) + Len(c) = l + 1
    BY <1>4, <1>6, <1>c
  <2>3. Len(e) = l + 1 /\ \A j \in 1..(l + 1) : e[j] = IF j <= i THEN d[j] ELSE c[j - i]
    BY <1>6, <2>1, <2>2
  <2>4. ASSUME NEW j \in 1..(l + 1), j > i PROVE e[j] = keys[j - 1]
    <3>1. j - i \in 1..(l + 1 - i) /\ (j - i) + i - 1 = j - 1
      BY <2>2, <2>4
    <3> QED BY <1>c, <2>2, <2>3, <2>4, <3>1
  <2>5. ASSUME NEW j \in 1..(l + 1), j <= i PROVE e[j] = IF j < i THEN keys[j] ELSE k
    BY <1>6, <2>2, <2>3, <2>5
  <2> QED BY <2>1, <2>2, <2>3, <2>4, <2>5
<1>9. InsertAt(keys, i, k) = e
  BY <1>5, <1>7, <1>a, <1>b, <1>c DEF InsertAt
<1>d. MakesRoom(e, keys, i, k)
  BY <1>4, <1>8 DEF MakesRoom
<1> QED BY <1>8, <1>9, <1>d

LEMMA Shorter ==
  ASSUME NEW T, NEW keys \in Seq(T), NEW i \in 1..Len(keys)
  PROVE  /\ RemoveAt(keys, i) \in Seq(T) /\ Len(RemoveAt(keys, i)) = Len(keys) - 1
         /\ \A j \in 1..(Len(keys) - 1) :
              RemoveAt(keys, i)[j] = IF j < i THEN keys[j] ELSE keys[j + 1]
<1>1. /\ SubSeq(keys, 1, i - 1) \in Seq(T) /\ Len(SubSeq(keys, 1, i - 1)) = i - 1
      /\ \A j \in 1..(i - 1) : SubSeq(keys, 1, i - 1)[j] = keys[j]
  OBVIOUS
<1>2. /\ SubSeq(keys, i + 1, Len(keys)) \in Seq(T) /\ Len(SubSeq(keys, i + 1, Len(keys))) = Len(keys) - i
      /\ \A j \in 1..(Len(keys) - i) : SubSeq(keys, i + 1, Len(keys))[j] = keys[j + i]
  OBVIOUS
<1>3. PICK l \in Nat : l = Len(keys)
  BY LenProperties
<1>a. PICK a \in Seq(T) :
        a = SubSeq(keys, 1, i - 1) /\ Len(a) = i - 1 /\ \A j \in 1..(i - 1) : a[j] = keys[j]
  BY <1>1
<1>b. PICK b \in Seq(T) :
        /\ b = SubSeq(keys, i + 1, Len(keys)) /\ Len(b) = l - i
        /\ \A j \in 1..(l - i) : b[j] = keys[j + i]
  BY <1>2, <1>3
<1>4. PICK e : e = a \o b
  OBVIOUS
<1>5. /\ e \in Seq(T) /\ Len(e) = Len(a) + Len(b)
      /\ \A j \in 1..(Len(a) + Len(b)) : e[j] = IF j <= Len(a) THEN a[j] ELSE b[j - Len(a)]
  BY <1>4, ConcatProperties
<1>6. i \in Nat /\ i >= 1 /\ i <= l /\ Len(a) + Len(b) = l - 1
  <2>1. i \in Nat /\ i >= 1 /\ i <= l
    BY <1>3
  <2>2. (i - 1) + (l - i) = l - 1
    BY <1>3, <2>1
  <2> QED BY <1>a, <1>b, <2>1, <2>2
<1>7. Len(e) = l - 1 /\ \A j \in 1..(l - 1) : e[j] = IF j <= i - 1 THEN a[j] ELSE b[j - (i - 1)]
  BY <1>a, <1>5, <1>6
<1>8. ASSUME NEW j \in 1..(l - 1) PROVE e[j] = IF j < i THEN keys[j] ELSE keys[j + 1]
  <2>1. CASE j < i
    BY <1>a, <1>6, <1>7, <2>1
  <2>2. CASE j >= i
    <3>1. j - (i - 1) \in 1..(l - i) /\ (j - (i - 1)) + i = j + 1 /\ ~(j <= i - 1) /\ ~(j < i)
      BY <1>6, <2>2
    <3> QED BY <1>b, <1>7, <3>1
  <2> QED BY <1>6, <2>1, <2>2
<1>9. RemoveAt(keys, i) = e
  BY <1>4, <1>a, <1>b DEF RemoveAt
<1> QED BY <1>3, <1>5, <1>7, <1>8, <1>9

-----------------------------------------------------------------------------
(* Who has which memory.                                                   *)

Alive(objs, t) == {n \in Names : objs[n] # Absent /\ n \notin t}

\* Each object has its memory, no two the same, and all memory is somebody's.  Torn
\* objects point somewhere, but have nothing.
Proper(objs, mem, t) ==
  /\ objs \in [Names -> SetObjects \cup {Absent}]
  /\ mem \in [Buffers -> Seq(Memory) \cup {Absent}]
  /\ t \subseteq Names
  /\ \A n \in t : objs[n] # Absent /\ objs[n].start \in Buffers
  /\ \A n \in Alive(objs, t) : Owns(objs[n], mem)
  /\ \A n \in Alive(objs, t), m \in Alive(objs, t) :
       n # m /\ objs[n].start = objs[m].start => objs[n].start = Nowhere
  /\ \A b \in Buffers : mem[b] # Absent => \E n \in Alive(objs, t) : objs[n].start = b

\* The buffer of an object, if there is an object with a buffer.
BufferOf(o) == IF o = Absent THEN Nowhere ELSE o.start

LEMMA NowhereIsNoBuffer ==
  /\ Nowhere \notin Buffers
  /\ \A o \in SetObjects : o # Absent /\ o.start \in Buffers \cup {Nowhere}
  /\ \A row \in Seq(Memory) : row # Absent
  /\ Empty \in SetObjects /\ Empty.start = Nowhere
BY SetAssumption DEF SetObjects, Empty, Memory

\* An object that gives up its memory has none, is none, or is torn.
LEMMA GivesUp ==
  ASSUME NEW objs, NEW mem, NEW t, Proper(objs, mem, t), NEW n \in Names \ t,
         NEW o \in SetObjects \cup {Absent}, NEW u,
         \/ u = t /\ o \in {Absent, Empty}
         \/ u = t \cup {n} /\ o # Absent /\ o.start \in Buffers
  PROVE  Proper([objs EXCEPT ![n] = o], Delete(mem, BufferOf(objs[n])), u)
<1>1. PICK objs2, mem2 : objs2 = [objs EXCEPT ![n] = o] /\ mem2 = Delete(mem, BufferOf(objs[n]))
  OBVIOUS
<1>2. /\ objs2 \in [Names -> SetObjects \cup {Absent}]
      /\ objs2[n] = o /\ \A m \in Names \ {n} : objs2[m] = objs[m]
  BY <1>1 DEF Proper
<1>3. /\ mem2 \in [Buffers -> Seq(Memory) \cup {Absent}]
      /\ \A b \in Buffers : mem2[b] = IF b = BufferOf(objs[n]) THEN Absent ELSE mem[b]
  BY <1>1 DEF Proper, Delete
<1>4. u \subseteq Names /\ \A m \in u : objs2[m] # Absent /\ objs2[m].start \in Buffers
  BY <1>2 DEF Proper
<1>5. /\ \A m \in Alive(objs2, u) : (m = n /\ o = Empty) \/ (m # n /\ m \in Alive(objs, t))
      /\ \A m \in Alive(objs, t) : m # n => m \in Alive(objs2, u) /\ objs2[m] = objs[m]
      /\ n \in Alive(objs, t) <=> objs[n] # Absent
  <2>1. n \in Alive(objs2, u) => o = Empty
    BY <1>2 DEF Alive
  <2>2. \A m \in Names \ {n} : m \in Alive(objs2, u) <=> m \in Alive(objs, t)
    BY <1>2 DEF Alive
  <2>3. Alive(objs2, u) \subseteq Names /\ Alive(objs, t) \subseteq Names
    BY DEF Alive
  <2>4. n \in Alive(objs, t) <=> objs[n] # Absent
    BY DEF Alive
  <2>5. ASSUME NEW m \in Alive(objs2, u)
        PROVE  (m = n /\ o = Empty) \/ (m # n /\ m \in Alive(objs, t))
    <3>1. CASE m = n
      BY <2>1, <3>1
    <3>2. CASE m # n
      BY <2>2, <2>3, <3>2
    <3> QED BY <3>1, <3>2
  <2>6. ASSUME NEW m \in Alive(objs, t), m # n PROVE m \in Alive(objs2, u) /\ objs2[m] = objs[m]
    BY <1>2, <2>2, <2>3, <2>6
  <2> QED BY <2>4, <2>5, <2>6
<1>6. ASSUME NEW m \in Alive(objs2, u) PROVE Owns(objs2[m], mem2)
  <2>1. CASE m = n
    BY <1>2, <1>5, <2>1, NowhereIsNoBuffer DEF Owns
  <2>2. CASE m # n
    <3>1. m \in Alive(objs, t) /\ objs2[m] = objs[m] /\ Owns(objs[m], mem)
      BY <1>5, <2>2 DEF Proper
    <3>2. objs[m].start \in Buffers => objs[m].start # BufferOf(objs[n])
      BY <1>5, <2>2, <3>1, NowhereIsNoBuffer DEF Proper, BufferOf
    <3> QED BY <1>3, <3>1, <3>2 DEF Owns
  <2> QED BY <2>1, <2>2
<1>7. ASSUME NEW m \in Alive(objs2, u), NEW p \in Alive(objs2, u),
             m # p, objs2[m].start = objs2[p].start
      PROVE  objs2[m].start = Nowhere
  BY <1>2, <1>5, <1>7, NowhereIsNoBuffer DEF Proper
<1>8. ASSUME NEW b \in Buffers, mem2[b] # Absent
      PROVE  \E m \in Alive(objs2, u) : objs2[m].start = b
  <2>1. mem[b] # Absent /\ b # BufferOf(objs[n])
    BY <1>3, <1>8
  <2>2. PICK m \in Alive(objs, t) : objs[m].start = b
    BY <2>1 DEF Proper
  <2>3. m # n
    BY <2>1, <2>2 DEF BufferOf, Alive
  <2> QED BY <1>5, <2>2, <2>3
<1>9. Proper(objs2, mem2, u)
  BY <1>2, <1>3, <1>4, <1>6, <1>7, <1>8 DEF Proper
<1> QED BY <1>1, <1>9

\* An object without memory takes memory that nobody has.
LEMMA Takes ==
  ASSUME NEW objs, NEW mem, NEW t, Proper(objs, mem, t), NEW n \in Names \ t,
         objs[n] \in {Absent, Empty},
         NEW b \in Buffers, mem[b] = Absent,
         NEW o \in SetObjects, o.start = b, NEW row, Fits(o, row)
  PROVE  Proper([objs EXCEPT ![n] = o], [mem EXCEPT ![b] = row], t)
<1>1. PICK objs2, mem2 : objs2 = [objs EXCEPT ![n] = o] /\ mem2 = [mem EXCEPT ![b] = row]
  OBVIOUS
<1>2. /\ objs2 \in [Names -> SetObjects \cup {Absent}]
      /\ objs2[n] = o /\ \A m \in Names \ {n} : objs2[m] = objs[m]
  BY <1>1 DEF Proper
<1>3. /\ mem2 \in [Buffers -> Seq(Memory) \cup {Absent}]
      /\ mem2[b] = row /\ \A c \in Buffers \ {b} : mem2[c] = mem[c]
  BY <1>1 DEF Proper, Fits
<1>4. t \subseteq Names /\ \A m \in t : objs2[m] # Absent /\ objs2[m].start \in Buffers
  BY <1>2 DEF Proper
<1>5. /\ n \in Alive(objs2, t)
      /\ \A m \in Names \ {n} : m \in Alive(objs2, t) <=> m \in Alive(objs, t)
      /\ Alive(objs2, t) \subseteq Names
  BY <1>2, NowhereIsNoBuffer DEF Alive
<1>6. ASSUME NEW m \in Alive(objs, t), m # n PROVE objs[m].start # b
  <2>1. Owns(objs[m], mem)
    BY DEF Proper
  <2>2. objs[m].start = b => mem[b] \in Seq(Memory)
    BY <2>1, NowhereIsNoBuffer DEF Owns, Fits
  <2> QED BY <2>2, NowhereIsNoBuffer
<1>7. ASSUME NEW m \in Alive(objs2, t) PROVE Owns(objs2[m], mem2)
  <2>1. CASE m = n
    BY <1>2, <1>3, <2>1, NowhereIsNoBuffer DEF Owns
  <2>2. CASE m # n
    <3>1. m \in Alive(objs, t) /\ objs2[m] = objs[m] /\ Owns(objs[m], mem)
      BY <1>2, <1>5, <2>2 DEF Proper
    <3> QED BY <1>3, <1>6, <2>2, <3>1 DEF Owns
  <2> QED BY <2>1, <2>2
<1>8. ASSUME NEW m \in Alive(objs2, t), NEW p \in Alive(objs2, t),
             m # p, objs2[m].start = objs2[p].start
      PROVE  objs2[m].start = Nowhere
  BY <1>2, <1>5, <1>6, <1>8 DEF Proper
<1>9. ASSUME NEW c \in Buffers, mem2[c] # Absent
      PROVE  \E m \in Alive(objs2, t) : objs2[m].start = c
  <2>1. CASE c = b
    BY <1>2, <1>5, <2>1
  <2>2. CASE c # b
    <3>1. PICK m \in Alive(objs, t) : objs[m].start = c
      BY <1>3, <1>9, <2>2 DEF Proper
    <3>2. m # n
      BY <2>2, <3>1, NowhereIsNoBuffer DEF Alive
    <3> QED BY <1>2, <1>5, <3>1, <3>2 DEF Alive
  <2> QED BY <2>1, <2>2
<1>a. t \subseteq Names
  BY DEF Proper
<1>b. Proper(objs2, mem2, t)
  BY <1>2, <1>3, <1>4, <1>7, <1>8, <1>9, <1>a DEF Proper
<1> QED BY <1>1, <1>b

\* An object goes on with the memory it has.
LEMMA Refills ==
  ASSUME NEW objs, NEW mem, NEW t, Proper(objs, mem, t), NEW n \in Alive(objs, t),
         NEW b \in Buffers, objs[n].start = b,
         NEW o \in SetObjects, o.start = b, NEW row, Fits(o, row)
  PROVE  Proper([objs EXCEPT ![n] = o], [mem EXCEPT ![b] = row], t)
<1>1. PICK objs2, mem2 : objs2 = [objs EXCEPT ![n] = o] /\ mem2 = [mem EXCEPT ![b] = row]
  OBVIOUS
<1>2. /\ objs2 \in [Names -> SetObjects \cup {Absent}] /\ n \in Names
      /\ objs2[n] = o /\ \A m \in Names \ {n} : objs2[m] = objs[m]
  BY <1>1 DEF Proper, Alive
<1>3. /\ mem2 \in [Buffers -> Seq(Memory) \cup {Absent}]
      /\ mem2[b] = row /\ \A c \in Buffers \ {b} : mem2[c] = mem[c]
  BY <1>1 DEF Proper, Fits
<1>4. t \subseteq Names /\ \A m \in t : objs2[m] # Absent /\ objs2[m].start \in Buffers
  BY <1>2 DEF Proper, Alive
<1>5. Alive(objs2, t) = Alive(objs, t) /\ \A m \in Alive(objs, t) : objs2[m].start = objs[m].start
  BY <1>2, NowhereIsNoBuffer DEF Alive
<1>6. ASSUME NEW m \in Alive(objs, t), m # n PROVE objs[m].start # b
  BY <1>6, NowhereIsNoBuffer DEF Proper
<1>7. ASSUME NEW m \in Alive(objs2, t) PROVE Owns(objs2[m], mem2)
  <2>1. CASE m = n
    BY <1>2, <1>3, <2>1, NowhereIsNoBuffer DEF Owns
  <2>2. CASE m # n
    <3>1. m \in Alive(objs, t) /\ objs2[m] = objs[m] /\ Owns(objs[m], mem)
      BY <1>2, <1>5, <2>2 DEF Proper, Alive
    <3> QED BY <1>3, <1>6, <2>2, <3>1 DEF Owns
  <2> QED BY <2>1, <2>2
<1>8. /\ \A m \in Alive(objs2, t), p \in Alive(objs2, t) :
           m # p /\ objs2[m].start = objs2[p].start => objs2[m].start = Nowhere
      /\ \A c \in Buffers : mem2[c] # Absent => \E m \in Alive(objs2, t) : objs2[m].start = c
  BY <1>3, <1>5 DEF Proper
<1>9. Proper(objs2, mem2, t)
  BY <1>2, <1>3, <1>4, <1>7, <1>8 DEF Proper
<1> QED BY <1>1, <1>9

\* Two objects exchange what they have.
LEMMA Exchanges ==
  ASSUME NEW objs, NEW mem, NEW t, Proper(objs, mem, t),
         NEW n \in Names \ t, NEW m \in Names \ t
  PROVE  Proper([objs EXCEPT ![n] = objs[m], ![m] = objs[n]], mem, t)
<1>1. PICK objs2 : objs2 = [objs EXCEPT ![n] = objs[m], ![m] = objs[n]]
  OBVIOUS
<1>2. PICK p : p = [x \in Names |-> IF x = n THEN m ELSE IF x = m THEN n ELSE x]
  OBVIOUS
<1>3. /\ objs2 \in [Names -> SetObjects \cup {Absent}]
      /\ \A x \in Names : objs2[x] = objs[p[x]]
  BY <1>1, <1>2 DEF Proper
<1>4. /\ \A x \in Names : p[x] \in Names /\ p[p[x]] = x
      /\ \A x \in t : p[x] = x
      /\ \A x \in Names : p[x] \in t <=> x \in t
  BY <1>2 DEF Proper
<1>5. \A x \in Names : x \in Alive(objs2, t) <=> p[x] \in Alive(objs, t)
  BY <1>3, <1>4 DEF Alive
<1>6. \A x \in Alive(objs2, t) : x \in Names /\ p[x] \in Alive(objs, t) /\ objs2[x] = objs[p[x]]
  BY <1>3, <1>5 DEF Alive
<1>7. /\ mem \in [Buffers -> Seq(Memory) \cup {Absent}]
      /\ t \subseteq Names
      /\ \A x \in t : objs2[x] # Absent /\ objs2[x].start \in Buffers
  BY <1>3, <1>4 DEF Proper
<1>8. \A x \in Alive(objs2, t) : Owns(objs2[x], mem)
  BY <1>6 DEF Proper
<1>9. ASSUME NEW x \in Alive(objs2, t), NEW y \in Alive(objs2, t),
             x # y, objs2[x].start = objs2[y].start
      PROVE  objs2[x].start = Nowhere
  BY <1>4, <1>6, <1>9 DEF Proper
<1>a. ASSUME NEW b \in Buffers, mem[b] # Absent
      PROVE  \E x \in Alive(objs2, t) : objs2[x].start = b
  <2>1. PICK x \in Alive(objs, t) : objs[x].start = b
    BY <1>a DEF Proper
  <2>2. x \in Names /\ p[x] \in Names /\ p[p[x]] = x
    BY <1>4 DEF Alive
  <2>3. p[x] \in Alive(objs2, t) /\ objs2[p[x]] = objs[x]
    BY <1>3, <1>5, <2>2
  <2> QED BY <2>1, <2>3
<1>b. Proper(objs2, mem, t)
  BY <1>3, <1>7, <1>8, <1>9, <1>a DEF Proper
<1> QED BY <1>1, <1>b

\* Memory that is deleted a second time is taken from whoever has it by now.
LEMMA TornDies ==
  ASSUME NEW objs, NEW mem, NEW t, Proper(objs, mem, t), NEW n \in t, NEW b, b = objs[n].start,
         NEW u, u = {m \in Names \ {n} : m \in t \/ (objs[m] # Absent /\ objs[m].start = b)}
  PROVE  Proper([objs EXCEPT ![n] = Absent], Delete(mem, b), u)
<1>1. PICK objs2, mem2 : objs2 = [objs EXCEPT ![n] = Absent] /\ mem2 = Delete(mem, b)
  OBVIOUS
<1>2. /\ objs2 \in [Names -> SetObjects \cup {Absent}] /\ n \in Names /\ b \in Buffers
      /\ objs2[n] = Absent /\ \A m \in Names \ {n} : objs2[m] = objs[m]
  BY <1>1 DEF Proper
<1>3. /\ mem2 \in [Buffers -> Seq(Memory) \cup {Absent}]
      /\ \A c \in Buffers : mem2[c] = IF c = b THEN Absent ELSE mem[c]
  BY <1>1 DEF Proper, Delete
<1>4. u \subseteq Names /\ \A m \in u : objs2[m] # Absent /\ objs2[m].start \in Buffers
  BY <1>2 DEF Proper
<1>5. \A m \in Names : m \in Alive(objs2, u) <=> m \in Alive(objs, t) /\ objs[m].start # b
  BY <1>2 DEF Alive
<1>6. \A m \in Alive(objs2, u) :
        m \in Names /\ m \in Alive(objs, t) /\ objs2[m] = objs[m] /\ objs[m].start # b
  BY <1>2, <1>5 DEF Alive
<1>7. ASSUME NEW m \in Alive(objs2, u) PROVE Owns(objs2[m], mem2)
  <2>1. Owns(objs[m], mem)
    BY <1>6 DEF Proper
  <2> QED BY <1>3, <1>6, <2>1 DEF Owns
<1>8. ASSUME NEW x \in Alive(objs2, u), NEW y \in Alive(objs2, u),
             x # y, objs2[x].start = objs2[y].start
      PROVE  objs2[x].start = Nowhere
  BY <1>6, <1>8 DEF Proper
<1>9. ASSUME NEW c \in Buffers, mem2[c] # Absent
      PROVE  \E m \in Alive(objs2, u) : objs2[m].start = c
  <2>1. c # b /\ mem[c] # Absent
    BY <1>3, <1>9
  <2>2. PICK m \in Alive(objs, t) : objs[m].start = c
    BY <2>1 DEF Proper
  <2>3. m \in Names /\ m # n
    BY DEF Alive
  <2> QED BY <1>2, <1>5, <2>1, <2>2, <2>3
<1>a. Proper(objs2, mem2, u)
  BY <1>2, <1>3, <1>4, <1>7, <1>8, <1>9 DEF Proper
<1> QED BY <1>1, <1>a

\* An object gives up what it has for memory that is free then.
LEMMA Replaces ==
  ASSUME NEW objs, NEW mem, NEW t, Proper(objs, mem, t), NEW n \in Names \ t,
         NEW freed, freed = Delete(mem, BufferOf(objs[n])),
         NEW b \in Buffers, freed[b] = Absent,
         NEW o \in SetObjects, o.start = b, NEW row, Fits(o, row)
  PROVE  Proper([objs EXCEPT ![n] = o], [freed EXCEPT ![b] = row], t)
<1>1. PICK objs2 : objs2 = [objs EXCEPT ![n] = Empty]
  OBVIOUS
<1>2. Proper(objs2, freed, t)
  BY <1>1, GivesUp, NowhereIsNoBuffer
<1>3. objs2[n] = Empty /\ [objs2 EXCEPT ![n] = o] = [objs EXCEPT ![n] = o]
  BY <1>1 DEF Proper
<1>4. Proper([objs2 EXCEPT ![n] = o], [freed EXCEPT ![b] = row], t)
  BY <1>2, <1>3, Takes
<1> QED BY <1>3, <1>4

SetInv == Proper(objects, memory, torn)

\* What can be used is alive and has its memory.
LEMMA UsableIsAlive ==
  ASSUME SetInv, NEW n \in Names, Usable(n)
  PROVE  /\ n \in Alive(objects, torn) /\ n \in Names \ torn
         /\ objects[n] \in SetObjects /\ Owns(objects[n], memory)
         /\ BufferOf(objects[n]) = objects[n].start
         /\ Content(objects[n]) \in Seq(Cells) /\ Len(Content(objects[n])) = objects[n].finish
         /\ objects[n].finish \in Nat /\ objects[n].end \in Nat
         /\ objects[n].finish <= objects[n].end
         /\ objects[n].end > 0 => objects[n].start \in Buffers
<1>1. n \in Alive(objects, torn) /\ n \in Names \ torn
  BY DEF Usable, Alive
<1>2. objects[n] \in SetObjects /\ Owns(objects[n], memory)
  BY <1>1 DEF SetInv, Proper, Alive
<1>3. BufferOf(objects[n]) = objects[n].start
  BY <1>2, NowhereIsNoBuffer DEF BufferOf
<1>4. objects[n].end > 0 => objects[n].start \in Buffers
  BY <1>2 DEF Owns, Empty
<1>5. objects[n].finish \in Nat /\ objects[n].end \in Nat
  BY <1>2 DEF SetObjects
<1> QED BY <1>1, <1>2, <1>3, <1>4, <1>5, ContentOf

LEMMA AbsentIsNotTorn ==
  ASSUME SetInv, NEW n \in Names, objects[n] = Absent
  PROVE  n \in Names \ torn /\ BufferOf(objects[n]) = Nowhere
BY DEF SetInv, Proper, BufferOf

LEMMA Reallocates ==
  ASSUME SetInv, NEW n \in Names \ torn, NEW keys, NEW size, Counts(keys, size),
         NEW capacity \in Nat, Len(keys) <= capacity,
         Reallocate(n, keys, size, capacity), torn' = torn
  PROVE  SetInv'
<1>1. PICK b \in FreeIn(memory) :
        /\ memory' = Delete([memory EXCEPT ![b] = Filled(keys, capacity)], BufferOf(objects[n]))
        /\ objects' = [objects EXCEPT ![n] = [start |-> b, finish |-> size, end |-> capacity]]
  BY DEF Reallocate, BufferOf
<1>2. PICK o : o = [start |-> b, finish |-> size, end |-> capacity]
  OBVIOUS
<1>3. PICK row : row = Filled(keys, capacity)
  OBVIOUS
<1>4. PICK freed : freed = Delete(memory, BufferOf(objects[n]))
  OBVIOUS
<1>5. b \in Buffers /\ memory[b] = Absent
  BY DEF FreeIn
<1>6. o \in SetObjects /\ o.start = b /\ Fits(o, row)
  <2>1. o \in SetObjects /\ o.start = b /\ o.finish = size /\ o.end = capacity
    BY <1>2, <1>5 DEF SetObjects, Counts
  <2> QED BY <1>3, <2>1, FilledFits
<1>7. b # BufferOf(objects[n])
  <2>1. CASE objects[n] = Absent
    BY <1>5, <2>1, NowhereIsNoBuffer DEF BufferOf
  <2>2. CASE objects[n] # Absent
    <3>1. Owns(objects[n], memory)
      BY <2>2 DEF SetInv, Proper, Alive
    <3> QED BY <1>5, <2>2, <3>1, NowhereIsNoBuffer DEF BufferOf, Owns, Fits
  <2> QED BY <2>1, <2>2
<1>8. freed[b] = Absent /\ memory' = [freed EXCEPT ![b] = row]
  BY <1>1, <1>3, <1>4, <1>5, <1>7 DEF Delete, SetInv, Proper
<1>9. Proper([objects EXCEPT ![n] = o], [freed EXCEPT ![b] = row], torn)
  BY <1>4, <1>5, <1>6, <1>8, Replaces DEF SetInv
<1>a. objects' = [objects EXCEPT ![n] = o]
  BY <1>1, <1>2
<1>b. Proper(objects', memory', torn')
  BY <1>8, <1>9, <1>a
<1> QED BY <1>b DEF SetInv

\* A call that fails, or only looks.
LEMMA NothingNew ==
  ASSUME SetInv, UNCHANGED <<objects, memory, torn>>
  PROVE  SetInv'
BY DEF SetInv

LEMMA ConstructInv ==
  ASSUME SetInv, NEW n \in Names,
         Construct(n) \/ \E S \in SUBSET Keys : OrderedConstruct(n, S)
  PROVE  SetInv'
<1>0. objects[n] = Absent /\ n \in Names \ torn /\ BufferOf(objects[n]) = Nowhere
  BY AbsentIsNotTorn DEF Construct, OrderedConstruct
<1>1. CASE Construct(n)
  <2>1. Proper([objects EXCEPT ![n] = Empty], Delete(memory, Nowhere), torn)
    BY <1>0, GivesUp, NowhereIsNoBuffer DEF SetInv
  <2>2. Delete(memory, Nowhere) = memory
    BY NowhereIsNoBuffer DEF Delete, SetInv, Proper
  <2>3. Proper(objects', memory', torn')
    BY <1>1, <2>1, <2>2 DEF Construct
  <2> QED BY <2>3 DEF SetInv
<1>2. ASSUME NEW S \in SUBSET Keys, OrderedConstruct(n, S) PROVE SetInv'
  <2>1. CASE Reallocate(n, Ascending(S), Cardinality(S), Cardinality(S)) /\ torn' = torn
    <3>1. PICK keys \in Seq(Keys), c \in Nat : keys = Ascending(S) /\ c = Cardinality(S) /\ Len(keys) = c
      BY AscendingOf
    <3>2. Reallocate(n, keys, c, c) /\ Len(keys) <= c /\ Counts(keys, c)
      BY <2>1, <3>1, KeysAreCells, CountsCells
    <3> QED BY <1>0, <2>1, <3>2, Reallocates
  <2>2. CASE Fails
    BY <2>2, NothingNew DEF Fails
  <2> QED BY <1>2, <2>1, <2>2 DEF OrderedConstruct
<1> QED BY <1>1, <1>2

LEMMA CopyConstructInv ==
  ASSUME SetInv, NEW n \in Names, NEW m \in Names, CopyConstruct(n, m)
  PROVE  SetInv'
<1>1. n \in Names \ torn /\ Usable(m)
  BY AbsentIsNotTorn DEF CopyConstruct
<1>2. CASE Reallocate(n, Content(objects[m]), objects[m].finish, objects[m].end) /\ torn' = torn
  <2>1. PICK keys \in Seq(Cells), f \in Nat, e \in Nat :
          /\ keys = Content(objects[m]) /\ f = objects[m].finish /\ e = objects[m].end
          /\ Len(keys) = f /\ f <= e
    BY <1>1, UsableIsAlive
  <2>2. Counts(keys, f) /\ Reallocate(n, keys, f, e)
    BY <1>2, <2>1, CountsCells
  <2> QED BY <1>1, <1>2, <2>1, <2>2, Reallocates
<1>3. CASE Fails
  BY <1>3, NothingNew DEF Fails
<1> QED BY <1>2, <1>3 DEF CopyConstruct

LEMMA MoveInv ==
  ASSUME SetInv, NEW n \in Names, NEW m \in Names,
         MoveConstruct(n, m) \/ MoveAssign(n, m) \/ SwapWith(n, m)
  PROVE  SetInv'
<1>1. n \in Names \ torn /\ m \in Names \ torn
  BY AbsentIsNotTorn DEF MoveConstruct, MoveAssign, SwapWith, Usable
<1>2. CASE SwapWith(n, m)
  <2>1. Proper([objects EXCEPT ![n] = objects[m], ![m] = objects[n]], memory, torn)
    BY <1>1, Exchanges DEF SetInv
  <2>2. Proper(objects', memory', torn')
    BY <1>2, <2>1 DEF SwapWith
  <2> QED BY <2>2 DEF SetInv
<1>3. CASE MoveConstruct(n, m) \/ MoveAssign(n, m)
  <2>1. PICK objs : objs = [objects EXCEPT ![n] = Empty]
    OBVIOUS
  <2>2. PICK mem : mem = Delete(memory, BufferOf(objects[n]))
    OBVIOUS
  <2>3. Proper(objs, mem, torn)
    BY <1>1, <2>1, <2>2, GivesUp, NowhereIsNoBuffer DEF SetInv
  <2>4. Proper([objs EXCEPT ![n] = objs[m], ![m] = objs[n]], mem, torn)
    BY <1>1, <2>3, Exchanges
  <2>5. n # m
    BY <1>3 DEF MoveConstruct, MoveAssign, Usable
  <2>6. objects' = [objs EXCEPT ![n] = objs[m], ![m] = objs[n]] /\ torn' = torn
    BY <1>1, <1>3, <2>1, <2>5 DEF MoveConstruct, MoveAssign, SetInv, Proper
  <2>7. memory' = mem
    <3>1. CASE MoveAssign(n, m)
      BY <2>2, <3>1, UsableIsAlive DEF MoveAssign
    <3>2. CASE MoveConstruct(n, m)
      <4>1. mem = Delete(memory, Nowhere) /\ memory' = memory
        BY <2>2, <3>2, AbsentIsNotTorn DEF MoveConstruct
      <4> QED BY <4>1, NowhereIsNoBuffer DEF Delete, SetInv, Proper
    <3> QED BY <1>3, <3>1, <3>2
  <2>8. Proper(objects', memory', torn')
    BY <2>4, <2>6, <2>7
  <2> QED BY <2>8 DEF SetInv
<1> QED BY <1>2, <1>3

LEMMA CopyAssignInv ==
  ASSUME SetInv, NEW n \in Names, NEW m \in Names, CopyAssign(n, m)
  PROVE  SetInv'
<1>1. PICK freed : freed = Delete(memory, BufferOf(objects[n]))
  OBVIOUS
<1>2. Usable(n) /\ Usable(m)
  BY DEF CopyAssign
<1>3. PICK x \in SetObjects, y \in SetObjects : x = objects[n] /\ y = objects[m]
  BY <1>2, UsableIsAlive
<1>4. freed = Delete(memory, objects[n].start)
  BY <1>1, <1>2, UsableIsAlive
<1>5. ASSUME NEW b \in FreeIn(freed),
             memory' = [freed EXCEPT ![b] = Filled(Content(objects[m]), objects[m].end)],
             objects' = [objects EXCEPT ![n] = [objects[m] EXCEPT !.start = b]],
             torn' = torn
      PROVE  SetInv'
  <2>1. b \in Buffers /\ freed[b] = Absent
    BY DEF FreeIn
  <2>2. PICK o : o = [y EXCEPT !.start = b]
    OBVIOUS
  <2>3. o \in SetObjects /\ o.start = b /\ o.finish = y.finish /\ o.end = y.end
    BY <2>1, <2>2 DEF SetObjects
  <2>4. PICK keys \in Seq(Cells), end \in Nat :
          keys = Content(objects[m]) /\ end = y.end /\ Len(keys) = y.finish /\ Len(keys) <= end
    BY <1>2, <1>3, UsableIsAlive
  <2>5. PICK row : row = Filled(keys, end)
    OBVIOUS
  <2>6. Fits(o, row)
    BY <2>3, <2>4, <2>5, CountsCells, FilledFits
  <2>7. Proper([objects EXCEPT ![n] = o], [freed EXCEPT ![b] = row], torn)
    BY <1>1, <1>2, <2>1, <2>3, <2>6, UsableIsAlive, Replaces DEF SetInv
  <2>8. objects' = [objects EXCEPT ![n] = o] /\ memory' = [freed EXCEPT ![b] = row]
    BY <1>3, <1>5, <2>2, <2>4, <2>5
  <2>9. Proper(objects', memory', torn')
    BY <1>5, <2>7, <2>8
  <2> QED BY <2>9 DEF SetInv
<1>6. ASSUME memory' = freed,
             objects' = [objects EXCEPT ![n].finish = 0],
             torn' = IF objects[n].start = Nowhere THEN torn ELSE torn \cup {n}
      PROVE  SetInv'
  <2>1. PICK o : o = [x EXCEPT !.finish = 0]
    OBVIOUS
  <2>2. o \in SetObjects /\ o.start = x.start /\ (x = Empty => o = Empty)
    BY <1>3, <2>1 DEF SetObjects, Empty
  <2>3. x.start \in Buffers \/ x = Empty
    BY <1>2, <1>3, UsableIsAlive DEF Owns
  <2>4. objects' = [objects EXCEPT ![n] = o]
    BY <1>3, <1>6, <2>1
  <2>5. \/ torn' = torn /\ o \in {Absent, Empty}
        \/ torn' = torn \cup {n} /\ o # Absent /\ o.start \in Buffers
    <3>1. CASE x = Empty
      <4>1. objects[n].start = Nowhere
        BY <1>3, <3>1, NowhereIsNoBuffer
      <4> QED BY <1>6, <2>2, <3>1, <4>1
    <3>2. CASE x.start \in Buffers
      <4>1. objects[n].start # Nowhere /\ o # Absent
        BY <1>3, <2>2, <3>2, NowhereIsNoBuffer
      <4> QED BY <1>6, <2>2, <3>2, <4>1
    <3> QED BY <2>3, <3>1, <3>2
  <2>6. Proper([objects EXCEPT ![n] = o], freed, torn')
    BY <1>1, <1>2, <2>2, <2>5, UsableIsAlive, GivesUp DEF SetInv
  <2>7. Proper(objects', memory', torn')
    BY <1>6, <2>4, <2>6
  <2> QED BY <2>7 DEF SetInv
<1>7. ASSUME NEW b \in FreeIn(freed),
             memory' = freed,
             objects' = [objects EXCEPT ![n].start = b],
             torn' = torn \cup {n}
      PROVE  SetInv'
  <2>1. PICK o : o = [x EXCEPT !.start = b]
    OBVIOUS
  <2>2. o \in SetObjects /\ o.start \in Buffers
    BY <1>3, <2>1 DEF SetObjects, FreeIn
  <2>3. objects' = [objects EXCEPT ![n] = o]
    BY <1>3, <1>7, <2>1
  <2>4. Proper([objects EXCEPT ![n] = o], freed, torn')
    BY <1>1, <1>2, <1>7, <2>2, UsableIsAlive, NowhereIsNoBuffer, GivesUp DEF SetInv
  <2>5. Proper(objects', memory', torn')
    BY <1>7, <2>3, <2>4
  <2> QED BY <2>5 DEF SetInv
<1> QED BY <1>4, <1>5, <1>6, <1>7 DEF CopyAssign

LEMMA DestructInv ==
  ASSUME SetInv, NEW n \in Names, Destruct(n) \/ DestructTorn(n)
  PROVE  SetInv'
<1>1. CASE Destruct(n)
  <2>1. n \in Names \ torn /\ BufferOf(objects[n]) = objects[n].start
    BY <1>1, UsableIsAlive DEF Destruct
  <2>2. Proper([objects EXCEPT ![n] = Absent], Delete(memory, BufferOf(objects[n])), torn)
    BY <2>1, GivesUp DEF SetInv
  <2>3. Proper(objects', memory', torn')
    BY <1>1, <2>1, <2>2 DEF Destruct
  <2> QED BY <2>3 DEF SetInv
<1>2. CASE DestructTorn(n)
  <2>1. CASE UNCHANGED <<objects, memory, torn>>
    BY <2>1, NothingNew
  <2>2. CASE /\ memory' = Delete(memory, objects[n].start)
             /\ objects' = [objects EXCEPT ![n] = Absent]
             /\ torn' = {m \in Names \ {n} :
                          m \in torn \/ (objects[m] # Absent /\ objects[m].start = objects[n].start)}
    <3>1. PICK b : b = objects[n].start
      OBVIOUS
    <3>a. PICK u : u = {m \in Names \ {n} :
                         m \in torn \/ (objects[m] # Absent /\ objects[m].start = b)}
      OBVIOUS
    <3>b. n \in torn /\ Proper(objects, memory, torn)
      BY <1>2 DEF SetInv, DestructTorn
    <3>2. Proper([objects EXCEPT ![n] = Absent], Delete(memory, b), u)
      BY ONLY <3>1, <3>a, <3>b, TornDies
    <3>3. Proper(objects', memory', torn')
      BY <2>2, <3>1, <3>a, <3>2
    <3> QED BY <3>3 DEF SetInv
  <2> QED BY <1>2, <2>1, <2>2 DEF DestructTorn
<1> QED BY <1>1, <1>2

LEMMA CapacityInv ==
  ASSUME SetInv, NEW n \in Names,
         ShrinkToFit(n) \/ \E capacity \in 1..MaxCapacity : Reserve(n, capacity)
  PROVE  SetInv'
<1>1. Usable(n)
  BY DEF ShrinkToFit, Reserve
<1>2. PICK keys \in Seq(Cells), f \in Nat, e \in Nat :
        keys = Content(objects[n]) /\ f = objects[n].finish /\ e = objects[n].end
        /\ Len(keys) = f /\ f <= e /\ n \in Names \ torn /\ Counts(keys, f)
  BY <1>1, UsableIsAlive, CountsCells
<1>3. CASE ShrinkToFit(n)
  <2>1. CASE Reallocate(n, keys, f, f) /\ torn' = torn
    BY <1>2, <2>1, Reallocates
  <2>2. CASE Fails
    BY <2>2, NothingNew DEF Fails
  <2> QED BY <1>2, <1>3, <2>1, <2>2 DEF ShrinkToFit
<1>4. ASSUME NEW c \in 1..MaxCapacity, Reserve(n, c) PROVE SetInv'
  <2>1. c \in Nat /\ Len(keys) <= c
    BY <1>2, <1>4, SetAssumption DEF Reserve
  <2>2. CASE Reallocate(n, keys, f, c) /\ torn' = torn
    BY <1>2, <2>1, <2>2, Reallocates
  <2>3. CASE Fails
    BY <2>3, NothingNew DEF Fails
  <2> QED BY <1>2, <1>4, <2>2, <2>3 DEF Reserve
<1> QED BY <1>3, <1>4

\* Other keys in the same buffer.
LEMMA KeysChange ==
  ASSUME SetInv, NEW n \in Names, Usable(n), objects[n].end > 0,
         NEW keys, NEW size, Counts(keys, size), Len(keys) <= objects[n].end,
         memory' = [memory EXCEPT ![objects[n].start] = Refilled(objects[n], keys)],
         objects' = [objects EXCEPT ![n].finish = size],
         torn' = torn
  PROVE  SetInv'
<1>1. PICK x \in SetObjects, b \in Buffers :
        /\ x = objects[n] /\ b = objects[n].start /\ n \in Alive(objects, torn)
        /\ Fits(x, memory[b]) /\ x.start = b
  BY UsableIsAlive, NowhereIsNoBuffer DEF Owns
<1>2. PICK o : o = [x EXCEPT !.finish = size]
  OBVIOUS
<1>3. PICK row : row = Refilled(x, keys)
  OBVIOUS
<1>4. o \in SetObjects /\ o.start = b /\ o.finish = size /\ o.end = x.end /\ x.end \in Nat
  BY <1>1, <1>2 DEF SetObjects, Counts
<1>5. Fits(o, row)
  BY <1>1, <1>3, <1>4, RefilledFits
<1>6. Proper([objects EXCEPT ![n] = o], [memory EXCEPT ![b] = row], torn)
  BY <1>1, <1>4, <1>5, Refills DEF SetInv
<1>7. objects' = [objects EXCEPT ![n] = o] /\ memory' = [memory EXCEPT ![b] = row]
  BY <1>1, <1>2, <1>3
<1>8. Proper(objects', memory', torn')
  BY <1>6, <1>7
<1> QED BY <1>8 DEF SetInv

LEMMA ClearOrEraseInv ==
  ASSUME SetInv, NEW n \in Names,
         ClearSet(n) \/ \E i \in 1..MaxCapacity : EraseAt(n, i)
  PROVE  SetInv'
<1>1. Usable(n)
  BY DEF ClearSet, EraseAt
<1>2. PICK keys \in Seq(Cells), f \in Nat, e \in Nat :
        keys = Content(objects[n]) /\ f = objects[n].finish /\ e = objects[n].end
        /\ Len(keys) = f /\ f <= e
  BY <1>1, UsableIsAlive
<1>3. CASE ClearSet(n)
  <2>1. Counts(<<>>, 0) /\ Len(<<>>) = 0
    BY DEF Counts
  <2>2. objects[n].end > 0 /\ Len(<<>>) <= objects[n].end
    BY <1>2, <1>3, <2>1 DEF ClearSet
  <2>3. /\ memory' = [memory EXCEPT ![objects[n].start] = Refilled(objects[n], <<>>)]
        /\ objects' = [objects EXCEPT ![n].finish = 0]
        /\ torn' = torn
    BY <1>3 DEF ClearSet
  <2> QED BY <1>1, <2>1, <2>2, <2>3, KeysChange
<1>4. ASSUME NEW i \in 1..MaxCapacity, EraseAt(n, i) PROVE SetInv'
  <2>1. i \in 1..Len(keys)
    BY <1>2, <1>4 DEF EraseAt
  <2>2. PICK rest \in Seq(Cells) : rest = RemoveAt(keys, i) /\ Len(rest) = f - 1
    BY <1>2, <2>1, Shorter
  <2>3. objects[n].end > 0 /\ Len(rest) <= objects[n].end /\ Counts(rest, f - 1)
    BY <1>2, <2>1, <2>2, CountsCells
  <2>4. /\ memory' = [memory EXCEPT ![objects[n].start] = Refilled(objects[n], rest)]
        /\ objects' = [objects EXCEPT ![n].finish = f - 1]
        /\ torn' = torn
    BY <1>2, <1>4, <2>2 DEF EraseAt
  <2> QED BY <1>1, <2>2, <2>3, <2>4, KeysChange
<1> QED BY <1>3, <1>4

\* An object whose keys are all there.
LEMMA WholeIsUsable ==
  ASSUME SetInv, NEW n \in Names, Whole(n)
  PROVE  /\ Usable(n) /\ n \in Names \ torn
         /\ Content(objects[n]) \in Seq(Keys) /\ Len(Content(objects[n])) = objects[n].finish
         /\ objects[n].finish \in Nat /\ objects[n].end \in Nat
         /\ objects[n].finish <= objects[n].end
<1>1. PICK keys \in Seq(Cells) : keys = Content(objects[n]) /\ Moved \notin ToSet(keys)
  BY UsableIsAlive DEF Whole
<1>2. \A i \in 1..Len(keys) : keys[i] \in ToSet(keys) /\ keys[i] \in Cells
  BY DEF ToSet
<1>3. \A i \in 1..Len(keys) : keys[i] \in Keys
  BY <1>1, <1>2 DEF Cells
<1>4. keys \in Seq(Keys)
  BY <1>3
<1> QED BY <1>1, <1>4, UsableIsAlive DEF Whole

LEMMA FrontOf ==
  ASSUME NEW T, NEW keys \in Seq(T), keys # <<>>
  PROVE  /\ Front(keys) \in Seq(T) /\ Len(Front(keys)) = Len(keys) - 1
         /\ \A i \in 1..(Len(keys) - 1) : Front(keys)[i] = keys[i]
<1>1. PICK l \in Nat : l = Len(keys) /\ l >= 1
  BY LenProperties, EmptySeq
<1>2. PICK front : front = SubSeq(keys, 1, l - 1)
  OBVIOUS
<1>3. l - 1 \in Nat /\ l - 1 <= Len(keys)
  BY <1>1
<1>4. front \in Seq(T) /\ Len(front) = l - 1 /\ \A i \in 1..(l - 1) : front[i] = keys[i]
  BY <1>2, <1>3
<1>5. Front(keys) = front
  BY <1>1, <1>2 DEF Front
<1> QED BY <1>1, <1>4, <1>5

\* What an insertion leaves that cannot copy its key.
LEMMA ShiftedCounts ==
  ASSUME NEW keys \in Seq(Keys), NEW place \in 1..(Len(keys) + 1)
  PROVE  /\ Counts(Shifted(keys, place), Len(keys))
         /\ Len(Shifted(keys, place)) <= Len(keys) + 1
         /\ place > Len(keys) => SubSeq(Shifted(keys, place), 1, Len(keys)) = keys
         /\ place <= Len(keys) =>
              /\ InsertAt(Front(keys), place, Moved) \in Seq(Cells)
              /\ MakesRoom(InsertAt(Front(keys), place, Moved), Front(keys), place, Moved)
              /\ SubSeq(Shifted(keys, place), 1, Len(keys)) = InsertAt(Front(keys), place, Moved)
<1>1. PICK l \in Nat : l = Len(keys)
  BY KeysAreNumbers
<1>2. CASE place > l
  <2>1. Shifted(keys, place) = keys
    BY <1>1, <1>2 DEF Shifted
  <2> QED BY <1>1, <1>2, <2>1, KeysAreCells, CountsCells
<1>3. CASE place <= l
  <2>1. keys # <<>> /\ l >= 1
    BY <1>1, <1>3
  <2>2. PICK front \in Seq(Keys) : front = Front(keys) /\ Len(front) = l - 1
    BY <1>1, <2>1, FrontOf
  <2>3. front \in Seq(Cells) /\ Moved \in Cells /\ place \in 1..(Len(front) + 1)
    BY <1>1, <1>3, <2>2, KeysAreCells, KindsOfCells
  <2>4. PICK room \in Seq(Cells) : room = InsertAt(front, place, Moved) /\ MakesRoom(room, front, place, Moved)
    BY <2>3, Longer
  <2>5. Len(room) = l
    BY <2>1, <2>2, <2>4 DEF MakesRoom
  <2>6. PICK row : row = room \o <<Spilt>>
    OBVIOUS
  <2>7. /\ row \in Seq(Memory) /\ Len(row) = l + 1
        /\ \A i \in 1..(l + 1) : row[i] = IF i <= l THEN room[i] ELSE Spilt
    <3>1. room \in Seq(Memory) /\ <<Spilt>> \in Seq(Memory) /\ Len(<<Spilt>>) = 1 /\ <<Spilt>>[1] = Spilt
      BY CountsCells, KindsOfCells
    <3>2. /\ row \in Seq(Memory) /\ Len(row) = Len(room) + 1
          /\ \A i \in 1..(Len(room) + 1) : row[i] = IF i <= Len(room) THEN room[i] ELSE <<Spilt>>[i - Len(room)]
      BY <2>6, <3>1, ConcatProperties
    <3>3. \A i \in 1..(l + 1) : i > l => i - l = 1
      OBVIOUS
    <3> QED BY <2>5, <3>1, <3>2, <3>3
  <2>8. Counts(row, l)
    <3>1. \A i \in 1..l : room[i] \in Cells
      BY <2>5
    <3> QED BY <2>7, <3>1, KindsOfCells DEF Counts
  <2>9. SubSeq(row, 1, l) = room
    <3>1. SubSeq(row, 1, l) = SubSeq(room, 1, l)
      <4>1. Counts(room, l) /\ Len(room) <= Len(row) /\ \A i \in 1..Len(room) : row[i] = room[i]
        BY <2>5, <2>7, CountsCells
      <4> QED BY <2>7, <4>1, SameFirst
    <3> QED BY <2>5, <3>1, CountsCells
  <2>a. Shifted(keys, place) = row
    BY <1>1, <1>3, <2>2, <2>4, <2>6 DEF Shifted
  <2> QED BY <1>1, <1>3, <2>2, <2>4, <2>7, <2>8, <2>9, <2>a
<1> QED BY <1>1, <1>2, <1>3

LEMMA MakeRoomInv ==
  ASSUME SetInv, NEW n \in Names, Usable(n), NEW keys, NEW size, Counts(keys, size),
         Len(keys) <= objects[n].finish + 1, MakeRoom(n, keys, size), torn' = torn
  PROVE  SetInv'
<1>1. PICK f \in Nat, e \in Nat :
        f = objects[n].finish /\ e = objects[n].end /\ f <= e /\ n \in Names \ torn
  BY UsableIsAlive
<1>2. Len(keys) \in Nat
  BY DEF Counts
<1>3. CASE f = e /\ Reallocate(n, keys, size, e + 1)
  <2>1. e + 1 \in Nat /\ Len(keys) <= e + 1
    BY <1>1, <1>2, <1>3
  <2> QED BY <1>1, <1>3, <2>1, Reallocates
<1>4. CASE /\ f < e
           /\ memory' = [memory EXCEPT ![objects[n].start] = Refilled(objects[n], keys)]
           /\ objects' = [objects EXCEPT ![n].finish = size]
  <2>1. objects[n].end > 0 /\ Len(keys) <= objects[n].end
    BY <1>1, <1>2, <1>4
  <2> QED BY <1>4, <2>1, KeysChange
<1> QED BY <1>1, <1>3, <1>4 DEF MakeRoom

LEMMA InsertInv ==
  ASSUME SetInv, NEW n \in Names, NEW k \in Keys, InsertKey(n, k)
  PROVE  SetInv'
<1>1. PICK keys \in Seq(Keys), f \in Nat :
        keys = Content(objects[n]) /\ Len(keys) = f /\ f = objects[n].finish /\ Usable(n)
  BY WholeIsUsable DEF InsertKey
<1>2. PICK place \in 1..(f + 1) : place = LowerBound(keys, k)
  BY <1>1, LowerBoundIn
<1>3. PICK longer \in Seq(Keys) : longer = InsertAt(keys, place, k) /\ Len(longer) = f + 1
  <2>1. InsertAt(keys, place, k) \in Seq(Keys) /\ MakesRoom(InsertAt(keys, place, k), keys, place, k)
    BY <1>1, <1>2, Longer
  <2> QED BY <1>1, <2>1 DEF MakesRoom
<1>4. CASE UNCHANGED <<objects, memory, torn>>
  BY <1>4, NothingNew
<1>5. CASE MakeRoom(n, longer, f + 1) /\ torn' = torn
  <2>1. Counts(longer, f + 1) /\ Len(longer) <= objects[n].finish + 1
    BY <1>1, <1>3, KeysAreCells, CountsCells
  <2> QED BY <1>1, <1>5, <2>1, MakeRoomInv
<1>6. CASE MakeRoom(n, Shifted(keys, place), f) /\ torn' = torn
  <2>1. Counts(Shifted(keys, place), f) /\ Len(Shifted(keys, place)) <= objects[n].finish + 1
    BY <1>1, ShiftedCounts
  <2> QED BY <1>1, <1>6, <2>1, MakeRoomInv
<1> QED BY <1>1, <1>2, <1>3, <1>4, <1>5, <1>6 DEF InsertKey, Fails

LEMMA SetNextInv == SetInv /\ [SetNext]_setVars => SetInv'
<1> SUFFICES ASSUME SetInv, [SetNext]_setVars PROVE SetInv'
  OBVIOUS
<1>1. CASE UNCHANGED setVars
  BY <1>1, NothingNew DEF setVars
<1>2. ASSUME NEW n \in Names, NEW k \in Keys, Find(n, k) PROVE SetInv'
  BY <1>2, NothingNew DEF Find
<1> QED BY <1>1, <1>2, ConstructInv, CopyConstructInv, MoveInv, CopyAssignInv, DestructInv,
           CapacityInv, ClearOrEraseInv, InsertInv DEF SetNext

\* For any keys, objects and memory, and whatever allocation or copy fails: each set has a
\* buffer of its own with its keys at the front, and no memory is left that is nobody's.
THEOREM SetsKeepTheirMemory == SetSpec => []SetsOwnTheirMemory
<1>1. SetInit => SetInv
  BY DEF SetInit, SetInv, Proper, Alive
<1>2. SetInv => SetsOwnTheirMemory
  <2> SUFFICES ASSUME SetInv PROVE SetsOwnTheirMemory
    OBVIOUS
  <2>1. ASSUME NEW n \in Names, Usable(n), objects[n].start # Nowhere
        PROVE  /\ Len(memory[objects[n].start]) = objects[n].end
               /\ \A i \in DOMAIN memory[objects[n].start] :
                    memory[objects[n].start][i] \in Keys \cup {Moved} <=> i <= objects[n].finish
               /\ \A m \in Names \ {n} : Usable(m) => objects[n].start # objects[m].start
    <3>1. PICK row \in Seq(Memory) : row = memory[objects[n].start] /\ Fits(objects[n], row)
      BY <2>1, UsableIsAlive DEF Owns, Fits
    <3>2. DOMAIN row = 1..Len(row)
      BY <3>1
    <3>3. \A m \in Names \ {n} : Usable(m) => objects[n].start # objects[m].start
      BY <2>1, UsableIsAlive DEF SetInv, Proper
    <3> QED BY <3>1, <3>2, <3>3 DEF Fits, Cells
  <2>2. ASSUME ~crashed, NEW b \in Buffers
        PROVE  memory[b] # Absent <=> \E n \in Names : Usable(n) /\ objects[n].start = b
    <3>1. ASSUME memory[b] # Absent PROVE \E n \in Names : Usable(n) /\ objects[n].start = b
      BY <2>2, <3>1 DEF SetInv, Proper, Alive, Usable
    <3>2. ASSUME NEW n \in Names, Usable(n), objects[n].start = b PROVE memory[b] # Absent
      BY <3>2, UsableIsAlive, NowhereIsNoBuffer DEF Owns, Fits
    <3> QED BY <3>1, <3>2
  <2>3. \A n \in Names : Usable(n) => objects[n].start \in Buffers \cup {Nowhere}
    BY UsableIsAlive, NowhereIsNoBuffer
  <2> DEFINE owned(n) == {objects[n].start} \ {Nowhere}
  <2> DEFINE usable == {n \in Names : Usable(n)}
  <2>4. \A n \in usable : \A b \in owned(n) :
          /\ Len(memory[b]) = objects[n].end
          /\ \A i \in DOMAIN memory[b] : memory[b][i] \in Keys \cup {Moved} <=> i <= objects[n].finish
          /\ \A m \in usable \ {n} : b \notin owned(m)
    BY <2>1
  <2>5. ~crashed => Buffers \ FreeIn(memory) = UNION {owned(n) : n \in usable}
    <3> SUFFICES ASSUME ~crashed, NEW b
                 PROVE  b \in Buffers \ FreeIn(memory) <=> \E n \in usable : b \in owned(n)
      OBVIOUS
    <3>1. (\E n \in usable : b \in owned(n)) <=> (\E n \in Names : Usable(n) /\ objects[n].start = b /\ b # Nowhere)
      OBVIOUS
    <3>2. b \in Buffers \ FreeIn(memory) <=> b \in Buffers /\ memory[b] # Absent
      BY DEF FreeIn
    <3> HIDE DEF owned, usable
    <3>3. CASE b \in Buffers
      BY <2>2, <3>1, <3>2, <3>3, NowhereIsNoBuffer
    <3>4. CASE b \notin Buffers
      BY <2>3, <3>1, <3>2, <3>4
    <3> QED BY <3>3, <3>4
  <2> HIDE DEF owned, usable
  <2> QED BY <2>4, <2>5 DEF SetsOwnTheirMemory, owned, usable
<1> QED BY <1>1, <1>2, SetNextInv, PTL DEF SetSpec

-----------------------------------------------------------------------------
(* The binary search.                                                      *)

\* One step of the search, with g for the steps after it.
SearchFrom(keys, k, g) ==
  [range \in (1 .. Len(keys) + 1) \X (0..Len(keys)) |->
     LET left == range[1]
         right == range[2]
         middle == left + (right - left) \div 2
     IN IF left > right THEN Len(keys) + 1
        ELSE IF keys[middle] = k THEN middle
        ELSE IF keys[middle] < k THEN g[<<middle + 1, right>>] ELSE g[<<left, middle - 1>>]]

LEMMA SearchUnfolds ==
  ASSUME NEW keys, NEW k, NEW h, h = SearchFrom(keys, k, h)
  PROVE  \E f : f = SearchFrom(keys, k, f) /\ SearchSet(keys, k) = f[<<1, Len(keys)>>]
BY Zenon DEF SearchSet, SearchFrom

\* What the step makes of a range and its middle.
Halves(keys, k, g, left, right, middle) ==
  SearchFrom(keys, k, g)[<<left, right>>] =
    IF keys[middle] = k THEN middle
    ELSE IF keys[middle] < k THEN g[<<middle + 1, right>>] ELSE g[<<left, middle - 1>>]

\* A step at a range within the keys.
LEMMA SearchStep ==
  ASSUME NEW keys \in Seq(Keys), NEW k \in Keys, NEW g,
         NEW left \in 1..(Len(keys) + 1), NEW right \in 0..Len(keys)
  PROVE  /\ left > right => SearchFrom(keys, k, g)[<<left, right>>] = Len(keys) + 1
         /\ left <= right => \E middle \in left..right : Halves(keys, k, g, left, right, middle)
<1>1. Len(keys) \in Nat
  BY KeysAreNumbers
<1>2. <<left, right>> \in (1 .. Len(keys) + 1) \X (0..Len(keys))
  OBVIOUS
<1>3. PICK middle : middle = left + (right - left) \div 2
  OBVIOUS
<1>4. left <= right => middle \in left..right
  BY <1>1, <1>3
<1>5. SearchFrom(keys, k, g)[<<left, right>>] =
        IF left > right THEN Len(keys) + 1
        ELSE IF keys[middle] = k THEN middle
        ELSE IF keys[middle] < k THEN g[<<middle + 1, right>>] ELSE g[<<left, middle - 1>>]
  BY <1>2, <1>3 DEF SearchFrom
<1>6. CASE left > right
  BY <1>1, <1>5, <1>6
<1>7. CASE left <= right
  <2>1. ~(left > right) /\ middle \in left..right
    BY <1>1, <1>4, <1>7
  <2>2. Halves(keys, k, g, left, right, middle)
    BY <1>5, <2>1 DEF Halves
  <2> QED BY <2>1, <2>2
<1> QED BY <1>1, <1>6, <1>7

\* In ascending order the search finds a key where it is, and else says the end.
LEMMA SearchFinds ==
  ASSUME NEW keys \in Seq(Keys), Ascends(keys), NEW k \in Keys
  PROVE  /\ \A i \in 1..Len(keys) : keys[i] = k => SearchSet(keys, k) = i
         /\ (\A i \in 1..Len(keys) : keys[i] # k) => SearchSet(keys, k) = Len(keys) + 1
<1>1. PICK l \in Nat : l = Len(keys)
  BY KeysAreNumbers
<1>2. k \in Nat /\ \A i \in 1..l : keys[i] \in Nat
  BY <1>1, KeysAreNumbers, SetAssumption
<1>3. PICK p \in 0..l :
        /\ \A i \in 1..l : keys[i] = k <=> i = p
        /\ p # 0 => \A i \in 1..l : keys[i] < k <=> i < p
  <2>1. CASE \E i \in 1..l : keys[i] = k
    <3>1. PICK p \in 1..l : keys[p] = k
      BY <2>1
    <3>2. ASSUME NEW i \in 1..l PROVE (keys[i] = k <=> i = p) /\ (keys[i] < k <=> i < p)
      <4>1. i < p => keys[i] < k
        BY <1>1, <3>1 DEF Ascends
      <4>2. p < i => k < keys[i]
        BY <1>1, <3>1 DEF Ascends
      <4>3. keys[i] \in Nat /\ i \in Nat /\ p \in Nat
        BY <1>2
      <4> QED BY <1>2, <3>1, <4>1, <4>2, <4>3
    <3>3. p \in 0..l
      BY <3>1
    <3> QED BY <3>2, <3>3
  <2>2. CASE ~\E i \in 1..l : keys[i] = k
    <3>1. 0 \in 0..l
      BY <1>1
    <3> QED BY <2>2, <3>1
  <2> QED BY <2>1, <2>2
<1> DEFINE D == (1 .. l + 1) \X (0..l)
<1> DEFINE found(left, right) == IF left <= p /\ p <= right THEN p ELSE l + 1
<1>h. PICK h : h = [range \in D |-> found(range[1], range[2])]
  OBVIOUS
<1>4. h = SearchFrom(keys, k, h)
  <2>1. \A left \in 1..(l + 1), right \in 0..l : h[<<left, right>>] = found(left, right)
    BY <1>h
  <2>2. ASSUME NEW left \in 1..(l + 1), NEW right \in 0..l
        PROVE  SearchFrom(keys, k, h)[<<left, right>>] = h[<<left, right>>]
    <3>1. CASE left > right
      <4>1. SearchFrom(keys, k, h)[<<left, right>>] = l + 1
        BY <1>1, <3>1, SearchStep
      <4> QED BY <2>1, <3>1, <4>1
    <3>2. CASE left <= right
      <4>1. PICK middle \in left..right :
              Halves(keys, k, h, left, right, middle)
        BY <1>1, <3>2, SearchStep
      <4>2. middle \in 1..l /\ middle + 1 \in 1..(l + 1) /\ middle - 1 \in 0..l
        OBVIOUS
      <4>3. h[<<middle + 1, right>>] = found(middle + 1, right)
        BY <2>1, <4>2
      <4>4. h[<<left, middle - 1>>] = found(left, middle - 1)
        BY <2>1, <4>2
      <4>5. h[<<left, right>>] = found(left, right)
        BY <2>1
      <4>6. (keys[middle] = k <=> middle = p) /\ (p # 0 => (keys[middle] < k <=> middle < p))
        BY <1>3, <4>2
      <4>7. SearchFrom(keys, k, h)[<<left, right>>] =
              IF keys[middle] = k THEN middle
              ELSE IF keys[middle] < k THEN h[<<middle + 1, right>>] ELSE h[<<left, middle - 1>>]
        BY <4>1 DEF Halves
      <4> QED BY <4>2, <4>3, <4>4, <4>5, <4>6, <4>7
    <3> QED BY <3>1, <3>2
  <2>3. PICK g : g = SearchFrom(keys, k, h)
    OBVIOUS
  <2>4. DOMAIN g = D /\ g = [range \in D |-> g[range]]
    BY <1>1, <2>3 DEF SearchFrom
  <2>5. \A range \in D : g[range] = h[range]
    <3>1. \A range \in D : \E left \in 1..(l + 1), right \in 0..l : range = <<left, right>>
      OBVIOUS
    <3> HIDE DEF D
    <3> QED BY <2>2, <2>3, <3>1
  <2> HIDE DEF found
  <2>6. h = [range \in D |-> h[range]]
    BY <1>h
  <2> QED BY <2>3, <2>4, <2>5, <2>6
<1>5. PICK f : f = SearchFrom(keys, k, f) /\ SearchSet(keys, k) = f[<<1, l>>]
  BY <1>1, <1>4, SearchUnfolds
<1> DEFINE wrong == {n \in Nat : \E left \in 1..(l + 1), right \in 0..l :
                       n = l + 1 + right - left /\ f[<<left, right>>] # found(left, right)}
<1>6. wrong = {}
  <2> SUFFICES ASSUME wrong # {} PROVE FALSE
    OBVIOUS
  <2>1. PICK W \in SUBSET Nat : W = wrong
    OBVIOUS
  <2>2. IsWellFoundedOn(OpToRel(<, Nat), Nat)
    BY NatLessThanWellFounded
  <2>3. \E x \in W : \A y \in W : ~(<<y, x>> \in OpToRel(<, Nat))
    BY <2>1, <2>2, WFMin
  <2>4. PICK n \in wrong : \A m \in wrong : ~(m < n)
    BY <2>1, <2>3 DEF OpToRel
  <2>5. PICK left \in 1..(l + 1), right \in 0..l :
          n = l + 1 + right - left /\ f[<<left, right>>] # found(left, right)
    OBVIOUS
  <2>6. ASSUME NEW a \in 1..(l + 1), NEW b \in 0..l, b - a < right - left
        PROVE  f[<<a, b>>] = found(a, b)
    <3>1. l + 1 + b - a \in Nat /\ l + 1 + b - a < n
      BY <2>5, <2>6
    <3>2. l + 1 + b - a \notin wrong
      BY <2>4, <3>1
    <3> QED BY <3>1, <3>2
  <2>7. CASE left > right
    <3>1. SearchFrom(keys, k, f)[<<left, right>>] = l + 1
      BY <1>1, <2>7, SearchStep
    <3> QED BY <1>5, <2>5, <2>7, <3>1
  <2>8. CASE left <= right
    <3>1. PICK middle \in left..right :
            Halves(keys, k, f, left, right, middle)
      BY <1>1, <2>8, SearchStep
    <3>2. middle \in 1..l /\ middle + 1 \in 1..(l + 1) /\ middle - 1 \in 0..l
          /\ right - (middle + 1) < right - left /\ (middle - 1) - left < right - left
      OBVIOUS
    <3>3. f[<<middle + 1, right>>] = found(middle + 1, right)
      BY <2>6, <3>2
    <3>4. f[<<left, middle - 1>>] = found(left, middle - 1)
      BY <2>6, <3>2
    <3>5. (keys[middle] = k <=> middle = p) /\ (p # 0 => (keys[middle] < k <=> middle < p))
      BY <1>3, <3>2
    <3>6. f[<<left, right>>] =
            IF keys[middle] = k THEN middle
            ELSE IF keys[middle] < k THEN f[<<middle + 1, right>>] ELSE f[<<left, middle - 1>>]
      BY <1>5, <3>1 DEF Halves
    <3>7. f[<<left, right>>] # found(left, right)
      BY <2>5
    <3>8. CASE keys[middle] = k
      BY ONLY <3>2, <3>5, <3>6, <3>7, <3>8, middle \in left..right
    <3>9. CASE keys[middle] # k /\ keys[middle] < k
      <4>1. found(middle + 1, right) # found(left, right)
        BY <3>3, <3>6, <3>7, <3>9
      <4> QED BY <1>1, <1>3, <3>2, <3>5, <3>9, <4>1
    <3>a. CASE keys[middle] # k /\ ~(keys[middle] < k)
      <4>1. found(left, middle - 1) # found(left, right)
        BY <3>4, <3>6, <3>7, <3>a
      <4> QED BY <1>1, <1>3, <3>2, <3>5, <3>a, <4>1
    <3> HIDE DEF wrong, found
    <3> QED BY <3>8, <3>9, <3>a
  <2> QED BY <1>1, <2>7, <2>8
<1>7. SearchSet(keys, k) = found(1, l)
  <2>1. CASE l = 0 \/ l > 0
    <3>1. 1 \in 1..(l + 1) /\ l \in 0..l /\ l + 1 + l - 1 \in Nat
      BY <1>1
    <3>2. l + 1 + l - 1 \notin wrong
      BY <1>6
    <3>3. f[<<1, l>>] = found(1, l)
      BY <3>1, <3>2
    <3> QED BY <1>5, <3>3
  <2> QED BY <1>1, <2>1
<1> HIDE DEF wrong
<1> QED BY <1>1, <1>3, <1>7

-----------------------------------------------------------------------------
(* Keys in ascending order are an enumeration of their set, the only one.  *)

LEMMA DifferentPlaces ==
  ASSUME NEW keys \in Seq(Keys), Ascends(keys), NEW i \in 1..Len(keys), NEW j \in 1..Len(keys)
  PROVE  /\ keys[i] = keys[j] => i = j
         /\ keys[i] <= keys[j] => i <= j
         /\ i <= j => keys[i] <= keys[j]
         /\ keys[i] < keys[j] => i < j
<1>1. i \in Nat /\ j \in Nat /\ keys[i] \in Nat /\ keys[j] \in Nat
  BY KeysAreNumbers
<1>2. (i < j => keys[i] < keys[j]) /\ (j < i => keys[j] < keys[i])
  BY DEF Ascends
<1> QED BY <1>1, <1>2

\* The first of them are as many as there are places for them.
LEMMA FirstKeys ==
  ASSUME NEW keys \in Seq(Keys), Ascends(keys), NEW n \in 0..Len(keys)
  PROVE  /\ IsFiniteSet({keys[i] : i \in 1..n})
         /\ Cardinality({keys[i] : i \in 1..n}) = n
<1>1. PICK f : f = [i \in 1..n |-> keys[i]]
  OBVIOUS
<1>2. PICK T : T = {keys[i] : i \in 1..n}
  OBVIOUS
<1>3. n \in Nat /\ \A i \in 1..n : i \in 1..Len(keys)
  BY KeysAreNumbers
<1>4. f \in [1..n -> T] /\ \A y \in T : \E i \in 1..n : f[i] = y
  BY <1>1, <1>2
<1>5. \A i \in 1..n, j \in 1..n : f[i] = f[j] => i = j
  BY <1>1, <1>3, DifferentPlaces
<1>6. f \in Bijection(1..n, T)
  BY <1>4, <1>5 DEF Bijection, Injection, Surjection, IsInjective
<1>7. ExistsBijection(1..n, T)
  BY <1>6 DEF ExistsBijection
<1>8. IsFiniteSet(1..n) /\ Cardinality(1..n) = n
  BY <1>3, FS_Interval
<1>9. IsFiniteSet(T) /\ Cardinality(T) = Cardinality(1..n)
  BY <1>7, <1>8, FS_Bijection
<1> QED BY <1>2, <1>8, <1>9

LEMMA KeysOf ==
  ASSUME NEW keys \in Seq(Keys), Ascends(keys)
  PROVE  /\ ToSet(keys) = {keys[i] : i \in 1..Len(keys)}
         /\ ToSet(keys) \in SUBSET Keys
         /\ Cardinality(ToSet(keys)) = Len(keys)
<1>1. ToSet(keys) = {keys[i] : i \in 1..Len(keys)}
  BY DEF ToSet
<1>2. \A i \in 1..Len(keys) : keys[i] \in Keys
  OBVIOUS
<1>3. Len(keys) \in 0..Len(keys)
  BY KeysAreNumbers
<1>4. Cardinality({keys[i] : i \in 1..Len(keys)}) = Len(keys)
  BY <1>3, FirstKeys
<1> QED BY <1>1, <1>2, <1>4

\* The key at a place is known from how many keys are up to it.
LEMMA PlaceIsRank ==
  ASSUME NEW keys \in Seq(Keys), Ascends(keys), NEW i \in 1..Len(keys)
  PROVE  Cardinality({x \in ToSet(keys) : x <= keys[i]}) = i
<1>1. {x \in ToSet(keys) : x <= keys[i]} = {keys[j] : j \in 1..i}
  <2>1. \A j \in 1..i : j \in 1..Len(keys) /\ j <= i
    BY KeysAreNumbers
  <2>2. \A j \in 1..i : keys[j] \in ToSet(keys) /\ keys[j] <= keys[i]
    BY <2>1, KeysOf, DifferentPlaces
  <2>3. \A j \in 1..Len(keys) : keys[j] <= keys[i] => j \in 1..i
    BY KeysAreNumbers, DifferentPlaces
  <2>4. \A x \in ToSet(keys) : \E j \in 1..Len(keys) : x = keys[j]
    BY KeysOf
  <2> QED BY <2>2, <2>3, <2>4
<1>2. i \in 0..Len(keys)
  OBVIOUS
<1> QED BY <1>1, <1>2, FirstKeys

LEMMA OnlyOrder ==
  ASSUME NEW keys \in Seq(Keys), Ascends(keys), NEW other \in Seq(Keys), Ascends(other),
         ToSet(other) = ToSet(keys)
  PROVE  other = keys
<1>1. Len(other) = Len(keys)
  BY KeysOf
<1>2. ASSUME NEW i \in 1..Len(keys) PROVE other[i] = keys[i]
  <2>1. other[i] \in ToSet(keys)
    BY <1>1, KeysOf
  <2>2. PICK j \in 1..Len(keys) : other[i] = keys[j]
    BY <2>1, KeysOf
  <2>3. Cardinality({x \in ToSet(keys) : x <= keys[j]}) = j
    BY PlaceIsRank
  <2>4. Cardinality({x \in ToSet(other) : x <= other[i]}) = i
    BY <1>1, PlaceIsRank
  <2> QED BY <2>2, <2>3, <2>4
<1> QED BY <1>1, <1>2

LEMMA SameCardinality ==
  ASSUME NEW S
  PROVE  Sets!Cardinality(S) = Cardinality(S)
BY Zenon DEF Sets!Cardinality, Cardinality

LEMMA SameToSet ==
  ASSUME NEW s
  PROVE  Sets!ToSet(s) = ToSet(s)
BY DEF Sets!ToSet, ToSet

LEMMA SameMoves ==
  ASSUME NEW s, NEW i, NEW k
  PROVE  /\ Sets!RemoveAt(s, i) = RemoveAt(s, i) /\ Sets!Front(s) = Front(s)
         /\ Sets!InsertAt(s, i, k) = InsertAt(s, i, k)
BY DEF Sets!RemoveAt, RemoveAt, Sets!Front, Front, Sets!InsertAt, InsertAt

LEMMA InOrder ==
  ASSUME NEW keys \in Seq(Keys), Ascends(keys)
  PROVE  Sets!Ordered(ToSet(keys)) = keys
<1>1. PICK n \in Nat : n = Len(keys) /\ Cardinality(ToSet(keys)) = n
  BY KeysAreNumbers, KeysOf
<1>2. keys \in [1..n -> ToSet(keys)] /\ \A i, j \in DOMAIN keys : i < j => keys[i] < keys[j]
  BY <1>1, KeysOf DEF Ascends
<1>3. PICK t : t = Sets!Ordered(ToSet(keys))
  OBVIOUS
<1>4. t \in [1..n -> ToSet(keys)] /\ \A i, j \in DOMAIN t : i < j => t[i] < t[j]
  <2>1. \E s \in [1..n -> ToSet(keys)] : \A i, j \in DOMAIN s : i < j => s[i] < s[j]
    BY <1>2
  <2>2. t = CHOOSE s \in [1..n -> ToSet(keys)] : \A i, j \in DOMAIN s : i < j => s[i] < s[j]
    BY <1>1, <1>3, SameCardinality DEF Sets!Ordered
  <2> QED BY ONLY <2>1, <2>2, Zenon
<1>5. t \in Seq(Keys) /\ Len(t) = n
  BY <1>1, <1>4, KeysOf
<1>6. Ascends(t)
  BY <1>4, <1>5 DEF Ascends
<1>7. ToSet(t) \subseteq ToSet(keys)
  BY <1>4, <1>5, <1>6, KeysOf
<1>8. ToSet(t) = ToSet(keys)
  <2>1. IsFiniteSet(ToSet(keys))
    BY KeysOf, SetAssumption, FS_Subset
  <2>2. Cardinality(ToSet(t)) = Cardinality(ToSet(keys))
    BY <1>1, <1>5, <1>6, KeysOf
  <2> QED BY <1>7, <2>1, <2>2, FS_Subset
<1> QED BY <1>3, <1>5, <1>6, <1>8, OnlyOrder

\* The place for a key, and how many keys are below it.
LEMMA PlaceFor ==
  ASSUME NEW keys \in Seq(Keys), Ascends(keys), NEW k \in Keys,
         NEW b, b = LowerBound(keys, k)
  PROVE  /\ b \in 1..(Len(keys) + 1)
         /\ \A j \in 1..Len(keys) : keys[j] < k <=> j < b
         /\ \A j \in 1..Len(keys) : keys[j] = k => b = j
         /\ Sets!Position(ToSet(keys), k) = b
<1>1. PICK l \in Nat : l = Len(keys)
  BY KeysAreNumbers
<1>2. /\ b \in 1..(l + 1)
      /\ \A j \in 1..(b - 1) : keys[j] < k
      /\ b <= l => keys[b] >= k
  BY <1>1, LowerBoundIn
<1>3. k \in Nat /\ \A j \in 1..l : keys[j] \in Nat
  BY <1>1, KeysAreNumbers, SetAssumption
<1>4. ASSUME NEW j \in 1..l PROVE keys[j] < k <=> j < b
  <2>1. CASE j < b
    BY <1>2, <2>1
  <2>2. CASE j >= b
    <3>1. b \in 1..l /\ b <= j
      BY <1>2, <2>2
    <3>2. keys[b] <= keys[j] /\ keys[b] >= k
      BY <1>1, <1>2, <3>1, DifferentPlaces
    <3>3. keys[b] \in Nat /\ keys[j] \in Nat /\ j \in Nat /\ b \in Nat
      BY <1>3, <3>1
    <3> QED BY <1>3, <2>2, <3>2, <3>3
  <2> QED BY <1>2, <2>1, <2>2
<1>5. ASSUME NEW j \in 1..l, keys[j] = k PROVE b = j
  <2>1. ~(j < b)
    BY <1>3, <1>4, <1>5
  <2>2. ASSUME b < j PROVE FALSE
    <3>1. b \in 1..l
      BY <1>2, <2>2
    <3>2. keys[b] < keys[j]
      BY <1>1, <2>2, <3>1 DEF Ascends
    <3>3. keys[b] < k
      BY <1>5, <3>2
    <3> QED BY <1>2, <1>4, <3>1, <3>3
  <2> QED BY <1>2, <2>1, <2>2
<1>6. {x \in ToSet(keys) : x < k} = {keys[j] : j \in 1..(b - 1)}
  <2>1. \A j \in 1..(b - 1) : j \in 1..l /\ keys[j] < k
    BY <1>2
  <2>2. \A j \in 1..l : keys[j] < k => j \in 1..(b - 1)
    BY <1>2, <1>4
  <2>3. ToSet(keys) = {keys[j] : j \in 1..l}
    BY <1>1, KeysOf
  <2> QED BY <2>1, <2>2, <2>3
<1>7. Cardinality({x \in ToSet(keys) : x < k}) = b - 1
  <2>1. b - 1 \in 0..Len(keys)
    BY <1>1, <1>2
  <2> QED BY <1>6, <2>1, FirstKeys
<1>8. Sets!Position(ToSet(keys), k) = b
  <2>1. Sets!Position(ToSet(keys), k) = 1 + Cardinality({x \in ToSet(keys) : x < k})
    BY SameCardinality DEF Sets!Position
  <2> QED BY <1>2, <1>7, <2>1
<1> QED BY <1>1, <1>2, <1>4, <1>5, <1>8

LEMMA InsertsInOrder ==
  ASSUME NEW keys \in Seq(Keys), Ascends(keys), NEW k \in Keys, k \notin ToSet(keys),
         NEW longer, longer = InsertAt(keys, LowerBound(keys, k), k)
  PROVE  /\ longer \in Seq(Keys) /\ Ascends(longer)
         /\ ToSet(longer) = ToSet(keys) \cup {k}
<1>1. PICK l \in Nat : l = Len(keys)
  BY KeysAreNumbers
<1>2. PICK b \in 1..(l + 1) : b = LowerBound(keys, k) /\ \A j \in 1..l : keys[j] < k <=> j < b
  BY <1>1, PlaceFor
<1>3. /\ longer \in Seq(Keys) /\ Len(longer) = l + 1
      /\ \A j \in 1..(l + 1) : longer[j] = IF j < b THEN keys[j] ELSE IF j = b THEN k ELSE keys[j - 1]
  <2>1. b \in 1..(Len(keys) + 1) /\ longer = InsertAt(keys, b, k)
    BY <1>1, <1>2
  <2>2. InsertAt(keys, b, k) \in Seq(Keys) /\ MakesRoom(InsertAt(keys, b, k), keys, b, k)
    BY <2>1, Longer
  <2>3. longer \in Seq(Keys) /\ MakesRoom(longer, keys, b, k)
    BY <2>1, <2>2
  <2> QED BY <1>1, <2>3 DEF MakesRoom
<1>4. k \in Nat /\ (\A j \in 1..l : keys[j] \in Nat /\ keys[j] # k) /\ ToSet(keys) = {keys[j] : j \in 1..l}
  BY <1>1, KeysAreNumbers, KeysOf, SetAssumption
<1>5. \A j \in 1..l : j >= b => k < keys[j]
  BY <1>2, <1>4
<1>6. ASSUME NEW i \in 1..(l + 1), NEW j \in 1..(l + 1), i < j PROVE longer[i] < longer[j]
  <2>1. CASE j < b
    <3>1. i \in 1..l /\ j \in 1..l /\ i < b
      BY <1>6, <2>1
    <3>2. keys[i] < keys[j]
      BY <1>1, <1>6, <3>1 DEF Ascends
    <3> QED BY <1>3, <2>1, <3>1, <3>2
  <2>2. CASE j = b
    <3>1. i \in 1..l /\ i < b
      BY <1>6, <2>2
    <3> QED BY <1>2, <1>3, <2>2, <3>1
  <2>3. CASE i = b
    <3>1. j - 1 \in 1..l /\ j - 1 >= b /\ ~(j < b) /\ j # b /\ ~(i < b)
      BY <1>6, <2>3
    <3>2. longer[j] = keys[j - 1] /\ longer[i] = k
      BY <1>3, <2>3, <3>1
    <3> QED BY <1>5, <3>1, <3>2
  <2>4. CASE i < b /\ b < j
    <3>2. i \in 1..l /\ j - 1 \in 1..l /\ i <= j - 1 /\ j - 1 >= b
      BY <1>6, <2>4
    <3>3. keys[i] < k /\ k < keys[j - 1]
      BY <1>2, <1>5, <2>4, <3>2
    <3>4. longer[i] = keys[i] /\ longer[j] = keys[j - 1] /\ keys[i] \in Nat /\ keys[j - 1] \in Nat
      BY <1>3, <1>4, <2>4, <3>2
    <3> QED BY <1>4, <3>3, <3>4
  <2>5. CASE b < i
    <3>1. i - 1 \in 1..l /\ j - 1 \in 1..l /\ i - 1 < j - 1 /\ b < j
      BY <1>6, <2>5
    <3>2. keys[i - 1] < keys[j - 1]
      BY <1>1, <3>1 DEF Ascends
    <3>3. longer[i] = keys[i - 1] /\ longer[j] = keys[j - 1]
      BY <1>3, <2>5, <3>1
    <3> QED BY <3>2, <3>3
  <2> QED BY <1>6, <2>1, <2>2, <2>3, <2>4, <2>5
<1>7. Ascends(longer)
  BY <1>3, <1>6 DEF Ascends
<1>8. ToSet(longer) = {longer[j] : j \in 1..(l + 1)}
  BY <1>3, <1>7, KeysOf
<1>9. \A j \in 1..(l + 1) : longer[j] \in ToSet(keys) \cup {k}
  <2>1. ASSUME NEW j \in 1..(l + 1), j < b PROVE j \in 1..l /\ longer[j] = keys[j]
    BY <1>3, <2>1
  <2>2. ASSUME NEW j \in 1..(l + 1), j > b PROVE j - 1 \in 1..l /\ longer[j] = keys[j - 1]
    BY <1>3, <2>2
  <2>3. longer[b] = k
    BY <1>3
  <2> QED BY <1>4, <2>1, <2>2, <2>3
<1>a. longer[b] = k /\ \A j \in 1..l : \E i \in 1..(l + 1) : longer[i] = keys[j]
  <2>1. longer[b] = k
    BY <1>3
  <2>2. ASSUME NEW j \in 1..l, j < b PROVE j \in 1..(l + 1) /\ longer[j] = keys[j]
    BY <1>3, <2>2
  <2>3. ASSUME NEW j \in 1..l, j >= b PROVE j + 1 \in 1..(l + 1) /\ longer[j + 1] = keys[j]
    <3>1. j + 1 \in 1..(l + 1) /\ ~(j + 1 < b) /\ j + 1 # b /\ (j + 1) - 1 = j
      BY <2>3
    <3> QED BY <1>3, <3>1
  <2> QED BY <2>1, <2>2, <2>3
<1>b. ToSet(longer) \subseteq ToSet(keys) \cup {k}
  <2>1. \A x \in ToSet(longer) : \E j \in 1..(l + 1) : x = longer[j]
    BY <1>8
  <2> QED BY ONLY <1>9, <2>1
<1>c. ToSet(keys) \cup {k} \subseteq ToSet(longer)
  <2>1. \A x \in ToSet(keys) : \E j \in 1..l : x = keys[j]
    BY <1>4
  <2>2. \A i \in 1..(l + 1) : longer[i] \in ToSet(longer)
    BY <1>8
  <2> QED BY <1>a, <2>1, <2>2
<1> QED BY <1>3, <1>7, <1>b, <1>c

\* In order but for keys that others were moved from.
Climbs(keys) ==
  \A i \in 1..Len(keys), j \in 1..Len(keys) :
    i < j /\ keys[i] # Moved /\ keys[j] # Moved => keys[i] < keys[j]

LEMMA AscendingClimbs ==
  ASSUME NEW keys \in Seq(Keys), Ascends(keys)
  PROVE  keys \in Seq(Cells) /\ Climbs(keys)
BY KeysAreCells DEF Ascends, Climbs

LEMMA WholeAscends ==
  ASSUME NEW keys \in Seq(Keys), Climbs(keys)
  PROVE  Ascends(keys)
<1>1. \A i \in 1..Len(keys) : keys[i] # Moved
  BY KindsOfCells
<1> QED BY <1>1 DEF Ascends, Climbs

LEMMA RemovesInOrder ==
  ASSUME NEW keys \in Seq(Cells), Climbs(keys), NEW i \in 1..Len(keys),
         NEW rest, rest = RemoveAt(keys, i)
  PROVE  rest \in Seq(Cells) /\ Climbs(rest)
<1>1. PICK l \in Nat : l = Len(keys)
  BY LenProperties
<1>2. /\ rest \in Seq(Cells) /\ Len(rest) = l - 1
      /\ \A j \in 1..(l - 1) : rest[j] = IF j < i THEN keys[j] ELSE keys[j + 1]
  BY <1>1, Shorter
<1>3. ASSUME NEW a \in 1..(l - 1), NEW b \in 1..(l - 1), a < b, rest[a] # Moved, rest[b] # Moved
      PROVE  rest[a] < rest[b]
  <2>1. PICK c \in 1..l : c = IF a < i THEN a ELSE a + 1
    OBVIOUS
  <2>2. PICK d \in 1..l : d = IF b < i THEN b ELSE b + 1
    OBVIOUS
  <2>3. c < d /\ rest[a] = keys[c] /\ rest[b] = keys[d]
    BY <1>1, <1>2, <1>3, <2>1, <2>2
  <2> QED BY <1>1, <1>3, <2>3 DEF Climbs
<1> QED BY <1>2, <1>3 DEF Climbs

LEMMA ShiftsInOrder ==
  ASSUME NEW keys \in Seq(Keys), Ascends(keys), NEW place \in 1..Len(keys),
         NEW room, room = InsertAt(Front(keys), place, Moved)
  PROVE  room \in Seq(Cells) /\ Climbs(room)
<1>1. PICK l \in Nat : l = Len(keys)
  BY KeysAreNumbers
<1>2. place \in 1..(Len(keys) + 1) /\ place <= Len(keys) /\ keys # <<>>
  BY <1>1
<1>3. room \in Seq(Cells) /\ MakesRoom(room, Front(keys), place, Moved)
  BY <1>2, ShiftedCounts
<1>4. Len(Front(keys)) = l - 1 /\ \A j \in 1..(l - 1) : Front(keys)[j] = keys[j]
  BY <1>1, <1>2, FrontOf
<1>5. /\ Len(room) = l
      /\ \A j \in 1..l : room[j] = IF j < place THEN Front(keys)[j]
                                 ELSE IF j = place THEN Moved ELSE Front(keys)[j - 1]
  BY <1>1, <1>3, <1>4 DEF MakesRoom
<1>6. ASSUME NEW j \in 1..l, room[j] # Moved
      PROVE  j # place /\ room[j] = IF j < place THEN keys[j] ELSE keys[j - 1]
  <2>1. j < place => j \in 1..(l - 1)
    BY <1>1
  <2>2. j > place => j - 1 \in 1..(l - 1)
    BY <1>1
  <2> QED BY <1>1, <1>4, <1>5, <1>6, <2>1, <2>2
<1>7. ASSUME NEW a \in 1..l, NEW b \in 1..l, a < b, room[a] # Moved, room[b] # Moved
      PROVE  room[a] < room[b]
  <2>1. a # place /\ b # place
    BY <1>6, <1>7
  <2>2. PICK c : c = IF a < place THEN a ELSE a - 1
    OBVIOUS
  <2>3. PICK d : d = IF b < place THEN b ELSE b - 1
    OBVIOUS
  <2>4. c \in 1..l /\ d \in 1..l /\ c < d
    BY <1>1, <1>7, <2>1, <2>2, <2>3
  <2>5. room[a] = keys[c] /\ room[b] = keys[d]
    BY <1>6, <1>7, <2>2, <2>3
  <2> QED BY <1>1, <2>4, <2>5 DEF Ascends
<1> QED BY <1>3, <1>5, <1>7 DEF Climbs

-----------------------------------------------------------------------------
(* What is seen of the objects: their keys, and how a call changes them.   *)

Held(o, mem) == IF o.start = Nowhere THEN <<>> ELSE SubSeq(mem[o.start], 1, o.finish)

View(objs, mem, t) ==
  [n \in Names |-> IF n \in t THEN Lost ELSE IF objs[n] = Absent THEN Absent ELSE Held(objs[n], mem)]

Seen == View(objects, memory, torn)

\* A call that touches only the buffer of its object and memory that nobody has
\* changes what is seen of that object only.
KeepsOthers(objs, mem, n, mem2) ==
  \A b \in Buffers : b # BufferOf(objs[n]) /\ mem[b] # Absent => mem2[b] = mem[b]
ShowsChange(objs, mem, t, n, o, mem2, u) ==
  View([objs EXCEPT ![n] = o], mem2, u) =
    [View(objs, mem, t) EXCEPT
       ![n] = IF n \in u THEN Lost ELSE IF o = Absent THEN Absent ELSE Held(o, mem2)]

LEMMA OneChanges ==
  ASSUME NEW objs, NEW mem, NEW t, Proper(objs, mem, t), NEW n \in Names \ t,
         NEW o, NEW mem2, KeepsOthers(objs, mem, n, mem2),
         NEW u, u = t \/ u = t \cup {n}
  PROVE  ShowsChange(objs, mem, t, n, o, mem2, u)
<1>1. PICK objs2 : objs2 = [objs EXCEPT ![n] = o]
  OBVIOUS
<1>2. n \in Names /\ objs2[n] = o /\ \A m \in Names \ {n} : objs2[m] = objs[m]
  BY <1>1 DEF Proper
<1>3. \A m \in Names \ {n} : m \in u <=> m \in t
  OBVIOUS
<1>4. ASSUME NEW m \in Names \ {n}, m \notin t, objs[m] # Absent
      PROVE  Held(objs[m], mem2) = Held(objs[m], mem)
  <2>1. CASE objs[m].start = Nowhere
    BY <2>1 DEF Held
  <2>2. CASE objs[m].start # Nowhere
    <3>1. m \in Alive(objs, t) /\ Owns(objs[m], mem)
      BY <1>4 DEF Alive, Proper
    <3>2. objs[m].start \in Buffers /\ mem[objs[m].start] # Absent
      BY <2>2, <3>1, NowhereIsNoBuffer DEF Owns, Fits
    <3>3. objs[m].start # BufferOf(objs[n])
      <4>1. CASE objs[n] = Absent
        BY <2>2, <4>1 DEF BufferOf
      <4>2. CASE objs[n] # Absent
        <5>1. n \in Alive(objs, t)
          BY <4>2 DEF Alive
        <5> QED BY <2>2, <3>1, <4>2, <5>1 DEF Proper, BufferOf
      <4> QED BY <4>1, <4>2
    <3>4. mem2[objs[m].start] = mem[objs[m].start]
      BY <3>2, <3>3 DEF KeepsOthers
    <3> QED BY <3>4 DEF Held
  <2> QED BY <2>1, <2>2
<1>5. PICK v : v = View(objs, mem, t)
  OBVIOUS
<1>6. PICK new : new = IF n \in u THEN Lost ELSE IF o = Absent THEN Absent ELSE Held(o, mem2)
  OBVIOUS
<1>7. ASSUME NEW m \in Names PROVE View(objs2, mem2, u)[m] = [v EXCEPT ![n] = new][m]
  <2>1. CASE m = n
    BY <1>2, <1>5, <1>6, <2>1 DEF View
  <2>2. CASE m # n
    <3>1. View(objs2, mem2, u)[m] = IF m \in t THEN Lost ELSE IF objs[m] = Absent THEN Absent ELSE Held(objs[m], mem2)
      BY <1>2, <1>3, <2>2 DEF View
    <3>2. v[m] = IF m \in t THEN Lost ELSE IF objs[m] = Absent THEN Absent ELSE Held(objs[m], mem)
      BY <1>5 DEF View
    <3>3. View(objs2, mem2, u)[m] = v[m]
      BY <1>4, <2>2, <3>1, <3>2
    <3> QED BY <1>5, <2>2, <3>3 DEF View
  <2> QED BY <2>1, <2>2
<1>8. View(objs2, mem2, u) = [v EXCEPT ![n] = new]
  <2>1. DOMAIN v = Names
    BY <1>5 DEF View
  <2>2. View(objs2, mem2, u) = [m \in Names |-> View(objs2, mem2, u)[m]]
    BY DEF View
  <2>3. [v EXCEPT ![n] = new] = [m \in Names |-> [v EXCEPT ![n] = new][m]]
    BY <2>1
  <2> QED BY <1>7, <2>2, <2>3
<1> QED BY <1>1, <1>5, <1>6, <1>8 DEF ShowsChange

LEMMA TwoExchange ==
  ASSUME NEW objs, NEW mem, NEW t, Proper(objs, mem, t), NEW n \in Names \ t, NEW m \in Names \ t
  PROVE  View([objs EXCEPT ![n] = objs[m], ![m] = objs[n]], mem, t) =
           [View(objs, mem, t) EXCEPT ![n] = View(objs, mem, t)[m], ![m] = View(objs, mem, t)[n]]
<1>1. PICK objs2 : objs2 = [objs EXCEPT ![n] = objs[m], ![m] = objs[n]]
  OBVIOUS
<1>2. PICK v : v = View(objs, mem, t)
  OBVIOUS
<1>3. PICK w : w = [v EXCEPT ![n] = v[m], ![m] = v[n]]
  OBVIOUS
<1>4. n \in Names /\ m \in Names /\ DOMAIN v = Names /\ DOMAIN objs = Names
  BY <1>2 DEF Proper, View
<1>5. ASSUME NEW x \in Names PROVE View(objs2, mem, t)[x] = w[x]
  <2>1. CASE x = m
    BY <1>1, <1>2, <1>3, <1>4, <2>1 DEF View
  <2>2. CASE x = n /\ x # m
    BY <1>1, <1>2, <1>3, <1>4, <2>2 DEF View
  <2>3. CASE x # n /\ x # m
    BY <1>1, <1>2, <1>3, <1>4, <2>3 DEF View
  <2> QED BY <2>1, <2>2, <2>3
<1>6. View(objs2, mem, t) = w
  <2>1. w = [x \in Names |-> w[x]]
    BY <1>3, <1>4
  <2>2. View(objs2, mem, t) = [x \in Names |-> View(objs2, mem, t)[x]]
    BY DEF View
  <2> QED BY <1>5, <2>1, <2>2
<1> QED BY <1>1, <1>2, <1>3, <1>6

\* An object that can be used shows its keys, in order.
Rows == {Absent, Lost} \cup {keys \in Seq(Cells) : Climbs(keys)}
SortInv == SetInv /\ Seen \in [Names -> Rows]

LEMMA ShowsItsKeys ==
  ASSUME SortInv, NEW n \in Names, Usable(n)
  PROVE  /\ Seen[n] = Content(objects[n]) /\ Seen[n] \in Seq(Cells) /\ Climbs(Seen[n])
         /\ Seen[n] \notin {Absent, Lost}
         /\ Len(Seen[n]) = objects[n].finish
<1>1. Seen[n] = Content(objects[n])
  BY DEF Seen, View, Held, Content, Usable
<1>2. Seen[n] \in Seq(Cells) /\ Len(Seen[n]) = objects[n].finish
  BY <1>1, UsableIsAlive DEF SortInv
<1>3. Absent \notin Seq(Cells) /\ Lost \notin Seq(Cells)
  <2>1. Absent \notin Seq(Memory) /\ Lost \notin Seq(Cells)
    BY SetAssumption DEF Memory, Cells
  <2>2. \A s \in Seq(Cells) : s \in Seq(Memory)
    BY CountsCells
  <2> QED BY <2>1, <2>2
<1>4. Seen[n] \notin {Absent, Lost}
  BY <1>2, <1>3
<1> QED BY <1>1, <1>2, <1>4 DEF SortInv, Rows

LEMMA WholeShowsItsKeys ==
  ASSUME SortInv, NEW n \in Names, Whole(n)
  PROVE  /\ Usable(n) /\ Seen[n] = Content(objects[n])
         /\ Seen[n] \in Seq(Keys) /\ Ascends(Seen[n])
         /\ Seen[n] \notin {Absent, Lost} /\ Moved \notin ToSet(Seen[n])
         /\ Len(Seen[n]) = objects[n].finish
<1>1. Usable(n) /\ Content(objects[n]) \in Seq(Keys) /\ Moved \notin ToSet(Content(objects[n]))
  BY WholeIsUsable DEF SortInv, Whole
<1>2. /\ Seen[n] = Content(objects[n]) /\ Climbs(Seen[n])
      /\ Seen[n] \notin {Absent, Lost} /\ Len(Seen[n]) = objects[n].finish
  BY <1>1, ShowsItsKeys
<1> QED BY <1>1, <1>2, WholeAscends

LEMMA ReallocatedSeen ==
  ASSUME SetInv, NEW n \in Names \ torn, NEW keys, NEW size, Counts(keys, size),
         NEW capacity \in Nat, Len(keys) <= capacity,
         Reallocate(n, keys, size, capacity), torn' = torn,
         NEW shown, shown = SubSeq(keys, 1, size)
  PROVE  Seen' = [Seen EXCEPT ![n] = shown]
<1>1. PICK b \in FreeIn(memory) :
        /\ memory' = Delete([memory EXCEPT ![b] = Filled(keys, capacity)], BufferOf(objects[n]))
        /\ objects' = [objects EXCEPT ![n] = [start |-> b, finish |-> size, end |-> capacity]]
  BY DEF Reallocate, BufferOf
<1>2. PICK o : o = [start |-> b, finish |-> size, end |-> capacity]
  OBVIOUS
<1>3. PICK row : row = Filled(keys, capacity)
  OBVIOUS
<1>5. b \in Buffers /\ memory[b] = Absent
  BY DEF FreeIn
<1>6. /\ o \in SetObjects /\ o # Absent /\ o.start = b /\ o.start # Nowhere
      /\ o.finish = size /\ o.end = capacity
  <2>1. o \in SetObjects /\ o.start = b /\ o.finish = size /\ o.end = capacity
    BY <1>2, <1>5 DEF SetObjects, Counts
  <2> QED BY <1>5, <2>1, NowhereIsNoBuffer
<1>7. b # BufferOf(objects[n])
  <2>1. CASE objects[n] = Absent
    BY <1>5, <2>1, NowhereIsNoBuffer DEF BufferOf
  <2>2. CASE objects[n] # Absent
    <3>1. Owns(objects[n], memory)
      BY <2>2 DEF SetInv, Proper, Alive
    <3> QED BY <1>5, <2>2, <3>1, NowhereIsNoBuffer DEF BufferOf, Owns, Fits
  <2> QED BY <2>1, <2>2
<1>8. PICK mem2 : mem2 = memory'
  OBVIOUS
<1>9. mem2[b] = row /\ KeepsOthers(objects, memory, n, mem2)
  BY <1>1, <1>3, <1>5, <1>7, <1>8 DEF Delete, SetInv, Proper, KeepsOthers
<1>a. Held(o, mem2) = shown
  <2>1. SubSeq(row, 1, size) = shown
    BY <1>3, <1>6, FilledFits
  <2> QED BY <1>6, <1>9, <2>1 DEF Held
<1>b. ShowsChange(objects, memory, torn, n, o, mem2, torn)
  <2>1. Proper(objects, memory, torn) /\ (torn = torn \/ torn = torn \cup {n})
    BY DEF SetInv
  <2> QED BY ONLY <1>9, <2>1, n \in Names \ torn, OneChanges
<1>c. View([objects EXCEPT ![n] = o], mem2, torn) = [View(objects, memory, torn) EXCEPT ![n] = shown]
  BY <1>6, <1>a, <1>b DEF ShowsChange
<1>d. View(objects', memory', torn') = [View(objects, memory, torn) EXCEPT ![n] = shown]
  BY <1>1, <1>2, <1>8, <1>c
<1> QED BY <1>d DEF Seen

LEMMA KeysChangeSeen ==
  ASSUME SetInv, NEW n \in Names, Usable(n), objects[n].end > 0,
         NEW keys, NEW size, Counts(keys, size), Len(keys) <= objects[n].end,
         memory' = [memory EXCEPT ![objects[n].start] = Refilled(objects[n], keys)],
         objects' = [objects EXCEPT ![n].finish = size],
         torn' = torn,
         NEW shown, shown = SubSeq(keys, 1, size)
  PROVE  Seen' = [Seen EXCEPT ![n] = shown]
<1>1. PICK x \in SetObjects, b \in Buffers :
        /\ x = objects[n] /\ b = objects[n].start /\ n \in Names \ torn /\ BufferOf(objects[n]) = b
        /\ Fits(x, memory[b]) /\ x.start = b
  BY UsableIsAlive, NowhereIsNoBuffer DEF Owns
<1>2. PICK o : o = [x EXCEPT !.finish = size]
  OBVIOUS
<1>3. PICK row : row = Refilled(x, keys)
  OBVIOUS
<1>4. /\ o \in SetObjects /\ o.start = b /\ o.finish = size /\ o.end = x.end
      /\ o # Absent /\ o.start # Nowhere
  <2>1. o \in SetObjects /\ o.start = b /\ o.finish = size /\ o.end = x.end
    BY <1>1, <1>2 DEF SetObjects, Counts
  <2> QED BY <2>1, NowhereIsNoBuffer
<1>5. PICK mem2 : mem2 = memory'
  OBVIOUS
<1>6. mem2[b] = row /\ KeepsOthers(objects, memory, n, mem2)
  BY <1>1, <1>3, <1>5 DEF SetInv, Proper, KeepsOthers
<1>7. Held(o, mem2) = shown
  <2>1. SubSeq(row, 1, size) = shown
    <3>1. Fits(x, memory[x.start]) /\ Len(keys) <= x.end
      BY <1>1
    <3>2. SubSeq(Refilled(x, keys), 1, size) = SubSeq(keys, 1, size)
      BY <1>4, <3>1, RefilledFits
    <3> QED BY <1>3, <3>2
  <2> QED BY <1>4, <1>6, <2>1 DEF Held
<1>8. ShowsChange(objects, memory, torn, n, o, mem2, torn)
  <2>1. Proper(objects, memory, torn) /\ (torn = torn \/ torn = torn \cup {n})
    BY DEF SetInv
  <2>2. n \in Names \ torn
    BY <1>1
  <2> QED BY ONLY <1>6, <2>1, <2>2, OneChanges
<1>9. View([objects EXCEPT ![n] = o], mem2, torn) = [View(objects, memory, torn) EXCEPT ![n] = shown]
  BY <1>1, <1>4, <1>7, <1>8 DEF ShowsChange
<1>a. objects' = [objects EXCEPT ![n] = o]
  BY <1>1, <1>2
<1>b. View(objects', memory', torn') = [View(objects, memory, torn) EXCEPT ![n] = shown]
  BY <1>5, <1>9, <1>a
<1> QED BY <1>b DEF Seen

-----------------------------------------------------------------------------
(* The steps of the promise, in terms of what is seen.                     *)

SeenNow ==
  [n \in Names |-> IF n \in torn THEN Lost ELSE IF objects[n] = Absent THEN Absent ELSE Content(objects[n])]

LEMMA SeenIsNow == Seen = SeenNow /\ Seen' = SeenNow'
BY DEF Seen, SeenNow, View, Held, Content

LEMMA Constructed ==
  ASSUME NEW n \in Names, Seen[n] = Absent, answer' = Silent, NEW S \in SUBSET Keys,
         Seen' = [Seen EXCEPT ![n] = Sets!Ordered(S)]
  PROVE  Sets!Next
<1>1. SeenNow[n] = Absent /\ SeenNow' = [SeenNow EXCEPT ![n] = Sets!Ordered(S)]
  BY SeenIsNow
<1>2. Sets!Construct(n)
  BY <1>1 DEF Sets!Construct, SeenNow, Silent, Sets!Silent
<1> QED BY <1>2 DEF Sets!Next

LEMMA ConstructedFrom ==
  ASSUME NEW n \in Names, Seen[n] = Absent, answer' = Silent,
         NEW m \in Names, Seen[m] \notin {Absent, Lost},
         \/ Seen' = [Seen EXCEPT ![n] = Seen[m]]
         \/ Seen' = [Seen EXCEPT ![n] = Seen[m], ![m] = <<>>]
  PROVE  Sets!Next
<1>1. /\ SeenNow[n] = Absent /\ SeenNow[m] \notin {Absent, Lost}
      /\ \/ SeenNow' = [SeenNow EXCEPT ![n] = SeenNow[m]]
         \/ SeenNow' = [SeenNow EXCEPT ![n] = SeenNow[m], ![m] = <<>>]
  BY SeenIsNow
<1>2. Sets!Construct(n)
  BY <1>1 DEF Sets!Construct, Sets!Present, SeenNow, Silent, Sets!Silent
<1> QED BY <1>2 DEF Sets!Next

LEMMA Assigned ==
  ASSUME NEW n \in Names, NEW m \in Names, n # m, answer' = Silent,
         Seen[n] \notin {Absent, Lost}, Seen[m] \notin {Absent, Lost},
         \/ Seen' = [Seen EXCEPT ![n] = Seen[m]]
         \/ Seen' = [Seen EXCEPT ![n] = Seen[m], ![m] = <<>>]
         \/ Seen' = [Seen EXCEPT ![n] = <<>>]
         \/ Seen' = [Seen EXCEPT ![n] = Lost]
         \/ Seen' = [Seen EXCEPT ![n] = Seen[m], ![m] = Seen[n]]
  PROVE  Sets!Next
<1>1. /\ SeenNow[n] \notin {Absent, Lost} /\ SeenNow[m] \notin {Absent, Lost}
      /\ \/ SeenNow' = [SeenNow EXCEPT ![n] = SeenNow[m]]
         \/ SeenNow' = [SeenNow EXCEPT ![n] = SeenNow[m], ![m] = <<>>]
         \/ SeenNow' = [SeenNow EXCEPT ![n] = <<>>]
         \/ SeenNow' = [SeenNow EXCEPT ![n] = Lost]
         \/ SeenNow' = [SeenNow EXCEPT ![n] = SeenNow[m], ![m] = SeenNow[n]]
  BY SeenIsNow
<1>2. Sets!Assign(n, m)
  BY <1>1 DEF Sets!Assign, Sets!Present, SeenNow, Silent, Sets!Silent
<1> QED BY <1>2 DEF Sets!Next

LEMMA Inserted ==
  ASSUME NEW n \in Names, NEW k \in Keys, Seen[n] \notin {Absent, Lost},
         NEW S, S = ToSet(Seen[n]), Moved \notin S,
         Seen' = [Seen EXCEPT ![n] = Sets!Ordered(S \cup {k})],
         answer' = <<Sets!Position(S, k), k \notin S>>
  PROVE  Sets!Next
<1>1. /\ SeenNow[n] \notin {Absent, Lost} /\ S = Sets!ToSet(SeenNow[n])
      /\ SeenNow' = [SeenNow EXCEPT ![n] = Sets!Ordered(S \cup {k})]
  BY SeenIsNow, SameToSet
<1>2. Sets!Insert(n, k)
  BY <1>1 DEF Sets!Insert, Sets!Whole, Sets!Present, SeenNow
<1> QED BY <1>2 DEF Sets!Next

LEMMA Spoiled ==
  ASSUME NEW n \in Names, NEW k \in Keys, Seen[n] \notin {Absent, Lost},
         NEW S, S = ToSet(Seen[n]), Moved \notin S, k \notin S,
         NEW place, place = Sets!Position(S, k), place <= Len(Seen[n]),
         Seen' = [Seen EXCEPT ![n] = InsertAt(Front(Seen[n]), place, Moved)],
         answer' = Silent
  PROVE  Sets!Next
<1>1. /\ SeenNow[n] \notin {Absent, Lost} /\ S = Sets!ToSet(SeenNow[n])
      /\ place <= Len(SeenNow[n])
      /\ SeenNow' = [SeenNow EXCEPT ![n] = Sets!InsertAt(Sets!Front(SeenNow[n]), place, Moved)]
  BY SeenIsNow, SameToSet, SameMoves
<1>2. SeenNow' = [SeenNow EXCEPT ![n] = Sets!InsertAt(Sets!Front(@), place, Moved)]
  BY <1>1
<1>3. Sets!Spoil(n, k)
  BY <1>1, <1>2 DEF Sets!Spoil, Sets!Whole, Sets!Present, SeenNow, Silent, Sets!Silent
<1> QED BY <1>3 DEF Sets!Next

LEMMA Erased ==
  ASSUME NEW n \in Names, Seen[n] \in Seq(Cells), Seen[n] \notin {Absent, Lost},
         NEW i \in 1..Len(Seen[n]),
         Seen' = [Seen EXCEPT ![n] = RemoveAt(Seen[n], i)],
         answer' = <<i, FALSE>>
  PROVE  Sets!Next
<1>1. PICK keys \in Seq(Cells) : keys = Seen[n] /\ DOMAIN keys = 1..Len(keys)
  OBVIOUS
<1>2. keys = SeenNow[n] /\ keys \notin {Absent, Lost} /\ i \in DOMAIN keys
  BY <1>1, SeenIsNow
<1>3. SeenNow' = [SeenNow EXCEPT ![n] = Sets!RemoveAt(keys, i)]
  BY <1>1, SeenIsNow, SameMoves
<1>4. SeenNow' = [SeenNow EXCEPT ![n] = Sets!RemoveAt(@, i)]
  BY <1>2, <1>3
<1>5. Sets!Erase(n)
  BY <1>2, <1>4 DEF Sets!Erase, Sets!Present, SeenNow
<1> QED BY <1>5 DEF Sets!Next

LEMMA Found ==
  ASSUME NEW n \in Names, NEW k \in Keys, Seen[n] \notin {Absent, Lost},
         NEW S, S = ToSet(Seen[n]), Moved \notin S, Seen' = Seen,
         answer' = <<IF k \in S THEN Sets!Position(S, k) ELSE Cardinality(S) + 1, FALSE>>
  PROVE  Sets!Next
<1>1. /\ SeenNow[n] \notin {Absent, Lost} /\ S = Sets!ToSet(SeenNow[n]) /\ SeenNow' = SeenNow
      /\ Cardinality(S) = Sets!Cardinality(S)
  BY SeenIsNow, SameToSet, SameCardinality
<1>2. Sets!Find(n, k)
  BY <1>1 DEF Sets!Find, Sets!Whole, Sets!Present, SeenNow
<1> QED BY <1>2 DEF Sets!Next

LEMMA Cleared ==
  ASSUME NEW n \in Names, Seen[n] \notin {Absent, Lost}, answer' = Silent,
         Seen' = [Seen EXCEPT ![n] = <<>>]
  PROVE  Sets!Next
<1>1. SeenNow[n] \notin {Absent, Lost} /\ SeenNow' = [SeenNow EXCEPT ![n] = <<>>]
  BY SeenIsNow
<1>2. Sets!Clear(n)
  BY <1>1 DEF Sets!Clear, Sets!Present, SeenNow, Silent, Sets!Silent
<1> QED BY <1>2 DEF Sets!Next

LEMMA Destroyed ==
  ASSUME NEW n \in Names, Seen[n] # Absent, answer' = Silent,
         \/ Seen' = [Seen EXCEPT ![n] = Absent]
         \/ /\ Seen[n] = Lost
            /\ \E m \in Names \ {n} : Seen' = [Seen EXCEPT ![n] = Absent, ![m] = Lost]
  PROVE  Sets!Next
<1>1. /\ SeenNow[n] # Absent
      /\ \/ SeenNow' = [SeenNow EXCEPT ![n] = Absent]
         \/ /\ SeenNow[n] = Lost
            /\ \E m \in Names \ {n} : SeenNow' = [SeenNow EXCEPT ![n] = Absent, ![m] = Lost]
  BY SeenIsNow
<1>2. Sets!Destroy(n)
  BY <1>1 DEF Sets!Destroy, SeenNow, Silent, Sets!Silent
<1> QED BY <1>2 DEF Sets!Next

LEMMA NotSeen ==
  ASSUME answer' = Silent, Seen' = Seen
  PROVE  Sets!Next
<1>1. SeenNow' = SeenNow
  BY SeenIsNow
<1>2. Sets!Nothing
  BY <1>1 DEF Sets!Nothing, SeenNow, Silent, Sets!Silent
<1> QED BY <1>2 DEF Sets!Next

-----------------------------------------------------------------------------
(* Each call is a step of the promise.                                     *)

Kept == Seen' \in [Names -> Rows] /\ Sets!Next

LEMMA EmptyRow ==
  /\ <<>> \in Seq(Keys) /\ Ascends(<<>>) /\ ToSet(<<>>) = {} /\ Len(<<>>) = 0
  /\ Sets!Ordered({}) = <<>> /\ <<>> \in Rows /\ Counts(<<>>, 0) /\ SubSeq(<<>>, 1, 0) = <<>>
<1>1. <<>> \in Seq(Keys) /\ Ascends(<<>>) /\ ToSet(<<>>) = {} /\ Len(<<>>) = 0
  BY DEF Ascends, ToSet
<1>2. Sets!Ordered({}) = <<>>
  BY <1>1, InOrder
<1>3. Counts(<<>>, 0) /\ SubSeq(<<>>, 1, 0) = <<>>
  BY DEF Counts
<1> QED BY <1>1, <1>2, <1>3, AscendingClimbs DEF Rows

\* A call that leaves the memory and the objects as they are.
LEMMA LooksOnly ==
  ASSUME SortInv, UNCHANGED <<objects, memory, torn>>
  PROVE  Seen' = Seen /\ Seen' \in [Names -> Rows]
BY DEF Seen, SortInv

LEMMA FailsKept ==
  ASSUME SortInv, Fails
  PROVE  Kept
<1>1. Seen' = Seen /\ Seen' \in [Names -> Rows] /\ answer' = Silent
  BY LooksOnly DEF Fails
<1> QED BY <1>1, NotSeen DEF Kept

LEMMA AbsentSeen ==
  ASSUME SortInv, NEW n \in Names, objects[n] = Absent
  PROVE  n \in Names \ torn /\ Seen[n] = Absent
BY AbsentIsNotTorn DEF SortInv, Seen, View

LEMMA ConstructKept ==
  ASSUME SortInv, NEW n \in Names, Construct(n)
  PROVE  Kept
<1>1. Proper(objects, memory, torn) /\ n \in Names \ torn /\ Seen[n] = Absent
  BY AbsentSeen DEF Construct, SortInv, SetInv
<1>2. KeepsOthers(objects, memory, n, memory)
  BY DEF KeepsOthers
<1>3. ShowsChange(objects, memory, torn, n, Empty, memory, torn)
  BY <1>1, <1>2, OneChanges
<1>4. Held(Empty, memory) = <<>> /\ Empty # Absent
  BY NowhereIsNoBuffer DEF Held
<1>5. View([objects EXCEPT ![n] = Empty], memory, torn) = [View(objects, memory, torn) EXCEPT ![n] = <<>>]
  BY <1>1, <1>3, <1>4 DEF ShowsChange
<1>6. View(objects', memory', torn') = [View(objects, memory, torn) EXCEPT ![n] = <<>>]
  BY <1>5 DEF Construct
<1>7. Seen' = [Seen EXCEPT ![n] = Sets!Ordered({})] /\ Seen' = [Seen EXCEPT ![n] = <<>>]
  BY <1>6, EmptyRow DEF Seen
<1>8. {} \in SUBSET Keys /\ answer' = Silent
  BY DEF Construct
<1>9. Sets!Next
  BY <1>1, <1>7, <1>8, Constructed
<1> QED BY <1>7, <1>9, EmptyRow DEF Kept, SortInv

LEMMA OrderedConstructKept ==
  ASSUME SortInv, NEW n \in Names, NEW S \in SUBSET Keys, OrderedConstruct(n, S)
  PROVE  Kept
<1>1. n \in Names \ torn /\ Seen[n] = Absent
  BY AbsentSeen DEF OrderedConstruct
<1>2. CASE Reallocate(n, Ascending(S), Cardinality(S), Cardinality(S)) /\ torn' = torn /\ answer' = Silent
  <2>1. PICK keys \in Seq(Keys), c \in Nat :
          keys = Ascending(S) /\ c = Cardinality(S) /\ Len(keys) = c /\ Ascends(keys)
    BY AscendingOf
  <2>2. /\ Reallocate(n, keys, c, c) /\ Len(keys) <= c /\ SetInv
        /\ Counts(keys, c) /\ SubSeq(keys, 1, c) = keys
    BY <1>2, <2>1, KeysAreCells, CountsCells DEF SortInv
  <2>3. Seen' = [Seen EXCEPT ![n] = keys]
    BY <1>1, <1>2, <2>2, ReallocatedSeen
  <2>4. ToSet(keys) = S
    <3>1. \A i \in 1..c : keys[i] \in S
      BY <2>1, AscendingOf
    <3>2. ToSet(keys) \subseteq S /\ Cardinality(ToSet(keys)) = Cardinality(S)
      BY <2>1, <3>1, KeysOf
    <3>3. IsFiniteSet(S)
      BY FS_Subset, SetAssumption
    <3> QED BY <3>2, <3>3, FS_Subset
  <2>5. Sets!Ordered(S) = keys
    BY <2>1, <2>4, InOrder
  <2>6. Sets!Next
    BY <1>1, <1>2, <2>3, <2>5, Constructed
  <2>7. keys \in Rows
    BY <2>1, AscendingClimbs DEF Rows
  <2> QED BY <2>3, <2>6, <2>7 DEF Kept, SortInv
<1>3. CASE Fails
  BY <1>3, FailsKept
<1> QED BY <1>2, <1>3 DEF OrderedConstruct

LEMMA CopyConstructKept ==
  ASSUME SortInv, NEW n \in Names, NEW m \in Names, CopyConstruct(n, m)
  PROVE  Kept
<1>1. n \in Names \ torn /\ Seen[n] = Absent /\ Usable(m)
  BY AbsentSeen DEF CopyConstruct
<1>2. CASE /\ Reallocate(n, Content(objects[m]), objects[m].finish, objects[m].end)
           /\ torn' = torn /\ answer' = Silent
  <2>1. PICK keys \in Seq(Cells), f \in Nat, e \in Nat :
          /\ keys = Seen[m] /\ keys = Content(objects[m]) /\ f = objects[m].finish /\ e = objects[m].end
          /\ Len(keys) = f /\ f <= e /\ Climbs(keys) /\ keys \notin {Absent, Lost}
    BY <1>1, ShowsItsKeys, UsableIsAlive DEF SortInv
  <2>2. Reallocate(n, keys, f, e) /\ SetInv /\ Counts(keys, f) /\ SubSeq(keys, 1, f) = keys
    BY <1>2, <2>1, CountsCells DEF SortInv
  <2>3. Seen' = [Seen EXCEPT ![n] = keys]
    BY <1>1, <1>2, <2>1, <2>2, ReallocatedSeen
  <2>4. Sets!Next
    BY <1>1, <1>2, <2>1, <2>3, ConstructedFrom
  <2>5. keys \in Rows
    BY <2>1 DEF Rows
  <2> QED BY <2>3, <2>4, <2>5 DEF Kept, SortInv
<1>3. CASE Fails
  BY <1>3, FailsKept
<1> QED BY <1>2, <1>3 DEF CopyConstruct

LEMMA CapacityKept ==
  ASSUME SortInv, NEW n \in Names,
         ShrinkToFit(n) \/ \E capacity \in 1..MaxCapacity : Reserve(n, capacity)
  PROVE  Kept
<1>1. Usable(n)
  BY DEF ShrinkToFit, Reserve
<1>2. PICK keys \in Seq(Cells), f \in Nat, e \in Nat :
        keys = Content(objects[n]) /\ f = objects[n].finish /\ e = objects[n].end
        /\ Len(keys) = f /\ f <= e /\ n \in Names \ torn /\ keys = Seen[n]
        /\ Counts(keys, f) /\ SubSeq(keys, 1, f) = keys
  BY <1>1, UsableIsAlive, ShowsItsKeys, CountsCells DEF SortInv
<1>3. ASSUME NEW c \in Nat, Len(keys) <= c, Reallocate(n, keys, f, c), torn' = torn, answer' = Silent
      PROVE  Kept
  <2>1. Seen' = [Seen EXCEPT ![n] = keys]
    BY <1>2, <1>3, ReallocatedSeen DEF SortInv
  <2>2. Seen' = Seen
    BY <1>2, <2>1 DEF SortInv
  <2> QED BY <1>3, <2>2, NotSeen DEF Kept, SortInv
<1>4. CASE ShrinkToFit(n)
  BY <1>2, <1>3, <1>4, FailsKept DEF ShrinkToFit
<1>5. ASSUME NEW c \in 1..MaxCapacity, Reserve(n, c) PROVE Kept
  <2>1. c \in Nat /\ Len(keys) <= c
    BY <1>2, <1>5, SetAssumption DEF Reserve
  <2> QED BY <1>2, <1>3, <1>5, <2>1, FailsKept DEF Reserve
<1> QED BY <1>4, <1>5

LEMMA DeleteKeepsOthers ==
  ASSUME NEW objs, NEW mem, NEW n
  PROVE  KeepsOthers(objs, mem, n, Delete(mem, BufferOf(objs[n])))
BY DEF KeepsOthers, Delete

LEMMA MoveKept ==
  ASSUME SortInv, NEW n \in Names, NEW m \in Names, MoveConstruct(n, m) \/ MoveAssign(n, m)
  PROVE  Kept
<1>1. /\ n \in Names \ torn /\ m \in Names \ torn /\ n # m
      /\ Proper(objects, memory, torn) /\ Usable(m)
  BY AbsentSeen DEF MoveConstruct, MoveAssign, Usable, SortInv, SetInv
<1>2. PICK objs : objs = [objects EXCEPT ![n] = Empty]
  OBVIOUS
<1>3. PICK mem : mem = Delete(memory, BufferOf(objects[n]))
  OBVIOUS
<1>4. Proper(objs, mem, torn)
  BY <1>1, <1>2, <1>3, GivesUp, NowhereIsNoBuffer
<1>5. View(objs, mem, torn) = [Seen EXCEPT ![n] = <<>>]
  <2>1. KeepsOthers(objects, memory, n, mem)
    BY <1>3, DeleteKeepsOthers
  <2>2. ShowsChange(objects, memory, torn, n, Empty, mem, torn)
    BY <1>1, <2>1, OneChanges
  <2>3. Held(Empty, mem) = <<>> /\ Empty # Absent
    BY NowhereIsNoBuffer DEF Held
  <2> QED BY <1>1, <1>2, <2>2, <2>3 DEF ShowsChange, Seen
<1>6. PICK v : v = View(objs, mem, torn)
  OBVIOUS
<1>7. View([objs EXCEPT ![n] = objs[m], ![m] = objs[n]], mem, torn) = [v EXCEPT ![n] = v[m], ![m] = v[n]]
  BY <1>1, <1>4, <1>6, TwoExchange
<1>8. v[n] = <<>> /\ v[m] = Seen[m]
  BY <1>1, <1>5, <1>6 DEF SortInv
<1>9. [v EXCEPT ![n] = v[m], ![m] = v[n]] = [Seen EXCEPT ![n] = Seen[m], ![m] = <<>>]
  BY <1>1, <1>5, <1>6, <1>8 DEF SortInv
<1>a. objects' = [objs EXCEPT ![n] = objs[m], ![m] = objs[n]] /\ torn' = torn /\ answer' = Silent
  BY <1>1, <1>2 DEF MoveConstruct, MoveAssign, Proper
<1>b. memory' = mem
  <2>1. CASE MoveAssign(n, m)
    BY <1>3, <2>1, UsableIsAlive DEF MoveAssign, SortInv
  <2>2. CASE MoveConstruct(n, m)
    <3>1. mem = Delete(memory, Nowhere) /\ memory' = memory
      BY <1>3, <2>2, AbsentIsNotTorn DEF MoveConstruct, SortInv
    <3> QED BY <1>1, <3>1, NowhereIsNoBuffer DEF Delete, Proper
  <2> QED BY <2>1, <2>2
<1>c. Seen' = [Seen EXCEPT ![n] = Seen[m], ![m] = <<>>]
  <2>1. View(objects', memory', torn') = [Seen EXCEPT ![n] = Seen[m], ![m] = <<>>]
    BY <1>7, <1>9, <1>a, <1>b
  <2> QED BY <2>1 DEF Seen
<1>d. Seen[m] \notin {Absent, Lost}
  BY <1>1, ShowsItsKeys
<1>e. Sets!Next
  <2>1. CASE MoveConstruct(n, m)
    <3>1. Seen[n] = Absent
      BY <2>1, AbsentSeen DEF MoveConstruct
    <3> QED BY <1>a, <1>c, <1>d, <3>1, ConstructedFrom
  <2>2. CASE MoveAssign(n, m)
    <3>1. Seen[n] \notin {Absent, Lost}
      BY <2>2, ShowsItsKeys DEF MoveAssign
    <3> QED BY <1>1, <1>a, <1>c, <1>d, <3>1, Assigned
  <2> QED BY <2>1, <2>2
<1>f. Seen[m] \in Rows /\ <<>> \in Rows
  BY EmptyRow DEF SortInv
<1> QED BY <1>c, <1>e, <1>f DEF Kept, SortInv

LEMMA SwapKept ==
  ASSUME SortInv, NEW n \in Names, NEW m \in Names, SwapWith(n, m)
  PROVE  Kept
<1>1. Usable(n) /\ Usable(m) /\ n \in Names \ torn /\ m \in Names \ torn /\ Proper(objects, memory, torn)
  BY DEF SwapWith, Usable, SortInv, SetInv
<1>2. Seen' = [Seen EXCEPT ![n] = Seen[m], ![m] = Seen[n]] /\ answer' = Silent
  <2>1. View([objects EXCEPT ![n] = objects[m], ![m] = objects[n]], memory, torn) =
          [Seen EXCEPT ![n] = Seen[m], ![m] = Seen[n]]
    BY <1>1, TwoExchange DEF Seen
  <2>2. View(objects', memory', torn') = [Seen EXCEPT ![n] = Seen[m], ![m] = Seen[n]]
    BY <2>1 DEF SwapWith
  <2> QED BY <2>2 DEF Seen, SwapWith
<1>3. Seen' \in [Names -> Rows]
  BY <1>2 DEF SortInv
<1>4. CASE n = m
  <2>1. Seen' = Seen
    BY <1>2, <1>4 DEF SortInv
  <2> QED BY <1>2, <1>3, <2>1, NotSeen DEF Kept
<1>5. CASE n # m
  <2>1. Seen[n] \notin {Absent, Lost} /\ Seen[m] \notin {Absent, Lost}
    BY <1>1, ShowsItsKeys
  <2>2. Sets!Next
    BY <1>2, <1>5, <2>1, Assigned
  <2> QED BY <1>3, <2>2 DEF Kept
<1> QED BY <1>4, <1>5

LEMMA CopyAssignKept ==
  ASSUME SortInv, NEW n \in Names, NEW m \in Names, CopyAssign(n, m)
  PROVE  Kept
<1>1. /\ Usable(n) /\ Usable(m) /\ n # m /\ n \in Names \ torn /\ answer' = Silent
      /\ Proper(objects, memory, torn) /\ BufferOf(objects[n]) = objects[n].start
  BY UsableIsAlive DEF CopyAssign, SortInv, SetInv
<1>2. Seen[n] \notin {Absent, Lost} /\ Seen[m] \notin {Absent, Lost} /\ Seen[m] \in Rows
  BY <1>1, ShowsItsKeys DEF SortInv
<1>3. PICK freed : freed = Delete(memory, BufferOf(objects[n]))
  OBVIOUS
<1>4. KeepsOthers(objects, memory, n, freed)
  BY <1>3, DeleteKeepsOthers
<1>5. PICK x \in SetObjects, y \in SetObjects : x = objects[n] /\ y = objects[m]
  BY <1>1, UsableIsAlive DEF SortInv
<1>6. ASSUME NEW b \in FreeIn(freed),
             memory' = [freed EXCEPT ![b] = Filled(Content(objects[m]), objects[m].end)],
             objects' = [objects EXCEPT ![n] = [objects[m] EXCEPT !.start = b]],
             torn' = torn
      PROVE  Kept
  <2>1. b \in Buffers /\ freed[b] = Absent
    BY DEF FreeIn
  <2>2. PICK o : o = [y EXCEPT !.start = b]
    OBVIOUS
  <2>3. /\ o \in SetObjects /\ o.start = b /\ o.finish = y.finish /\ o.end = y.end
        /\ o # Absent /\ o.start # Nowhere
    <3>1. o \in SetObjects /\ o.start = b /\ o.finish = y.finish /\ o.end = y.end
      BY <2>1, <2>2 DEF SetObjects
    <3> QED BY <2>1, <3>1, NowhereIsNoBuffer
  <2>4. PICK keys \in Seq(Cells), end \in Nat :
          /\ keys = Content(objects[m]) /\ keys = Seen[m] /\ end = objects[m].end
          /\ Len(keys) = y.finish /\ Len(keys) <= end
    BY <1>1, <1>5, UsableIsAlive, ShowsItsKeys DEF SortInv
  <2>5. PICK mem2 : mem2 = memory'
    OBVIOUS
  <2>6. mem2[b] = Filled(keys, end) /\ \A c \in Buffers \ {b} : mem2[c] = freed[c]
    BY <1>3, <1>6, <2>1, <2>4, <2>5 DEF Delete
  <2>7. KeepsOthers(objects, memory, n, mem2)
    BY <1>4, <2>1, <2>6 DEF KeepsOthers
  <2>8. Held(o, mem2) = keys
    BY <1>5, <2>3, <2>4, <2>6, CountsCells, FilledFits DEF Held
  <2>9. ShowsChange(objects, memory, torn, n, o, mem2, torn)
    BY <1>1, <2>7, OneChanges
  <2>a. View([objects EXCEPT ![n] = o], mem2, torn) = [Seen EXCEPT ![n] = Seen[m]]
    BY <1>1, <2>3, <2>4, <2>8, <2>9 DEF ShowsChange, Seen
  <2>b. View(objects', memory', torn') = [Seen EXCEPT ![n] = Seen[m]]
    BY <1>5, <1>6, <2>2, <2>5, <2>a
  <2>c. Seen' = [Seen EXCEPT ![n] = Seen[m]]
    BY <2>b DEF Seen
  <2>d. Sets!Next
    BY <1>1, <1>2, <2>c, Assigned
  <2> QED BY <1>2, <2>c, <2>d DEF Kept, SortInv
<1>7. ASSUME memory' = freed, NEW o, objects' = [objects EXCEPT ![n] = o],
             torn' = torn \cup {n}
      PROVE  Kept
  <2>1. ShowsChange(objects, memory, torn, n, o, freed, torn \cup {n})
    BY <1>1, <1>4, OneChanges
  <2>2. View([objects EXCEPT ![n] = o], freed, torn \cup {n}) = [Seen EXCEPT ![n] = Lost]
    BY <2>1 DEF ShowsChange, Seen
  <2>3. View(objects', memory', torn') = [Seen EXCEPT ![n] = Lost]
    BY <1>7, <2>2
  <2>4. Seen' = [Seen EXCEPT ![n] = Lost]
    BY <2>3 DEF Seen
  <2>5. Sets!Next
    BY <1>1, <1>2, <2>4, Assigned
  <2>6. Lost \in Rows
    BY DEF Rows
  <2> QED BY <2>4, <2>5, <2>6 DEF Kept, SortInv
<1>8. ASSUME memory' = freed, objects[n].start = Nowhere, torn' = torn,
             objects' = [objects EXCEPT ![n] = [x EXCEPT !.finish = 0]]
      PROVE  Kept
  <2>1. PICK o : o = [x EXCEPT !.finish = 0]
    OBVIOUS
  <2>2. o \in SetObjects /\ o.start = Nowhere
    BY <1>5, <1>8, <2>1 DEF SetObjects
  <2>3. Held(o, freed) = <<>> /\ o # Absent
    BY <2>2, NowhereIsNoBuffer DEF Held
  <2>4. ShowsChange(objects, memory, torn, n, o, freed, torn)
    BY <1>1, <1>4, OneChanges
  <2>5. View([objects EXCEPT ![n] = o], freed, torn) = [Seen EXCEPT ![n] = <<>>]
    BY <1>1, <2>3, <2>4 DEF ShowsChange, Seen
  <2>6. View(objects', memory', torn') = [Seen EXCEPT ![n] = <<>>]
    BY <1>8, <2>1, <2>5
  <2>7. Seen' = [Seen EXCEPT ![n] = <<>>]
    BY <2>6 DEF Seen
  <2>8. Sets!Next
    BY <1>1, <1>2, <2>7, Assigned
  <2> QED BY <2>7, <2>8, EmptyRow DEF Kept, SortInv
<1>9. freed = Delete(memory, objects[n].start)
  BY <1>1, <1>3
<1>a. \A b : [objects EXCEPT ![n].start = b] = [objects EXCEPT ![n] = [x EXCEPT !.start = b]]
  BY <1>5
<1>b. [objects EXCEPT ![n].finish = 0] = [objects EXCEPT ![n] = [x EXCEPT !.finish = 0]]
  BY <1>5
<1>c. CASE /\ memory' = freed
           /\ objects' = [objects EXCEPT ![n].finish = 0]
           /\ torn' = IF objects[n].start = Nowhere THEN torn ELSE torn \cup {n}
  <2>1. CASE objects[n].start = Nowhere
    BY <1>8, <1>b, <1>c, <2>1
  <2>2. CASE objects[n].start # Nowhere
    BY <1>7, <1>b, <1>c, <2>2
  <2> QED BY <2>1, <2>2
<1>d. CASE /\ memory' = freed
           /\ \E b \in FreeIn(freed) : objects' = [objects EXCEPT ![n].start = b]
           /\ torn' = torn \cup {n}
  BY <1>7, <1>a, <1>d
<1> QED BY <1>6, <1>9, <1>c, <1>d DEF CopyAssign

LEMMA DestructKept ==
  ASSUME SortInv, NEW n \in Names, Destruct(n)
  PROVE  Kept
<1>1. /\ Usable(n) /\ n \in Names \ torn /\ answer' = Silent
      /\ Proper(objects, memory, torn) /\ BufferOf(objects[n]) = objects[n].start
  BY UsableIsAlive DEF Destruct, SortInv, SetInv
<1>2. PICK freed : freed = Delete(memory, BufferOf(objects[n]))
  OBVIOUS
<1>3. KeepsOthers(objects, memory, n, freed)
  BY <1>2, DeleteKeepsOthers
<1>4. ShowsChange(objects, memory, torn, n, Absent, freed, torn)
  BY <1>1, <1>3, OneChanges
<1>5. View([objects EXCEPT ![n] = Absent], freed, torn) = [Seen EXCEPT ![n] = Absent]
  BY <1>1, <1>4 DEF ShowsChange, Seen
<1>6. View(objects', memory', torn') = [Seen EXCEPT ![n] = Absent]
  BY <1>1, <1>2, <1>5 DEF Destruct
<1>7. Seen' = [Seen EXCEPT ![n] = Absent]
  BY <1>6 DEF Seen
<1>8. Sets!Next
  BY <1>1, <1>7, ShowsItsKeys, Destroyed
<1>9. Absent \in Rows
  BY DEF Rows
<1> QED BY <1>7, <1>8, <1>9 DEF Kept, SortInv

LEMMA DestructTornKept ==
  ASSUME SortInv, NEW n \in Names, DestructTorn(n)
  PROVE  Kept
<1>1. n \in torn /\ Proper(objects, memory, torn) /\ answer' = Silent
  BY DEF DestructTorn, SortInv, SetInv
<1>2. Seen[n] = Lost /\ Seen[n] # Absent
  BY <1>1, SetAssumption DEF Seen, View
<1>3. CASE UNCHANGED <<objects, memory, torn>>
  BY <1>1, <1>3, LooksOnly, NotSeen DEF Kept
<1>4. CASE /\ memory[objects[n].start] # Absent
           /\ memory' = Delete(memory, objects[n].start)
           /\ objects' = [objects EXCEPT ![n] = Absent]
           /\ torn' = {m \in Names \ {n} :
                        m \in torn \/ (objects[m] # Absent /\ objects[m].start = objects[n].start)}
  <2>1. PICK b \in Buffers : b = objects[n].start /\ memory[b] # Absent
    BY <1>1, <1>4 DEF Proper
  <2>2. PICK m \in Alive(objects, torn) : objects[m].start = b
    BY <1>1, <2>1 DEF Proper
  <2>3. m \in Names \ {n} /\ m \notin torn /\ objects[m] # Absent
    BY <1>1, <2>2 DEF Alive
  <2>4. \A x \in Alive(objects, torn) : x # m => objects[x].start # b
    BY <1>1, <2>1, <2>2, NowhereIsNoBuffer DEF Proper
  <2>5. PICK w : w = [Seen EXCEPT ![n] = Absent, ![m] = Lost]
    OBVIOUS
  <2>6. PICK objs, mem, u : objs = objects' /\ mem = memory' /\ u = torn'
    OBVIOUS
  <2>7. /\ objs[n] = Absent /\ \A x \in Names \ {n} : objs[x] = objects[x]
        /\ \A c \in Buffers : c # b => mem[c] = memory[c]
    BY <1>1, <1>4, <2>1, <2>6 DEF Delete, Proper
  <2>8. n \notin u /\ m \in u /\ \A x \in Names \ {n, m} : x \in u <=> x \in torn
    <3>1. u = {x \in Names \ {n} : x \in torn \/ (objects[x] # Absent /\ objects[x].start = b)}
      BY <1>4, <2>1, <2>6
    <3>2. \A x \in Names \ {n, m} : objects[x] # Absent /\ objects[x].start = b => x \in torn
      BY <2>4 DEF Alive
    <3> QED BY <2>2, <2>3, <3>1, <3>2
  <2>9. ASSUME NEW x \in Names, x # n, x # m, x \notin torn, objects[x] # Absent
        PROVE  Held(objects[x], mem) = Held(objects[x], memory)
    <3>1. x \in Alive(objects, torn) /\ Owns(objects[x], memory)
      BY <1>1, <2>9 DEF Alive, Proper
    <3>2. objects[x].start # b
      BY <2>4, <2>9, <3>1
    <3> QED BY <2>7, <3>1, <3>2 DEF Held, Owns
  <2>a. ASSUME NEW x \in Names PROVE View(objs, mem, u)[x] = w[x]
    <3>1. CASE x = n
      BY <2>3, <2>5, <2>7, <2>8, <3>1 DEF SortInv, View
    <3>2. CASE x = m
      BY <2>3, <2>5, <2>8, <3>2 DEF SortInv, View
    <3>3. CASE x # n /\ x # m
      <4>1. w[x] = Seen[x]
        BY <2>5, <3>3 DEF SortInv
      <4>2. Seen[x] = IF x \in torn THEN Lost ELSE IF objects[x] = Absent THEN Absent ELSE Held(objects[x], memory)
        BY DEF Seen, View
      <4>3. View(objs, mem, u)[x] =
              IF x \in torn THEN Lost ELSE IF objects[x] = Absent THEN Absent ELSE Held(objects[x], mem)
        BY <2>7, <2>8, <3>3 DEF View
      <4> QED BY <2>9, <3>3, <4>1, <4>2, <4>3
    <3> QED BY <3>1, <3>2, <3>3
  <2>b. View(objs, mem, u) = w
    <3>1. View(objs, mem, u) = [x \in Names |-> View(objs, mem, u)[x]]
      BY DEF View
    <3>2. w = [x \in Names |-> w[x]]
      BY <2>5 DEF SortInv
    <3> QED BY <2>a, <3>1, <3>2
  <2>c. Seen' = [Seen EXCEPT ![n] = Absent, ![m] = Lost]
    BY <2>5, <2>6, <2>b DEF Seen
  <2>d. Sets!Next
    BY <1>1, <1>2, <2>3, <2>c, Destroyed
  <2>e. Absent \in Rows /\ Lost \in Rows
    BY DEF Rows
  <2> QED BY <2>c, <2>d, <2>e DEF Kept, SortInv
<1> QED BY <1>3, <1>4 DEF DestructTorn

LEMMA ClearKept ==
  ASSUME SortInv, NEW n \in Names, ClearSet(n)
  PROVE  Kept
<1>1. Usable(n) /\ answer' = Silent /\ SetInv
  BY DEF ClearSet, SortInv
<1>2. objects[n].end > 0 /\ Len(<<>>) <= objects[n].end
  BY <1>1, UsableIsAlive, EmptyRow DEF ClearSet
<1>3. /\ memory' = [memory EXCEPT ![objects[n].start] = Refilled(objects[n], <<>>)]
      /\ objects' = [objects EXCEPT ![n].finish = 0]
      /\ torn' = torn
  BY DEF ClearSet
<1>4. Seen' = [Seen EXCEPT ![n] = <<>>]
  BY <1>1, <1>2, <1>3, EmptyRow, KeysChangeSeen
<1>5. Sets!Next
  BY <1>1, <1>4, ShowsItsKeys, Cleared
<1> QED BY <1>4, <1>5, EmptyRow DEF Kept, SortInv

LEMMA EraseKept ==
  ASSUME SortInv, NEW n \in Names, NEW i \in 1..MaxCapacity, EraseAt(n, i)
  PROVE  Kept
<1>1. Usable(n) /\ SetInv
  BY DEF EraseAt, SortInv
<1>2. PICK keys \in Seq(Cells), f \in Nat, e \in Nat :
        /\ keys = Content(objects[n]) /\ f = objects[n].finish /\ e = objects[n].end
        /\ Len(keys) = f /\ f <= e
        /\ keys = Seen[n] /\ Climbs(keys) /\ keys \notin {Absent, Lost}
  BY <1>1, UsableIsAlive, ShowsItsKeys
<1>3. i \in 1..Len(keys) /\ answer' = <<i, FALSE>>
  BY <1>2 DEF EraseAt
<1>4. PICK rest \in Seq(Cells) : rest = RemoveAt(keys, i) /\ Len(rest) = f - 1 /\ Climbs(rest)
  <2>1. PICK rest : rest = RemoveAt(keys, i)
    OBVIOUS
  <2>2. rest \in Seq(Cells) /\ Climbs(rest)
    BY <1>2, <1>3, <2>1, RemovesInOrder
  <2>3. Len(rest) = f - 1
    BY <1>2, <1>3, <2>1, Shorter
  <2> QED BY <2>1, <2>2, <2>3
<1>5. /\ objects[n].end > 0 /\ Len(rest) <= objects[n].end
      /\ Counts(rest, f - 1) /\ SubSeq(rest, 1, f - 1) = rest
  BY <1>2, <1>3, <1>4, CountsCells
<1>6. /\ memory' = [memory EXCEPT ![objects[n].start] = Refilled(objects[n], rest)]
      /\ objects' = [objects EXCEPT ![n].finish = f - 1]
      /\ torn' = torn
  BY <1>2, <1>4 DEF EraseAt
<1>7. Seen' = [Seen EXCEPT ![n] = rest]
  BY <1>1, <1>5, <1>6, KeysChangeSeen
<1>8. Sets!Next
  BY <1>2, <1>3, <1>4, <1>7, Erased
<1>9. rest \in Rows
  BY <1>4 DEF Rows
<1> QED BY <1>7, <1>8, <1>9 DEF Kept, SortInv

\* What the search answers of a set.
LEMMA SearchAnswers ==
  ASSUME NEW keys \in Seq(Keys), Ascends(keys), NEW k \in Keys, NEW S, S = ToSet(keys)
  PROVE  /\ SearchSet(keys, k) = Len(keys) + 1 <=> k \notin S
         /\ SearchSet(keys, k) = IF k \in S THEN Sets!Position(S, k) ELSE Cardinality(S) + 1
<1>1. S = {keys[i] : i \in 1..Len(keys)} /\ Cardinality(S) = Len(keys) /\ Len(keys) \in Nat
  BY KeysOf, KeysAreNumbers
<1>2. CASE k \in S
  <2>1. PICK i \in 1..Len(keys) : keys[i] = k
    BY <1>1, <1>2
  <2>2. SearchSet(keys, k) = i
    BY <2>1, SearchFinds
  <2>3. Sets!Position(S, k) = i
    BY <2>1, PlaceFor
  <2>4. PICK l \in Nat : l = Len(keys)
    BY <1>1
  <2>5. i # Len(keys) + 1
    BY <2>4
  <2> QED BY <1>2, <2>2, <2>3, <2>5
<1>3. CASE k \notin S
  <2>1. SearchSet(keys, k) = Len(keys) + 1
    BY <1>1, <1>3, SearchFinds
  <2> QED BY <1>1, <1>3, <2>1
<1> QED BY <1>2, <1>3

LEMMA FindKept ==
  ASSUME SortInv, NEW n \in Names, NEW k \in Keys, Find(n, k)
  PROVE  Kept
<1>1. Whole(n) /\ Seen' = Seen /\ Seen' \in [Names -> Rows]
  BY LooksOnly DEF Find
<1>2. PICK keys \in Seq(Keys) :
        /\ keys = Content(objects[n]) /\ keys = Seen[n] /\ Ascends(keys)
        /\ keys \notin {Absent, Lost} /\ Moved \notin ToSet(keys)
  BY <1>1, WholeShowsItsKeys
<1>3. PICK S : S = ToSet(Seen[n])
  OBVIOUS
<1>4. answer' = <<SearchSet(keys, k), FALSE>>
  BY <1>2 DEF Find
<1>5. SearchSet(keys, k) = IF k \in S THEN Sets!Position(S, k) ELSE Cardinality(S) + 1
  BY <1>2, <1>3, SearchAnswers
<1>6. Sets!Next
  BY <1>1, <1>2, <1>3, <1>4, <1>5, Found
<1> QED BY <1>1, <1>6 DEF Kept

LEMMA MakeRoomSeen ==
  ASSUME SetInv, NEW n \in Names, Usable(n), NEW keys, NEW size, Counts(keys, size),
         Len(keys) <= objects[n].finish + 1, MakeRoom(n, keys, size), torn' = torn,
         NEW shown, shown = SubSeq(keys, 1, size)
  PROVE  Seen' = [Seen EXCEPT ![n] = shown]
<1>1. PICK f \in Nat, e \in Nat :
        f = objects[n].finish /\ e = objects[n].end /\ f <= e /\ n \in Names \ torn
  BY UsableIsAlive
<1>2. Len(keys) \in Nat
  BY DEF Counts
<1>3. CASE f = e /\ Reallocate(n, keys, size, e + 1)
  <2>1. e + 1 \in Nat /\ Len(keys) <= e + 1
    BY <1>1, <1>2, <1>3
  <2> QED BY <1>1, <1>3, <2>1, ReallocatedSeen
<1>4. CASE /\ f < e
           /\ memory' = [memory EXCEPT ![objects[n].start] = Refilled(objects[n], keys)]
           /\ objects' = [objects EXCEPT ![n].finish = size]
  <2>1. objects[n].end > 0 /\ Len(keys) <= objects[n].end
    BY <1>1, <1>2, <1>4
  <2> QED BY <1>4, <2>1, KeysChangeSeen
<1> QED BY <1>1, <1>3, <1>4 DEF MakeRoom

LEMMA InsertKept ==
  ASSUME SortInv, NEW n \in Names, NEW k \in Keys, InsertKey(n, k)
  PROVE  Kept
<1>1. Whole(n) /\ SetInv /\ Usable(n)
  BY WholeShowsItsKeys DEF InsertKey, SortInv
<1>2. PICK keys \in Seq(Keys), f \in Nat :
        /\ keys = Content(objects[n]) /\ f = objects[n].finish /\ Len(keys) = f
        /\ keys = Seen[n] /\ Ascends(keys) /\ keys \notin {Absent, Lost}
        /\ Moved \notin ToSet(keys)
  BY <1>1, WholeIsUsable, WholeShowsItsKeys
<1>3. PICK S : S = ToSet(Seen[n]) /\ Moved \notin S
  BY <1>2
<1>4. /\ SearchSet(keys, k) = Len(keys) + 1 <=> k \notin S
      /\ SearchSet(keys, k) = IF k \in S THEN Sets!Position(S, k) ELSE Cardinality(S) + 1
  BY <1>2, <1>3, SearchAnswers
<1>5. CASE /\ k \in S /\ answer' = <<SearchSet(keys, k), FALSE>>
           /\ UNCHANGED <<objects, memory, torn>>
  <2>1. Seen' = Seen /\ Seen' \in [Names -> Rows]
    BY <1>5, LooksOnly
  <2>2. Sets!Ordered(S \cup {k}) = keys
    <3>1. S \cup {k} = ToSet(keys)
      BY <1>2, <1>3, <1>5
    <3> QED BY <1>2, <3>1, InOrder
  <2>3. Seen' = [Seen EXCEPT ![n] = Sets!Ordered(S \cup {k})]
    BY <1>2, <2>1, <2>2 DEF SortInv
  <2>4. answer' = <<Sets!Position(S, k), k \notin S>>
    BY <1>4, <1>5
  <2>5. Sets!Next
    BY <1>2, <1>3, <2>3, <2>4, Inserted
  <2> QED BY <2>1, <2>5 DEF Kept
<1>6. PICK place \in 1..(f + 1) : place = LowerBound(keys, k) /\ place = Sets!Position(S, k)
  <2>1. PICK b : b = LowerBound(keys, k)
    OBVIOUS
  <2>2. b \in 1..(Len(keys) + 1) /\ Sets!Position(ToSet(keys), k) = b
    BY <1>2, <2>1, PlaceFor
  <2> QED BY <1>2, <1>3, <2>1, <2>2
<1>7. CASE /\ k \notin S /\ answer' = <<place, TRUE>> /\ torn' = torn
           /\ MakeRoom(n, InsertAt(keys, place, k), f + 1)
  <2>1. PICK longer : longer = InsertAt(keys, LowerBound(keys, k), k)
    OBVIOUS
  <2>2. longer \in Seq(Keys) /\ Ascends(longer) /\ ToSet(longer) = S \cup {k}
    BY <1>2, <1>3, <1>7, <2>1, InsertsInOrder
  <2>3. Len(longer) = f + 1
    <3>1. MakesRoom(InsertAt(keys, place, k), keys, place, k)
      BY <1>2, Longer
    <3> QED BY <1>2, <1>6, <2>1, <3>1 DEF MakesRoom
  <2>4. /\ Counts(longer, f + 1) /\ Len(longer) <= objects[n].finish + 1
        /\ SubSeq(longer, 1, f + 1) = longer
    BY <1>2, <2>2, <2>3, KeysAreCells, CountsCells
  <2>5. Seen' = [Seen EXCEPT ![n] = longer]
    <3>1. MakeRoom(n, longer, f + 1)
      BY <1>6, <1>7, <2>1
    <3> QED BY <1>1, <1>7, <2>4, <3>1, MakeRoomSeen
  <2>6. Sets!Ordered(S \cup {k}) = longer
    BY <2>2, InOrder
  <2>7. Sets!Next
    BY <1>2, <1>3, <1>6, <1>7, <2>5, <2>6, Inserted
  <2>8. longer \in Rows
    BY <2>2, AscendingClimbs DEF Rows
  <2> QED BY <2>5, <2>7, <2>8 DEF Kept, SortInv
<1>8. CASE Fails
  BY <1>8, FailsKept
<1>9. CASE /\ k \notin S /\ answer' = Silent /\ torn' = torn
           /\ MakeRoom(n, Shifted(keys, place), f)
  <2>1. Counts(Shifted(keys, place), f) /\ Len(Shifted(keys, place)) <= objects[n].finish + 1
    BY <1>2, ShiftedCounts
  <2>2. PICK shown : shown = SubSeq(Shifted(keys, place), 1, f)
    OBVIOUS
  <2>3. Seen' = [Seen EXCEPT ![n] = shown]
    BY <1>1, <1>9, <2>1, <2>2, MakeRoomSeen
  <2>4. CASE place > f
    <3>1. shown = keys
      BY <1>2, <2>2, <2>4, ShiftedCounts
    <3>2. Seen' = Seen
      BY <1>2, <2>3, <3>1 DEF SortInv
    <3> QED BY <1>9, <3>2, NotSeen DEF Kept, SortInv
  <2>5. CASE place <= f
    <3>1. shown = InsertAt(Front(keys), place, Moved)
      BY <1>2, <2>2, <2>5, ShiftedCounts
    <3>2. shown \in Rows
      <4>1. place \in 1..Len(keys)
        BY <1>2, <2>5
      <4>2. shown \in Seq(Cells) /\ Climbs(shown)
        BY <1>2, <3>1, <4>1, ShiftsInOrder
      <4> QED BY <4>2 DEF Rows
    <3>3. Sets!Next
      BY <1>2, <1>3, <1>6, <1>9, <2>3, <2>5, <3>1, Spoiled
    <3> QED BY <2>3, <3>2, <3>3 DEF Kept, SortInv
  <2> QED BY <1>2, <2>4, <2>5
<1> QED BY <1>2, <1>4, <1>5, <1>6, <1>7, <1>8, <1>9 DEF InsertKey

LEMMA SetStepKept ==
  ASSUME SortInv, [SetNext]_setVars
  PROVE  Seen' \in [Names -> Rows] /\ [Sets!Next]_(Sets!vars)
<1>1. CASE UNCHANGED setVars
  <2>1. Seen' = Seen /\ Seen' \in [Names -> Rows] /\ answer' = answer
    BY <1>1, LooksOnly DEF setVars
  <2>2. SeenNow' = SeenNow
    BY <2>1, SeenIsNow
  <2>3. UNCHANGED Sets!vars
    BY <2>1, <2>2 DEF Sets!vars, SeenNow
  <2> QED BY <2>1, <2>3
<1>2. CASE SetNext
  <2>1. Kept
    BY <1>2, ConstructKept, OrderedConstructKept, CopyConstructKept, MoveKept, SwapKept, CopyAssignKept,
       DestructKept, DestructTornKept, CapacityKept, ClearKept, EraseKept, FindKept, InsertKept DEF SetNext
  <2> QED BY <2>1 DEF Kept
<1> QED BY <1>1, <1>2

\* For any keys, objects and memory, and whatever allocation or copy fails: the objects are
\* sorted sets, but for what a failed insertion costs them.  The binary search, which is recursive, finds what the linear one finds because
\* the keys ascend, and they ascend because each key goes where the linear one says.
THEOREM SetsStaySorted == SetSpec => SetsAreSorted
<1>1. SetInit => SortInv /\ Sets!Init
  <2> SUFFICES ASSUME SetInit PROVE SortInv /\ Sets!Init
    OBVIOUS
  <2>1. SetInv
    BY DEF SetInit, SetInv, Proper, Alive
  <2>2. Seen = [n \in Names |-> Absent]
    BY DEF SetInit, Seen, View
  <2>3. SeenNow = [n \in Names |-> Absent]
    BY <2>2, SeenIsNow
  <2>4. Sets!Init
    BY <2>3 DEF SetInit, Sets!Init, SeenNow, Silent, Sets!Silent
  <2> QED BY <2>1, <2>2, <2>4 DEF SortInv, Rows
<1>2. SortInv /\ [SetNext]_setVars => SortInv' /\ [Sets!Next]_(Sets!vars)
  <2> SUFFICES ASSUME SortInv, [SetNext]_setVars PROVE SortInv' /\ [Sets!Next]_(Sets!vars)
    OBVIOUS
  <2>1. SetInv'
    BY SetNextInv DEF SortInv
  <2>2. Seen' \in [Names -> Rows] /\ [Sets!Next]_(Sets!vars)
    BY SetStepKept
  <2> QED BY <2>1, <2>2 DEF SortInv, Rows, Climbs, Cells
<1>3. SetSpec => Sets!Spec
  BY <1>1, <1>2, PTL DEF SetSpec, Sets!Spec
<1> QED BY <1>3 DEF SetsAreSorted
=============================================================================
