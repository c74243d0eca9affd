----------------------------- MODULE SharedState -----------------------------
(***************************************************************************)
(* namespace SharedState (sharedstate.cc): the functions that split a      *)
(* message into its command line and the rest, and the blocking functions  *)
(* that send a state through a shell command and read it back.             *)
(*                                                                         *)
(* One call is one behaviour.  The command is "sleep && echo '<state>'",   *)
(* which a shell parses: EchoOutput is what comes of it.  That is the      *)
(* state and a newline if the state is Quotable; a quote in it ends the    *)
(* quoted word, and nothing is assumed of the command the shell then sees. *)
(* The output comes in pieces of any size; the sleep may fail, and the     *)
(* shell may be killed.  A byte is a token: "n" is '\n', "r" is '\r', "q"  *)
(* is the quote, "b" the backslash, "0" is NUL and "d" the dash.           *)
(***************************************************************************)
EXTENDS Naturals, SequencesExt

CONSTANTS
  Input,      (* strings a function may be called with                    *)
  Before,     (* contents the caller's output string may have             *)
  BufSize,    (* bufsize, 128 in the code                                 *)
  EchoOutput  (* what the shell's command may write, for each state       *)

ASSUME BufSizeAssumption == BufSize \in Nat /\ BufSize >= 2

ASSUME StringsAssumption == \A s \in Input \cup Before : s \in Seq(STRING)

\* Single quotes keep s one word as it is, a NUL does not cut the command line
\* short, no echo takes s for an option or replaces an escape sequence in it.
Quotable(s) ==
  /\ \A i \in 1..Len(s) : s[i] \notin {"q", "b", "0"}
  /\ s # <<>> => s[1] # "d"

ASSUME EchoAssumption ==
  \A s \in Input : /\ EchoOutput[s] \subseteq Seq(STRING)
                   /\ Quotable(s) => EchoOutput[s] = {Append(s, "n")}

VARIABLES
  fn,         (* the function called                                      *)
  arg,        (* its argument                                             *)
  before,     (* what the caller's output string held                     *)
  pc,         (* "call", "read", "pclose", "done", "threw"                *)
  rest,       (* extractCommand: inputString                              *)
  command,    (* extractCommand: the command, or NoCommand                *)
  result,     (* the merge functions: output, result                      *)
  unwritten,  (* what echo has still to write                             *)
  pipe,       (* bytes in the pipe                                        *)
  rc          (* wait status of the shell, Running if it has none yet     *)

vars == <<fn, arg, before, pc, rest, command, result, unwritten, pipe, rc>>

Extracts  == {"extractCommand", "extractCommand/2"}
Merges    == {"mergestate", "mergestate/2", "optMergeState"}
NoCommand == <<"NoCommand">>
NoValue   == <<"nullopt">>
Running   == 999

\* Wait statuses: exit(0), exit(1), killed by SIGHUP.
Exit0 == 0
Exit1 == 256
Killed == 1
EXIT_FAILURE == 1

\* find('\n'), counted from 1; 0 is npos.
Find(s) == SelectInSeq(s, LAMBDA c : c = "n")

\* regex_replace(s, "\r\n|\r|\n", ""), from left to right.
RemoveBreaks(s) ==
  LET from[i \in 1..Len(s) + 1] ==
        IF i > Len(s) THEN <<>>
        ELSE IF s[i] = "r" /\ i < Len(s) /\ s[i + 1] = "n" THEN from[i + 2]
        ELSE IF s[i] \in {"r", "n"} THEN from[i + 1]
        ELSE <<s[i]>> \o from[i + 1]
  IN from[1]

\* Mutant of Erase: the newline is not erased.
EraseShort(s, pos) == SubSeq(s, pos, Len(s))

\* inputString.erase(0, pos + delimiter.length()), pos counted from 1.
Erase(s, pos) == SubSeq(s, pos + 1, Len(s))

\* Both overloads of extractCommand.  The one that returns an error_condition
\* leaves command alone when there is no newline.
ExtractCommand ==
  LET pos == Find(arg) IN
  /\ pc = "call" /\ fn \in Extracts
  /\ command' = IF pos # 0 THEN SubSeq(arg, 1, pos - 1)
                ELSE IF fn = "extractCommand" THEN <<>> ELSE NoCommand
  /\ rest' = IF pos # 0 THEN Erase(arg, pos) ELSE arg
  /\ pc' = "done"
  /\ UNCHANGED <<fn, arg, before, result, unwritten, pipe, rc>>

\* popen() of "sleep && echo 'arg'", without a look at what arg contains, ...
Popen ==
  /\ pc = "call" /\ fn \in Merges
  /\ pc' = "read"
  /\ unwritten' \in EchoOutput[arg]
  /\ rc' = Running
  /\ result' = before
  /\ UNCHANGED <<fn, arg, before, rest, command, pipe>>

\* ... or it fails: an exception, but from optMergeState.
PopenFails ==
  /\ pc = "call" /\ fn \in Merges
  /\ pc' = IF fn = "optMergeState" THEN "done" ELSE "threw"
  /\ result' = IF fn = "optMergeState" THEN NoValue ELSE before
  /\ UNCHANGED <<fn, arg, before, rest, command, unwritten, pipe, rc>>

\* The bytes of the pipe up to n of them, or up to a newline for fgets.
Piece(n, line) ==
  LET s == SubSeq(pipe, 1, IF Len(pipe) < n THEN Len(pipe) ELSE n)
      p == Find(s)
  IN IF line /\ p # 0 THEN SubSeq(s, 1, p) ELSE s

\* A piece that fread or fgets returns with: all it asked for, or a line, or
\* what is left at the end of the file.
Complete(s, n, line) ==
  Len(s) = n \/ (line /\ Find(s) # 0) \/ rc # Running

\* Mutant of LoopEnds: the loops end with the first piece that is not full.
LoopEndsShort(s, n, line) == Len(s) < n

\* Mutant of LoopEnds: the loops do not look for the end of the file.
LoopEndsNever(s, n, line) == FALSE

\* The loop of mergestate(arg, output) ends when fread reads nothing; the others
\* once fgets met the end of the file.
LoopEnds(s, n, line) == IF line THEN Len(s) < n /\ Find(s) = 0 ELSE s = <<>>

\* One fread of mergestate(arg, output), or one fgets of the others.
Read ==
  LET line == fn # "mergestate/2"
      n    == IF line THEN BufSize - 1 ELSE BufSize
      s    == Piece(n, line)
  IN
  /\ pc = "read"
  /\ Complete(s, n, line)
  /\ result' = result \o s
  /\ pipe' = SubSeq(pipe, Len(s) + 1, Len(pipe))
  /\ pc' = IF LoopEnds(s, n, line) THEN "pclose" ELSE "read"
  /\ UNCHANGED <<fn, arg, before, rest, command, unwritten, rc>>

\* pclose(), and the line breaks are removed.  optMergeState compares the wait
\* status with EXIT_FAILURE.
Pclose ==
  /\ pc = "pclose"
  /\ pc' = "done"
  /\ result' = IF fn = "optMergeState" /\ rc = EXIT_FAILURE
                 THEN NoValue ELSE RemoveBreaks(result)
  /\ UNCHANGED <<fn, arg, before, rest, command, unwritten, pipe, rc>>

Caller == ExtractCommand \/ Popen \/ PopenFails \/ Read \/ Pclose

\* The shell: the command writes some more, ...
Write ==
  /\ pc = "read" /\ rc = Running
  /\ \E n \in 1..Len(unwritten) :
       /\ pipe' = pipe \o SubSeq(unwritten, 1, n)
       /\ unwritten' = SubSeq(unwritten, n + 1, Len(unwritten))
  /\ UNCHANGED <<fn, arg, before, pc, rest, command, result, rc>>

\* ... and exits when it has written all; sleep fails before anything is
\* written, another command than echo whenever it likes; the shell is killed at
\* any time.
Exit ==
  /\ pc = "read" /\ rc = Running
  /\ \E status \in {Exit0, Exit1, Killed} :
       /\ status = Exit0 => unwritten = <<>>
       /\ status = Exit1 /\ Quotable(arg) => Len(unwritten) = Len(arg) + 1
       /\ rc' = status
  /\ UNCHANGED <<fn, arg, before, pc, rest, command, result, unwritten, pipe>>

Shell == Write \/ Exit

\* The caller has its answer.
Returned == pc \in {"done", "threw"} /\ UNCHANGED vars

Init ==
  /\ fn \in Extracts \cup Merges
  /\ arg \in Input
  /\ before \in IF fn = "mergestate/2" THEN Before ELSE {<<>>}
  /\ pc = "call"
  /\ rest = arg /\ command = <<>> /\ result = before
  /\ unwritten = <<>> /\ pipe = <<>> /\ rc = Running

Next == Caller \/ Shell \/ Returned

\* The caller goes on when its system call returns, and echo is scheduled; of
\* another command it is not known whether it ends.
Spec == Init /\ [][Next]_vars /\ WF_vars(Caller) /\ WF_vars(Quotable(arg) /\ Shell)

(***************************************************************************)
(* Properties.                                                             *)
(***************************************************************************)

\* extractCommand takes its input apart and loses nothing but the newline: the
\* command has no newline in it, and without one in the input nothing changes.
SplitExact ==
  pc = "done" /\ fn \in Extracts =>
    IF \E i \in 1..Len(arg) : arg[i] = "n"
      THEN /\ arg = command \o <<"n">> \o rest
           /\ \A i \in 1..Len(command) : command[i] # "n"
      ELSE rest = arg /\ command \in {<<>>, NoCommand}

\* s without its line breaks, byte by byte (SelectSeq written out).
Unbroken(s) ==
  LET upto[i \in 0..Len(s)] ==
        IF i = 0 THEN <<>>
        ELSE IF s[i] \in {"r", "n"} THEN upto[i - 1]
        ELSE Append(upto[i - 1], s[i])
  IN upto[Len(s)]

\* However the shell's writes and the reads of BufSize bytes or of lines cut it
\* up, a merge of a state that can be quoted returns it without its line breaks,
\* after what the output string held: none of it twice, none missing.  If the
\* command failed the result is cut short, since optMergeState tells only one
\* wait status from success and the others none, but what is there is right.
MergeExact ==
  LET all == Unbroken(before \o arg) IN
  pc = "done" /\ fn \in Merges /\ Quotable(arg) =>
    IF rc = Exit0 THEN result = all ELSE result = NoValue \/ IsPrefix(result, all)

\* The reading loops end, with the command dead or alive.
MergeReturns == pc = "read" /\ Quotable(arg) ~> pc = "done"
==============================================================================
