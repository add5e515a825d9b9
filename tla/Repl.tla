-------------------------------- MODULE Repl --------------------------------
(***************************************************************************)
(* The command line of cli/main.c: how the interactive shell and the file   *)
(* mode cut their input into SQL statements.  Text is a sequence of         *)
(* symbols: blanks, the quote, the semicolon and pieces of words.           *)
(***************************************************************************)
EXTENDS Integers, Sequences, FiniteSets, FiniteSetsExt, SequencesExt

CONSTANTS Lines,     \* the lines that a user may type, newline included
          MaxLines   \* bound on the lines typed

Blanks == {" ", "\n"}
Quote  == "'"
Semicolon == ";"

VARIABLES
  pc,        \* "prompt", "drain" (the inner loop) or "bye"
  buffer,    \* the text that no statement has been cut from yet
  executed,  \* the statements given to db_execute_sql, oldest first
  typed,     \* all the text appended to buffer so far
  lines      \* the number of lines typed

vars == <<pc, buffer, executed, typed, lines>>

-----------------------------------------------------------------------------
(* common/utils.c *)

\* utils_trim
Trim(text) ==
  LET solid == {k \in DOMAIN text : text[k] \notin Blanks}
  IN  IF solid = {} THEN <<>> ELSE SubSeq(text, Min(solid), Max(solid))

\* utils_find_statement_terminator: the first semicolon outside quotes, 0 for
\* none (a doubled quote inside quotes leaves their number even).
Terminator(text, start) ==
  LET quotes(k) == Cardinality({i \in start .. k : text[i] = Quote})
      found == {k \in start .. Len(text) : text[k] = Semicolon /\ quotes(k) % 2 = 0}
  IN  IF found = {} THEN 0 ELSE Min(found)

-----------------------------------------------------------------------------
(* cli/main.c *)

\* main_process_sql_statement: an empty statement is not executed.
Processed(statements, text) ==
  IF Trim(text) = <<>> THEN statements ELSE Append(statements, Trim(text))

\* main_run_file_mode: the statements executed for a file with this content
\* (the blanks skipped in front of a statement are trimmed anyway).
FileMode(content) ==
  LET from[start \in 1 .. Len(content) + 1] ==
        LET t == Terminator(content, start)
        IN  IF t = 0 THEN <<>>
                     ELSE Processed(<<>>, SubSeq(content, start, t)) \o from[t + 1]
  IN  from[1]

Init == /\ pc = "prompt"
        /\ buffer = <<>> /\ executed = <<>> /\ typed = <<>>
        /\ lines = 0

\* main_run_repl_mode: fgets and utils_append_buffer ...
ReadLine(line) ==
  /\ pc = "prompt" /\ lines < MaxLines
  /\ ~(buffer = <<>> /\ Trim(line) \in {<<"exit">>, <<"quit">>})
  /\ buffer' = buffer \o line
  /\ typed' = typed \o line
  /\ lines' = lines + 1
  /\ pc' = "drain"
  /\ UNCHANGED executed

\* ... or the end of the input, or exit or quit at an empty prompt.
Leave ==
  /\ pc = "prompt"
  /\ pc' = "bye"
  /\ UNCHANGED <<buffer, executed, typed, lines>>

\* One turn of the inner loop: the first statement is executed and
\* main_replace_buffer_with_remainder keeps the rest, trimmed.
ExecuteFirst ==
  LET t == Terminator(buffer, 1) IN
  /\ pc = "drain" /\ t # 0
  /\ executed' = Processed(executed, SubSeq(buffer, 1, t))
  /\ buffer' = Trim(SubSeq(buffer, t + 1, Len(buffer)))
  /\ UNCHANGED <<pc, typed, lines>>

AskForMore ==
  /\ pc = "drain" /\ Terminator(buffer, 1) = 0
  /\ pc' = "prompt"
  /\ UNCHANGED <<buffer, executed, typed, lines>>

Next == (\E line \in Lines : ReadLine(line)) \/ Leave \/ ExecuteFirst \/ AskForMore

Spec == Init /\ [][Next]_vars

-----------------------------------------------------------------------------
\* The words of a statement as the scanner sees them: blanks separate words,
\* except inside quotes.
Words(statement) ==
  LET quoted(k) == Cardinality({i \in 1 .. k : statement[i] = Quote}) % 2 = 1
      gap(k) == statement[k] \in Blanks /\ ~quoted(k)
      start(k) == ~gap(k) /\ (k = 1 \/ gap(k - 1))
      end(k) == Min({i \in k .. Len(statement) : i = Len(statement) \/ gap(i + 1)})
      starts == SetToSortSeq({k \in DOMAIN statement : start(k)}, <)
  IN  [j \in DOMAIN starts |-> SubSeq(statement, starts[j], end(starts[j]))]

AllWords(statements) == [k \in DOMAIN statements |-> Words(statements[k])]

\* At every prompt, the statements executed so far are those that the file mode
\* would execute for the same text: cutting a statement off the buffer removes
\* that statement and keeps the remaining text.
ReplMatchesFileMode ==
  pc = "prompt" => AllWords(executed) = AllWords(FileMode(typed))
=============================================================================
