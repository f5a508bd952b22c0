---------------------------- MODULE CommandText -----------------------------
(***************************************************************************)
(* What the shell is given for a command: build_exec_command of            *)
(* providers/bash_provider.py with quoting/shell_quoting.py,               *)
(* quoting/pipe_command.py and _shellquote.py.                             *)
(*                                                                         *)
(* The command is quoted, for eval to read it again, and "< /dev/null" is  *)
(* put behind it, or behind the first command of a pipeline.  A command is *)
(* a sequence of lexemes, as bash reads it; every lexeme is a sample of    *)
(* the texts of its kind.  What is built for it is read again by bash: it  *)
(* is given as lexemes too.                                                *)
(***************************************************************************)
EXTENDS Integers, SequencesExt

CONSTANTS
    Lexemes,  \* the lexemes that commands are made of
    MaxLength \* how many of them a command has at most

VARIABLES
    text, \* the command
    built \* what was built for it: {} or {[text, at]}

textVars == <<text, built>>

(* Words: plain; 2; A=1; !; 'x y'; 'hi!'; 'x\n y'; a\ b; ""; {a,b}; $?;    *)
(* *.c; /dev/null; $x, a backquote or a control structure; a quoted text   *)
(* with a newline; a here-document.                                        *)
Words == {"word", "num", "assign", "bang", "quoted", "shout", "pattern", "escaped",
          "empty", "brace", "special", "glob", "devnull", "opaque", "multiline",
          "heredoc"}

(* > and >| and &> and >& and < after a blank, or right after a word       *)
Redirections == {"out", "clobber", "outerr", "dup", "in", "tightin"}

(* | and || and && and ; and &                                             *)
Separators == {"pipe", "or", "and", "semi", "amp"}

(* The 2 of 2> or 2>&1.                                                    *)
IoNumbers == {"ionum"}

(* What a word may turn into: itself as an argument, or another word.      *)
Turned == {"assignword", "bangword", "braceword", "changed"}

Some(cmd, kinds) == \E i \in DOMAIN cmd : cmd[i] \in kinds

-----------------------------------------------------------------------------
(* quote_shell_command: the whole text is quoted at once.                  *)

(* should_add_stdin_redirect sees a < only after a blank or a separator.   *)
AddStdinRedirect(cmd) == ~Some(cmd, {"in", "heredoc"})

HasSingleQuote(cmd) == Some(cmd, {"quoted", "shout", "pattern"})
HasBlank(cmd) == Len(cmd) > 1 \/ Some(cmd, {"escaped", "empty"})

(* _quote_one: '...' when there is no ' in the text, which doubles every   *)
(* backslash although bash takes it literally there; "..." otherwise,      *)
(* which puts a backslash before every !, and bash keeps it there.         *)
QuoteOne(cmd, i) ==
    CASE ~HasSingleQuote(cmd) /\ HasBlank(cmd) /\ cmd[i] = "escaped" -> "changed"
      [] HasSingleQuote(cmd) /\ cmd[i] = "bang" -> "bangword"
      [] HasSingleQuote(cmd) /\ cmd[i] = "shout" -> "changed"
      [] OTHER -> cmd[i]

(* Texts with a newline or a here-document are taken as they are.  at is   *)
(* how many lexemes stand before "< /dev/null", 0 if it is not in the text *)
QuoteShellCommand(cmd) ==
    [text |-> IF Some(cmd, {"heredoc", "multiline"}) THEN cmd
              ELSE [i \in DOMAIN cmd |-> QuoteOne(cmd, i)],
     at   |-> IF AddStdinRedirect(cmd) /\ ~Some(cmd, {"multiline"}) THEN Len(cmd) ELSE 0]

-----------------------------------------------------------------------------
(* rearrange_pipe_command: the text is taken to pieces.                    *)

(* parse: it knows neither >| nor &>, nor whether a digit touches what     *)
(* follows, and it replaces $? by nothing.                                 *)
Lexed(lexeme) ==
    CASE lexeme = "clobber" -> <<"out", "pipe">>
      [] lexeme = "outerr"  -> <<"amp", "out">>
      [] lexeme = "ionum"   -> <<"num">>
      [] lexeme = "tightin" -> <<"in">>
      [] lexeme = "special" -> <<"empty">>
      [] OTHER              -> <<lexeme>>

Tokens(cmd) == FlattenSeq([i \in DOMAIN cmd |-> Lexed(cmd[i])])

(* quote of one word.                                                      *)
Requoted(word) ==
    CASE word = "assign"  -> <<"assignword">>
      [] word = "bang"    -> <<"bangword">>
      [] word = "brace"   -> <<"braceword">>
      [] word = "pattern" -> <<"changed">>
      [] word = "empty"   -> <<>>
      [] OTHER            -> <<word>>

(* 2>&1 and 2>/dev/null, by their tokens.                                  *)
IsFdRedirection(tokens, i) ==
    /\ i + 2 <= Len(tokens) /\ tokens[i] = "num"
    /\ <<tokens[i + 1], tokens[i + 2]>> \in {<<"dup", "num">>, <<"out", "devnull">>}

(* A fault: a ; does not begin a command.                                  *)
CommandSeparatorsButSemi == {"and", "or"}

CommandSeparators == {"and", "or", "semi"}

(* _build_command_parts.  One turn of its loop takes the next token, or a  *)
(* whole redirection; seen: a word that is no assignment was seen.         *)
Turn(tokens, s) ==
    IF s.next > Len(tokens) THEN s
    ELSE IF IsFdRedirection(tokens, s.next)
    THEN [s EXCEPT !.next = @ + 3,
                   !.parts = @ \o <<"ionum", tokens[s.next + 1], tokens[s.next + 2]>>]
    ELSE LET token == tokens[s.next]
             kept == token \notin Words \/ token = "glob" \/ (token = "assign" /\ ~s.seen)
         IN  [next  |-> s.next + 1,
              seen  |-> IF kept THEN s.seen /\ token \notin CommandSeparators ELSE TRUE,
              parts |-> s.parts \o IF kept THEN <<token>> ELSE Requoted(token)]

BuildCommandParts(tokens) ==
    LET loop[n \in 0 .. Len(tokens)] ==
            IF n = 0 THEN [next |-> 1, seen |-> FALSE, parts |-> <<>>]
            ELSE Turn(tokens, loop[n - 1])
    IN  loop[Len(tokens)].parts

(* The redirect is on eval itself.                                         *)
QuoteWithEvalStdinRedirect(cmd) == [text |-> cmd, at |-> 0]

RearrangePipeCommand(cmd) ==
    LET tokens == Tokens(cmd)
        pipe == SelectInSeq(tokens, LAMBDA token : token = "pipe")
        first == BuildCommandParts(SubSeq(tokens, 1, pipe - 1))
        rest == BuildCommandParts(SubSeq(tokens, pipe, Len(tokens)))
    IN  IF Some(cmd, {"opaque", "multiline"}) \/ pipe <= 1
        THEN QuoteWithEvalStdinRedirect(cmd)
        ELSE [text |-> first \o rest, at |-> Len(first)]

(* What eval is given.                                                     *)
BuildExecCommand(cmd) ==
    IF Some(cmd, {"pipe", "or", "clobber"}) /\ AddStdinRedirect(cmd)
    THEN RearrangePipeCommand(cmd)
    ELSE QuoteShellCommand(cmd)

-----------------------------------------------------------------------------
(* The commands, one lexeme after the other.                               *)

NeedsTarget(lexeme) == lexeme \in Redirections

(* A command begins as after a ; and a ! cannot stand after a |.           *)
Follows(last, lexeme) ==
    \/ /\ lexeme \in Words /\ ~NeedsTarget(last) /\ last # "ionum"
       /\ <<last, lexeme>> # <<"pipe", "bang">>
    \/ lexeme \in IoNumbers /\ last \in Words
    \/ lexeme \in Redirections /\ last \in Words
    \/ lexeme \in {"out", "dup"} /\ last = "ionum"
    \/ lexeme \in {"word", "devnull"} /\ NeedsTarget(last) /\ last # "dup"
    \/ lexeme = "num" /\ last = "dup"
    \/ lexeme \in Separators /\ last \in Words

CanFollow(lexeme) == Follows(IF text = <<>> THEN "semi" ELSE Last(text), lexeme)

Complete == text # <<>> /\ Last(text) \in Words \cup {"semi", "amp"}

TextInit == text = <<>> /\ built = {}

Append1(lexeme) ==
    /\ built = {} /\ Len(text) < MaxLength
    /\ CanFollow(lexeme)
    /\ text' = Append(text, lexeme)
    /\ UNCHANGED built

Build ==
    /\ built = {} /\ Complete
    /\ built' = {BuildExecCommand(text)}
    /\ UNCHANGED text

TextNext == Build \/ \E lexeme \in Lexemes : Append1(lexeme)

TextSpec == TextInit /\ [][TextNext]_textVars

-----------------------------------------------------------------------------
(* The reference: how bash reads lexemes.                                  *)

(* The place of the last separator before place i, 0 if there is none.     *)
Begin(cmd, i) ==
    CHOOSE s \in 0 .. i - 1 :
        /\ s = 0 \/ cmd[s] \in Separators
        /\ \A j \in s + 1 .. i - 1 : cmd[j] \notin Separators

Negates(cmd, i) == i = 1 \/ cmd[i - 1] \in Separators

(* Assignments may be preceded by others, by a ! and by redirections.      *)
Precedes(cmd, j) ==
    \/ cmd[j] \in {"assign"} \cup IoNumbers \cup Redirections
    \/ j > 1 /\ cmd[j - 1] \in Redirections
    \/ cmd[j] = "bang" /\ Negates(cmd, j)

Leads(cmd, i) == \A j \in Begin(cmd, i) + 1 .. i - 1 : Precedes(cmd, j)

(* A=1 assigns, and ! negates, only at the start of a command; elsewhere   *)
(* they are words like others.                                             *)
Meaning(cmd) ==
    [i \in DOMAIN cmd |->
        CASE cmd[i] = "assign" /\ ~Leads(cmd, i)  -> "assignword"
          [] cmd[i] = "bang" /\ ~Negates(cmd, i)  -> "bangword"
          [] cmd[i] = "tightin"                   -> "in"
          [] OTHER                                -> cmd[i]]

(* The command that "< /dev/null" falls to reads no other file.            *)
StdinIsFree(b) ==
    b.at > 0 => \A j \in Begin(b.text, b.at + 1) + 1 .. b.at : b.text[j] \notin {"in", "tightin"}

Keeps(cmd, b) == Meaning(b.text) = Meaning(cmd) /\ StdinIsFree(b)

-----------------------------------------------------------------------------
FollowedBy(cmd, i, tail) ==
    i + Len(tail) <= Len(cmd) /\ SubSeq(cmd, i + 1, i + Len(tail)) = tail

(* What is known to be lost when the text is quoted at once: a backslash   *)
(* in a text without ', a ! in a text with one.                            *)
LostByQuote(cmd) ==
    /\ ~Some(cmd, {"heredoc", "multiline"})
    /\ IF HasSingleQuote(cmd) THEN Some(cmd, {"bang", "shout"}) ELSE Some(cmd, {"escaped"})

(* ... and when it is taken to pieces: 2> of a file, a 2 that is a word    *)
(* before > /dev/null or >&2, a ! that negates, an assignment that begins  *)
(* a command after & or after a | that is not the first, or that stands    *)
(* behind a redirection to a file.                                         *)
LostByParts(cmd) ==
    \/ Some(cmd, {"empty", "special", "brace", "pattern", "clobber", "outerr"})
    \/ \E i \in DOMAIN cmd :
        \/ cmd[i] = "bang" /\ Negates(cmd, i)
        \/ cmd[i] = "ionum" /\ FollowedBy(cmd, i, <<"out", "word">>)
        \/ /\ cmd[i] = "num"
           /\ FollowedBy(cmd, i, <<"out", "devnull">>) \/ FollowedBy(cmd, i, <<"dup", "num">>)
        \/ /\ cmd[i] = "assign" /\ Leads(cmd, i)
           /\ \/ Begin(cmd, i) > 0 /\ cmd[Begin(cmd, i)] \in {"pipe", "amp"}
              \/ \E j \in Begin(cmd, i) + 2 .. i - 1 :
                     cmd[j] \in Redirections /\ cmd[j - 1] # "ionum"

KnownLoss(cmd) ==
    \/ Some(cmd, {"tightin"})
    \/ IF Some(cmd, {"pipe", "or", "clobber"}) /\ AddStdinRedirect(cmd)
       THEN LostByParts(cmd)
       ELSE LostByQuote(cmd)

(* A command without one of those reaches the shell with every word,       *)
(* assignment, redirection and operator it had, where it had them, and     *)
(* with a standard input of its own if it has named one: whichever way it  *)
(* was quoted, and however its pipes, lists and redirections are mixed.    *)
CommandKept == \A b \in built : KnownLoss(text) \/ Keeps(text, b)

-----------------------------------------------------------------------------
(* pipe_command.py:4-6, "Bails out to a safe single-quoted-for-eval form   *)
(* whenever shell-quote cannot be trusted to tokenize the command the same *)
(* way bash would": no command changes its meaning.                        *)
CommandsKept == \A b \in built : Keeps(text, b)
=============================================================================
