------------------------------- MODULE Dotenv -------------------------------
(***************************************************************************)
(* The value half of parse_dotenv (manifest.cpp): what import makes of the *)
(* text after `KEY=', for every text a user may type, and how its lines    *)
(* add up to a file.  Characters are what the parser tells apart: Space,   *)
(* Tab, Hash, the quotes, Backslash, n (for n, t and r, which escapes turn *)
(* into characters a line cannot hold, Newline here), and x, any other.    *)
(***************************************************************************)
EXTENDS Naturals, Sequences, FiniteSets, FiniteSetsExt, SequencesExt

CONSTANTS
    Keys,         \* valid keys; a line without one of them is an error
    MaxChars,     \* bound on the characters typed
    MaxLines      \* bound on the lines typed

Space == " "
Tab == "\t"
Hash == "#"
Double == "\""
Single == "'"
Backslash == "\\"
Newline == "\n"
Typed == {Space, Tab, Hash, Double, Single, Backslash, "n", "x"}
Char == Typed \cup {Newline}

\* What a line is before its value is looked at.
NoPair == "no pair"       \* no `=', or no valid key before it
Skipped == "skipped"      \* blank, or a comment

VARIABLE dotenv           \* the lines typed so far
dotenvVars == dotenv

DotenvTypeOK == dotenv \in Seq([key : Keys \cup {NoPair, Skipped}, raw : Seq(Typed)])

ASSUME DotenvAssumption ==
    Keys \cap {NoPair, Skipped} = {} /\ MaxChars \in Nat /\ MaxLines \in Nat

DotenvInit == dotenv = <<>>

-----------------------------------------------------------------------------
Failed == [ok |-> FALSE]

\* Positions of raw from i on that are not blank.
Inked(raw, i) == {j \in i..Len(raw) : raw[j] \notin {Space, Tab}}

blank_or_comment_from(raw, i) ==
    Inked(raw, i) = {} \/ raw[Min(Inked(raw, i))] = Hash

Escape == [c \in {"n", Backslash, Double} |-> IF c = "n" THEN Newline ELSE c]

\* A character before what is read after it.
Put(c, rest) ==
    IF rest.ok THEN [ok |-> TRUE, value |-> <<c>> \o rest.value, next |-> rest.next]
    ELSE Failed

\* Mutant: the character after a backslash may be a closing quote.
ScanPastBackslash(raw, begin) ==
    LET quote == raw[begin - 1]
        scan[i \in 1..(Len(raw) + 1)] ==
            IF i > Len(raw) THEN Failed
            ELSE IF raw[i] = quote THEN [ok |-> TRUE, value |-> <<>>, next |-> i + 1]
            ELSE Put(raw[i], scan[i + 1])
    IN  scan[begin]

\* The characters up to the closing quote, and the position after it.  In double
\* quotes a backslash must start one of the escapes.
ScanQuoted(raw, begin) ==
    LET quote == raw[begin - 1]
        scan[i \in 1..(Len(raw) + 1)] ==
            IF i > Len(raw) THEN Failed
            ELSE IF quote = Double /\ raw[i] = Backslash
                 THEN IF i < Len(raw) /\ raw[i + 1] \in DOMAIN Escape
                      THEN Put(Escape[raw[i + 1]], scan[i + 2])
                      ELSE Failed
            ELSE IF raw[i] = quote THEN [ok |-> TRUE, value |-> <<>>, next |-> i + 1]
            ELSE Put(raw[i], scan[i + 1])
    IN  scan[begin]

\* Without quotes the value ends where ` #' first stands, with a warning, and
\* blanks at its end do not count.
Unquoted(text) ==
    LET hashes == {i \in 1..(Len(text) - 1) : text[i] = Space /\ text[i + 1] = Hash}
        kept == IF hashes = {} THEN text ELSE SubSeq(text, 1, Min(hashes) - 1)
    IN  [ok |-> TRUE, warned |-> hashes # {},
         value |-> IF Inked(kept, 1) = {} THEN <<>> ELSE SubSeq(kept, 1, Max(Inked(kept, 1)))]

\* Mutant: what follows the closing quote is not looked at.
ParseValueLoosely(raw) ==
    LET start == Min(Inked(raw, 1))
        quoted == ScanQuoted(raw, start + 1)
    IN  IF Inked(raw, 1) = {} THEN [ok |-> TRUE, warned |-> FALSE, value |-> <<>>]
        ELSE IF raw[start] \notin {Double, Single} THEN Unquoted(SubSeq(raw, start, Len(raw)))
        ELSE IF quoted.ok THEN [ok |-> TRUE, warned |-> FALSE, value |-> quoted.value]
        ELSE Failed

parse_value(raw) ==
    LET start == Min(Inked(raw, 1))
        quoted == ScanQuoted(raw, start + 1)
    IN  IF Inked(raw, 1) = {} THEN [ok |-> TRUE, warned |-> FALSE, value |-> <<>>]
        ELSE IF raw[start] \notin {Double, Single} THEN Unquoted(SubSeq(raw, start, Len(raw)))
        ELSE IF quoted.ok /\ blank_or_comment_from(raw, quoted.next)
             THEN [ok |-> TRUE, warned |-> FALSE, value |-> quoted.value]
        ELSE Failed

Pair(line) ==
    LET read == parse_value(line.raw) IN
    [key |-> line.key, value |-> read.value, warned |-> read.warned]

\* The whole file: any bad line, and any key a second time, fails all of it.
\* The pairs are given by the lines they stand on.
parse_dotenv(lines) ==
    LET pairs == {i \in DOMAIN lines : lines[i].key # Skipped} IN
    IF /\ \A i \in pairs : lines[i].key \in Keys /\ parse_value(lines[i].raw).ok
       /\ \A i, j \in pairs : lines[i].key = lines[j].key => i = j
    THEN [ok |-> TRUE, out |-> [i \in pairs |-> Pair(lines[i])]]
    ELSE Failed

-----------------------------------------------------------------------------
Chars(lines) == FoldLeft(LAMBDA n, l : n + Len(l.raw), 0, lines)

\* The user types a character into the last line, or starts another line.
TypeChar ==
    /\ dotenv # <<>> /\ Last(dotenv).key \in Keys
    /\ Chars(dotenv) < MaxChars
    /\ \E c \in Typed : dotenv' = [dotenv EXCEPT ![Len(dotenv)].raw = Append(@, c)]

TypeLine ==
    /\ Len(dotenv) < MaxLines
    /\ \E k \in Keys \cup {NoPair, Skipped} : dotenv' = Append(dotenv, [key |-> k, raw |-> <<>>])

DotenvNext == TypeChar \/ TypeLine

DotenvSpec == DotenvInit /\ [][DotenvNext]_dotenvVars

-----------------------------------------------------------------------------
(* Properties.                                                             *)

Code(c) ==
    CASE c = Newline -> <<Backslash, "n">>
      [] c \in {Double, Backslash} -> <<Backslash, c>>
      [] OTHER -> <<c>>

\* A value in double quotes, with the escapes the parser knows.
Quoted(value) ==
    <<Double>> \o FlattenSeq([i \in DOMAIN value |-> Code(value[i])]) \o <<Double>>

\* Whatever a value is made of, quotes, hashes, blanks and newlines included, it
\* can be written in double quotes so that import reads exactly it, also with a
\* comment after it, and says nothing.
QuotedReadsBack ==
    \A i \in DOMAIN dotenv :
        LET value == [j \in DOMAIN dotenv[i].raw |->
                         IF dotenv[i].raw[j] = "x" THEN Newline ELSE dotenv[i].raw[j]]
            result == [ok |-> TRUE, warned |-> FALSE, value |-> value]
        IN  \A tail \in {<<>>, <<Space, Hash, Double>>} :
                parse_value(<<Space>> \o Quoted(value) \o tail) = result

\* The ways to write a value so that nothing of the line is lost.
Spellings(value) == {value, Quoted(value), <<Single>> \o value \o <<Single>>}
Trimmed(raw) ==
    IF Inked(raw, 1) = {} THEN <<>> ELSE SubSeq(raw, Min(Inked(raw, 1)), Max(Inked(raw, 1)))

\* The comment that an unquoted value is documented to lose.
Commented(text) == \E i \in 1..(Len(text) - 1) : text[i] = Space /\ text[i + 1] = Hash

\* What follows the value on its line, if anything, is a comment, and there is
\* a warning about it unless it follows a closing quote.  No ` #' is part of a
\* value without quotes.
Spells(raw, pair) ==
    \E spelled \in Spellings(pair.value) :
        LET rest == SubSeq(raw, Len(spelled) + 1, Len(raw)) IN
        /\ IsPrefix(spelled, raw)
        /\ blank_or_comment_from(rest, 1)
        /\ rest # <<>> => pair.warned \/ spelled # pair.value
        /\ pair.warned => spelled = pair.value /\ rest[1] \in {Space, Tab}
        /\ spelled = pair.value => ~Commented(spelled)

\* `KEY= # note': a comment where the value should be.
CommentAlone(raw) ==
    LET start == Min(Inked(raw, 1)) IN
    Inked(raw, 1) # {} /\ start > 1 /\ raw[start] = Hash /\ raw[start - 1] = Space

\* A file that is accepted is stored whole: every line that is neither blank
\* nor a comment gives its key, once, and the value it spells out without the
\* comment after it.  Left out is a comment alone after the `=', of which the
\* code makes a value and says nothing: the blanks are skipped first, so no
\* ` #' is left (manifest.hpp promises that a trailing ` #...' comment is lost).
AcceptedIsWhole ==
    LET result == parse_dotenv(dotenv) IN
    result.ok =>
        /\ \A i \in DOMAIN dotenv : dotenv[i].key # Skipped =>
              \E pair \in Range(result.out) :
                  /\ pair.key = dotenv[i].key
                  /\ CommentAlone(dotenv[i].raw) \/ Spells(Trimmed(dotenv[i].raw), pair)
        /\ \A i, j \in DOMAIN result.out : result.out[i].key = result.out[j].key => i = j
=============================================================================
