---------------------------- MODULE GraphqlTokens ----------------------------
(***************************************************************************)
(* Tokens of GraphQL documents and schemas, the strings in them, and the    *)
(* minifier (fuel-indexer-graphql/parser/src: tokenizer.rs, common.rs,      *)
(* format.rs, query/minify.rs).                                             *)
(*                                                                          *)
(* A text is a sequence of words; the white space, commas and comments      *)
(* around them are left out but for whether there are any. The text of a    *)
(* token is its value, except for numbers, which are classes of numbers,    *)
(* and strings: a quoted one is a sequence of characters [char] and escapes *)
(* [u] with four hexadecimal digits, a block the sequence of its lines.     *)
(* Characters are code points; white space beyond ASCII is left out.        *)
(***************************************************************************)
EXTENDS Integers, Sequences, FiniteSets

CONSTANTS
    Lexicon,        \* [words for numbers and strings -> their tokens]
    RecursionLimit  \* brackets that may be open at once

ASSUME TokensAssumption == RecursionLimit \in Nat

Punctuators == {"!", "$", ":", "=", "@", "|", "&", "...", "(", ")", "[", "]", "{", "}"}
Opening == {"(", "[", "{"}
Closing == {")", "]", "}"}

TokenOf(word) ==
    IF word \in DOMAIN Lexicon THEN Lexicon[word]
    ELSE [kind |-> IF word \in Punctuators THEN "Punctuator" ELSE "Name", value |-> word]

Tokenized(words) == [i \in DOMAIN words |-> TokenOf(words[i])]

IsPunctuator(token) == token.kind = "Punctuator"

Count(tokens, values, n) == Cardinality({i \in 1 .. n : IsPunctuator(tokens[i]) /\ tokens[i].value \in values})

\* take_token: a bracket too many is an error that no rule of a grammar accepts.
TokenStream(tokens) ==
    LET tooDeep == {n \in DOMAIN tokens :
                       /\ IsPunctuator(tokens[n]) /\ tokens[n].value \in Opening
                       /\ Count(tokens, Opening, n) > RecursionLimit + Count(tokens, Closing, n)}
    IN  IF tooDeep = {} THEN tokens
        ELSE Append(SubSeq(tokens, 1, (CHOOSE n \in tooDeep : \A k \in tooDeep : n <= k) - 1), [kind |-> "Error"])

(***************************************************************************)
(* Strings.                                                                 *)
(***************************************************************************)
Joined(lists) ==
    LET joined[n \in 0 .. Len(lists)] == IF n = 0 THEN <<>> ELSE joined[n - 1] \o lists[n]
    IN  joined[Len(lists)]

Newline == 10
Return == 13
Space == 32
White == {9, Return, Space}

IsBlank(line) == \A i \in DOMAIN line : line[i] \in White

Indentation(line) == CHOOSE n \in 0 .. Len(line) : /\ \A i \in 1 .. n : line[i] \in White
                                                  /\ n < Len(line) => line[n + 1] \notin White

Trimmed(line) ==
    LET chars == {i \in DOMAIN line : line[i] \notin White}
    IN  IF chars = {} THEN <<>>
        ELSE SubSeq(line, Indentation(line) + 1, CHOOSE i \in chars : \A k \in chars : k <= i)

WithoutReturn(line) ==
    IF line # <<>> /\ line[Len(line)] = Return THEN SubSeq(line, 1, Len(line) - 1) ELSE line

\* str::lines: a newline ends a line, with a carriage return before it if there is
\* one; what follows the last newline is a line if there is anything.
LinesOf(s) ==
    LET ends == {i \in DOMAIN s : s[i] = Newline}
        Start(e) == IF \E d \in ends : d < e THEN 1 + CHOOSE d \in ends : d < e /\ \A c \in ends : c < e => c <= d ELSE 1
        Nth(n) == CHOOSE e \in ends : Cardinality({d \in ends : d < e}) = n - 1
        rest == SubSeq(s, Start(Len(s) + 1), Len(s))
    IN  [n \in 1 .. Cardinality(ends) |-> WithoutReturn(SubSeq(s, Start(Nth(n)), Nth(n) - 1))]
          \o IF rest = <<>> THEN <<>> ELSE <<rest>>

Hexadecimal(digits) == ((digits[1] * 16 + digits[2]) * 16 + digits[3]) * 16 + digits[4]

\* unquote_string.
UnquoteString(units) ==
    [i \in DOMAIN units |-> IF "u" \in DOMAIN units[i] THEN Hexadecimal(units[i].u) ELSE units[i].char]

IsSurrogate(code) == code \in 55296 .. 57343

\* unquote_block_string: the indentation that all lines but the first have is
\* taken away, and each line ends with a newline.
UnquoteBlockString(lines) ==
    IF lines = <<>> THEN <<>>
    ELSE LET rest == Tail(lines)
             indents == {Indentation(rest[i]) : i \in {k \in DOMAIN rest : ~IsBlank(rest[k])}}
             indent == IF indents = {} THEN 0 ELSE CHOOSE n \in indents : \A m \in indents : n <= m
             first == IF IsBlank(lines[1]) THEN <<>> ELSE Append(Trimmed(lines[1]), Newline)
             Stripped(line) == IF Len(line) > indent THEN SubSeq(line, indent + 1, Len(line)) ELSE <<>>
             kept == IF rest # <<>> /\ IsBlank(Stripped(rest[Len(rest)])) THEN SubSeq(rest, 1, Len(rest) - 1) ELSE rest
         IN  first \o Joined([i \in DOMAIN kept |-> Append(Stripped(kept[i]), Newline)])

IsPrintable(c) == c \in {9, Return} \/ c \in Space .. 65535

Decimal(n) ==
    LET digits[k \in 1 .. 7] == <<n \div (10 ^ (k - 1)) % 10>>
        width == CHOOSE w \in 4 .. 7 : n < 10 ^ w /\ \A v \in 4 .. (w - 1) : n >= 10 ^ v
    IN  Joined([k \in 1 .. width |-> digits[width + 1 - k]])

\* Other characters are written as \u and their number, in decimal.
Escape(c) ==
    LET digits == Decimal(c)
    IN  <<[u |-> SubSeq(digits, 1, 4)]>> \o [i \in 1 .. (Len(digits) - 4) |-> [char |-> 48 + digits[i + 4]]]

\* Formatter::write_quoted, with the indentation of its place. A line of a block
\* loses another carriage return when the block is read.
WriteQuoted(s, indent) ==
    IF (\A i \in DOMAIN s : s[i] # Newline) \/ \E i \in DOMAIN s : s[i] # Newline /\ ~IsPrintable(s[i])
    THEN [kind |-> "StringValue",
          value |-> Joined([i \in DOMAIN s |-> IF s[i] = Newline \/ IsPrintable(s[i]) THEN <<[char |-> s[i]]>> ELSE Escape(s[i])])]
    ELSE LET lines == LinesOf(s)
             Spaces(n) == [i \in 1 .. n |-> Space]
         IN  [kind |-> "BlockString",
              value |-> <<<<>>>> \o [i \in DOMAIN lines |-> IF IsBlank(lines[i]) THEN <<>> ELSE Spaces(indent + 2) \o WithoutReturn(lines[i])]
                          \o IF indent = 0 THEN <<>> ELSE <<Spaces(indent)>>]

(***************************************************************************)
(* minify_query.                                                            *)
(***************************************************************************)
\* Mutant: a space after a punctuator, as the name prev_was_punctuator says.
GapAfterPunctuator(token, next) == IsPunctuator(token) /\ ~IsPunctuator(next)

\* A space is put between two tokens that are no punctuators.
Gap(token, next) == ~IsPunctuator(token) /\ ~IsPunctuator(next)

IsNumber(token) == token.kind \in {"IntValue", "BigIntValue", "FloatValue"}

\* Two tokens that the tokenizer would read otherwise without a gap: a name goes
\* on with letters and digits, a number with anything but some punctuators, and
\* an empty string opens a block.
Clings(token, next) ==
    \/ token.kind = "Name" /\ next.kind \in {"Name", "IntValue", "BigIntValue", "FloatValue"}
    \/ IsNumber(token) /\ (~IsPunctuator(next) \/ next.value = "...")
    \/ token.kind = "StringValue" /\ token.value = <<>> /\ next.kind \in {"StringValue", "BlockString"}

\* Minified: for each token whether a space follows.
Minified(tokens) == [i \in 1 .. (Len(tokens) - 1) |-> Gap(tokens[i], tokens[i + 1])]
=============================================================================
