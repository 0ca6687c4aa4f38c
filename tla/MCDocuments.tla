----------------------------- MODULE MCDocuments -----------------------------
(* Texts in both languages of the GraphQL parser.                             *)
EXTENDS GraphqlDocuments

Number(kind, class) == [kind |-> kind, value |-> class]
Quoted(units) == [kind |-> "StringValue", value |-> units]
Char(c) == [char |-> c]
Block(lines) == [kind |-> "BlockString", value |-> lines]

(* Letters are 97 and 98; \t of a string is an escape of four digits here.      *)
MCLexicon ==
    "1" :> Number("IntValue", "small") @@ "-1" :> Number("IntValue", "negative")
    @@ "2^64" :> Number("BigIntValue", "large") @@ "2^128" :> Number("BigIntValue", "vast")
    @@ "1.5" :> Number("FloatValue", "fraction") @@ "1.0" :> Number("FloatValue", "whole")
    @@ "-1.0" :> Number("FloatValue", "negative") @@ "1e25" :> Number("FloatValue", "large")
    @@ "1e99" :> Number("FloatValue", "vast") @@ "1e999" :> Number("FloatValue", "infinite")
    @@ "empty" :> Quoted(<<>>) @@ "ab" :> Quoted(<<Char(97), Char(98)>>)
    @@ "nul" :> Quoted(<<[u |-> <<0, 0, 0, 7>>]>>) @@ "feed" :> Quoted(<<Char(97), [u |-> <<0, 0, 1, 15>>]>>)
    @@ "emoji" :> Quoted(<<Char(70000)>>) @@ "surrogate" :> Quoted(<<[u |-> <<13, 8, 0, 0>>]>>)
    @@ "newline" :> Quoted(<<Char(97), Char(10)>>) @@ "two lines" :> Quoted(<<Char(97), Char(10), Char(98)>>)
    @@ "returns" :> Quoted(<<Char(97), Char(13), Char(10)>>)
    @@ "two returns" :> Quoted(<<Char(97), Char(13), Char(13), Char(10), Char(9), Char(13), Char(98), Char(10)>>)
    @@ "mixed" :> Quoted(<<Char(10), [u |-> <<0, 0, 0, 1>>]>>)
    @@ "block" :> Block(<<<<>>, <<32, 32, 97>>, <<>>, <<32, 32, 32, 98>>, <<32>>>>)
    @@ "one line" :> Block(<<<<32, 97, 32>>>>) @@ "no line" :> Block(<<>>)
    @@ "blank" :> Block(<<<<>>, <<32, 32>>, <<>>>>)
    @@ "indented" :> Block(<<<<97>>, <<32, 98>>, <<98>>>>)

Strings == {w \in DOMAIN MCLexicon : MCLexicon[w].kind \in {"StringValue", "BlockString"}}

Values ==
    {<<w>> : w \in DOMAIN MCLexicon \cup {"true", "RED"}}
    \cup {<<"[">> \o v \o <<"]">> : v \in {<<>>, <<"1", "1.5">>, <<"1.0", "[", "]">>, <<"empty", "empty">>}}
    \cup {<<"{">> \o v \o <<"}">> :
            v \in {<<>>, <<"y", ":", "1", "x", ":", "block">>, <<"x", ":", "1", "x", ":", "true">>, <<"x", ":", "{", "}">>}}

Queries ==
    {<<"{", "a", "(", "x", ":">> \o v \o <<")", "}">> : v \in Values}
    \cup {<<"{", "a", "{", "b", "@", "d", "(", "x", ":">> \o v \o <<"y", ":", "$", "v", ")", "}", "}">> : v \in Values}
    \cup {<<"query", "(", "$", "v", ":", "T", "=">> \o v \o <<")", "{", "a", "}">> : v \in Values}
    \cup {<<kind>> \o name \o variables \o directives \o <<"{", "a", "}">> :
            kind \in {"query", "mutation", "subscription"}, name \in {<<>>, <<"q">>},
            variables \in {<<>>, <<"(", "$", "v", ":", "[", "T", "!", "]", "!", ")">>,
                           <<"(", "$", "v", ":", "T", "=", "1", "$", "w", ":", "T", ")">>},
            directives \in {<<>>, <<"@", "d", "@", "e", "(", "x", ":", "1", ")">>}}

Selections ==
    <<"{", "b", ":", "a", "(", "x", ":", "1", ")", "@", "d", "{", "c", "on", "}", "...", "on", "T", "@", "d", "{", "a", "}",
      "...", "@", "d", "{", "a", "}", "...", "{", "a", "}", "...", "f", "@", "d", "}",
      "fragment", "f", "on", "T", "@", "d", "{", "a", "{", "b", "}", "}">>

Schemas ==
    {<<"schema">> \o d \o <<"{">> \o o \o <<"}">> :
        d \in {<<>>, <<"@", "d">>},
        o \in {<<>>, <<"query", ":", "Q">>, <<"mutation", ":", "M", "query", ":", "Q", "subscription", ":", "S">>,
               <<"query", ":", "Q", "query", ":", "R">>, <<"other", ":", "Q">>}}
    \cup {e \o <<kind, "T">> \o i \o d \o body :
        e \in {<<>>, <<"extend">>}, kind \in {"scalar", "type", "interface", "union", "enum", "input"},
        i \in {<<>>, <<"implements", "&", "I", "&", "J">>}, d \in {<<>>, <<"@", "d">>},
        body \in {<<>>, <<"=", "A">>, <<"=", "|", "A", "|", "B">>, <<"{", "a", "ab", "b", "@", "d", "}">>,
                  <<"{", "a", ":", "T", "ab", "b", ":", "[", "T", "]", "@", "d", "}">>,
                  <<"{", "a", ":", "T", "=", "1", "@", "d", "}">>,
                  <<"{", "a", "(", "x", ":", "T", "ab", "y", ":", "T", "=", "1", "@", "d", ")", ":", "T", "}">>}}
    \cup {<<"ab", kind, "T">> : kind \in {"scalar", "interface", "union", "enum", "input", "extend"}}
    \cup {<<s>> \o <<"type", "T", "{", s, "a", "(", s, "x", ":", "T", "=", s, ")", ":", "T", "}">> : s \in Strings}
    \cup {<<"enum", "T", "{", s, "A", "}", "input", "T", "{", s, "a", ":", "T", "}">> : s \in Strings}
    \cup {s \o <<"directive", "@", "d">> \o a \o r \o <<"on">> \o l \o n :
        s \in {<<>>, <<"block">>}, a \in {<<>>, <<"(", "x", ":", "T", ")">>}, r \in {<<>>, <<"repeatable">>},
        l \in {<<>>, <<"|">>, <<"FIELD">>, <<"|", "FIELD", "|", "ENUM">>, <<"FIELD", "FIELD">>, <<"NOWHERE">>},
        n \in {<<>>, <<"scalar", "T">>, <<"ab", "scalar", "T">>}}

(* Texts with a word missing, and cut off.                                    *)
Damaged(words) == {SubSeq(words, 1, i - 1) \o SubSeq(words, i + 1, Len(words)) : i \in DOMAIN words}
                      \cup {SubSeq(words, 1, i) : i \in DOMAIN words}

MCSources ==
    {[language |-> "query", words |-> w] : w \in Queries \cup {Selections} \cup Damaged(Selections)}
    \cup {[language |-> "schema", words |-> w] : w \in Schemas}
=============================================================================
