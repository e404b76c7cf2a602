------------------------------ MODULE Message ------------------------------
(***************************************************************************)
(* What goes over the wire in one upload: the texts of Value and Json      *)
(* (src/src/dict.cpp), their base64 (module Base64) and the status that    *)
(* Response reads in the reply (src/src/http.cpp).  Texts are sequences    *)
(* of characters.                                                          *)
(***************************************************************************)
EXTENDS Base64, SequencesExt

CONSTANTS Comments,  \* the texts tried as a datum's comment
          Zipped,    \* the bytes tried as the outcome of deflate
          Codes      \* the status codes a server may reply with

ASSUME MessageAssumption ==
    /\ \A c \in Comments : c \in Seq(Range(c))
    /\ Zipped \subseteq Seq(Bytes)
    /\ Codes \subseteq 100..599

Quote == "\""
Backslash == "\\"
Comma == ","
-----------------------------------------------------------------------------
(***************************************************************************)
(* The request.                                                            *)
(***************************************************************************)

\* Mutant of Serialize: quotes are copied as they are.
SerializeRaw(s) == <<Quote>> \o s \o <<Quote>>

\* Value::serialize of a string: of the characters that JSON would have
\* escaped only the quote is.
Written(ch) == IF ch = Quote THEN <<Backslash, Quote>> ELSE <<ch>>

Escaped(s) ==
    LET escaped[i \in 0..Len(s)] == IF i = 0 THEN <<>> ELSE escaped[i - 1] \o Written(s[i])
    IN escaped

Serialize(s) == <<Quote>> \o Escaped(s)[Len(s)] \o <<Quote>>

\* The elements of an array or a dict, with a comma behind each but the last.
Joined(texts) ==
    LET joined[i \in 0..Len(texts)] ==
          IF i = 0 THEN <<>>
          ELSE joined[i - 1] \o texts[i] \o IF i < Len(texts) THEN <<Comma>> ELSE <<>>
    IN joined[Len(texts)]

\* Json::serialize of a dict whose values are strings, in the order of its map.
DictText(items) ==
    <<"{">> \o Joined([i \in DOMAIN items |->
                          Serialize(items[i].key) \o <<":">> \o Serialize(items[i].value)])
            \o <<"}">>

\* Json::serialize of a vector.
ArrayText(dicts) == <<"[">> \o Joined([i \in DOMAIN dicts |-> DictText(dicts[i])]) \o <<"]">>

\* A datum's text: of its members those that are strings.
Comment == <<"c", "o", "m", "m", "e", "n", "t">>
Time == <<"t", "i", "m", "e">>
Datum(comment) == <<[key |-> Comment, value |-> comment], [key |-> Time, value |-> <<"0">>]>>

\* The body of the request: what deflate made of the data, as base64 in a dict.
DataKey == <<"d", "a", "t", "a">>
Body(zipped) == DictText(<<[key |-> DataKey, value |-> base64_encode(zipped)]>>)
-----------------------------------------------------------------------------
(***************************************************************************)
(* The reply.                                                              *)
(***************************************************************************)
Digits == <<"0", "1", "2", "3", "4", "5", "6", "7", "8", "9">>

\* atoi of a word: the number it begins with, or 0.
DigitsOf(word) == Max({n \in 0..Len(word) : \A i \in 1..n : word[i] \in Range(Digits)})

Number(word) ==
    LET number[i \in 0..DigitsOf(word)] ==
          IF i = 0 THEN 0
          ELSE 10 * number[i - 1] + (CHOOSE d \in 0..9 : Digits[d + 1] = word[i])
    IN number

atoi(word) == Number(word)[DigitsOf(word)]

SpaceFrom(text, i) == {j \in i..Len(text) : text[j] = " "}

\* Mutant of StatusOf: a reply that ends with its code has none.
StatusBetweenSpaces(text) ==
    LET spaces == SpaceFrom(text, 1)
    IN IF Cardinality(spaces) < 2 THEN 0
       ELSE atoi(SubSeq(text, Min(spaces) + 1, Min(spaces \ {Min(spaces)}) - 1))

\* Response::Response(text): the word between the first space and the second.
\* find's npos makes a missing first space the place before the text, and a
\* missing second one the text's end.
StatusOf(text) ==
    LET first == SpaceFrom(text, 1)
        begin == IF first = {} THEN 1 ELSE Min(first) + 1
        second == SpaceFrom(text, begin)
        end == IF second = {} THEN Len(text) + 1 ELSE Min(second)
    IN atoi(SubSeq(text, begin, end - 1))

Reply(code) ==
    <<"H", "T", "T", "P", "/", "1", ".", "0", " ", Digits[code \div 100 + 1],
      Digits[((code \div 10) % 10) + 1], Digits[(code % 10) + 1], " ", "O", "K">>
LastDigit == 12

\* post() reads once: it has some beginning of the reply.
Received(code, n) == SubSeq(Reply(code), 1, n)
-----------------------------------------------------------------------------
(***************************************************************************)
(* What the two ends make of the texts.                                    *)
(***************************************************************************)

\* What JSON allows in a string behind a backslash only; serialize writes all of
\* it but the quote as it is.  "BS" is the backspace, and "ESC" is that of the
\* screen codes, which like the other control characters has no short escape.
Controls == {"\t", "\n", "\f", "\r", "BS", "ESC"}
Unescaped == {Backslash} \cup Controls

\* What the character behind a backslash stands for; "u" and four digits stand
\* for a character that is not told apart any further.
Itself == {Quote, Backslash, "/"}
Meaning == [b |-> "BS", f |-> "\f", n |-> "\n", r |-> "\r", t |-> "\t"]
Hex == Range(Digits) \cup {"a", "b", "c", "d", "e", "f", "A", "B", "C", "D", "E", "F"}
Unicode == "unicode"

\* A JSON reader goes through a text and collects the strings in it, unless one
\* of them makes it refuse the text; what stands between strings is not looked
\* at.  In escape is how much of an escape sequence is to come:
\* 5 behind the backslash, 4 to 1 for the digits behind a "u".
Refused(r) == [r EXCEPT !.refused = TRUE]
Appended(r, ch, to_come) == [r EXCEPT !.escape = to_come, !.string = Append(@, ch)]

ReadOutside(r, ch) == IF ch = Quote THEN [r EXCEPT !.inside = TRUE, !.string = <<>>] ELSE r

ReadPlain(r, ch) ==
    CASE ch \in Controls -> Refused(r)
      [] ch = Backslash -> [r EXCEPT !.escape = 5]
      [] ch = Quote -> [r EXCEPT !.inside = FALSE, !.found = Append(@, r.string)]
      [] OTHER -> Appended(r, ch, 0)

ReadEscaped(r, ch) ==
    CASE ch \in Itself -> Appended(r, ch, 0)
      [] ch \in DOMAIN Meaning -> Appended(r, Meaning[ch], 0)
      [] ch = "u" -> [r EXCEPT !.escape = 4]
      [] OTHER -> Refused(r)

ReadDigit(r, ch) ==
    CASE ch \notin Hex -> Refused(r)
      [] ch \in Hex /\ r.escape = 1 -> Appended(r, Unicode, 0)
      [] OTHER -> [r EXCEPT !.escape = @ - 1]

Read(r, ch) ==
    CASE r.refused -> r
      [] ~r.refused /\ ~r.inside -> ReadOutside(r, ch)
      [] ~r.refused /\ r.inside /\ r.escape = 0 -> ReadPlain(r, ch)
      [] ~r.refused /\ r.inside /\ r.escape = 5 -> ReadEscaped(r, ch)
      [] OTHER -> ReadDigit(r, ch)

Reading(r, text) ==
    LET reading[i \in 0..Len(text)] == IF i = 0 THEN r ELSE Read(reading[i - 1], text[i])
    IN reading

Reader == [inside |-> FALSE, refused |-> FALSE, escape |-> 0, string |-> <<>>, found |-> <<>>]

\* None, if the text is refused or ends within a string.
Strings(text) ==
    LET r == Reading(Reader, text)[Len(text)]
    IN IF r.refused \/ r.inside THEN <<>> ELSE r.found

\* Whatever deflate yields arrives: the encoded text needs no escaping, and its
\* padding is right for every length.
DataArrive ==
    \A z \in Zipped :
        LET read == Strings(Body(z)) IN Len(read) = 2 /\ Decoded(read[2]) = z

\* A batch is read as it was written, quotes, commas and braces included, if and
\* only if no text in it has a backslash or a control character, the newline of
\* a line included: dict.cpp escapes the quote only.
CommentsArrive ==
    \A c, d \in Comments :
        Strings(ArrayText(<<Datum(c), Datum(d)>>))
              = <<Comment, c, Time, <<"0">>, Comment, d, Time, <<"0">> >>
          <=> (Range(c) \cup Range(d)) \cap Unescaped = {}

\* The test status < 400 of core.cpp:59 and :76 fails exactly for a refusal of
\* which the whole code has arrived; what ends earlier passes for success.
RefusalsSeen ==
    \A code \in Codes : \A n \in 0..Len(Reply(code)) :
        StatusOf(Received(code, n)) >= 400 <=> code >= 400 /\ n >= LastDigit

BothEndsUnderstand == DataArrive /\ CommentsArrive /\ RefusalsSeen
=============================================================================
