----------------------------- MODULE LineParser -----------------------------
(***************************************************************************)
(* How a line of airodump-ng becomes an ap or a station, or nothing, or    *)
(* ends the process: init_origin_line, Ap::init, ApStation::init and       *)
(* get_pwr (src/src/airodump.cpp).                                         *)
(*                                                                         *)
(* A line is a sequence of characters; an index is an iterator, and the    *)
(* index after the last is end().  Of the characters only those the code   *)
(* tells apart are kept: "x" is any character of a mac, "r" every other    *)
(* one.  The lengths that the code compares with are parameters.           *)
(***************************************************************************)
EXTENDS Naturals, SequencesExt

CONSTANTS MinSize,       \* 20: a line up to this size is nothing
          MinMac,        \* 15: a second word longer than this is a mac
          PwrAt,         \* 17 for an ap and 37 for a station: where pwr begins
          NotAssociated, \* the text "(not associated)"
          Excepts        \* the beginnings of airodump-ng's other lines

ESC == "ESC"
Characters == {" ", "\n", "(", ESC, "r", "x"}

ASSUME LineParserAssumption ==
    /\ MinSize \in Nat /\ MinMac \in Nat
    /\ PwrAt \in [{"ap", "apstation"} -> Nat]
    /\ NotAssociated \in Seq(Characters)
    /\ Excepts \subseteq Seq(Characters)

\* What the literals of init_origin_line have in common.  "(not associated)" has
\* one space, inside, and no ESC (airodump.cpp:107); "Freq", "BSSID", "available",
\* "failed:" and "ioctl(SIOCGIFINDEX)" (lines 93-96) begin with a letter, and each
\* has, before its 16th character, one that is in no mac.
ASSUME LiteralsAssumption ==
    /\ \E i \in 2..Len(NotAssociated) - 1 :
          \A j \in DOMAIN NotAssociated : NotAssociated[j] = " " <=> j = i
    /\ NotAssociated[1] = "(" /\ ESC \notin Range(NotAssociated)
    /\ \A e \in Excepts :
          e[1] # "(" /\ \E i \in 1..MinMac + 1 : i \in DOMAIN e /\ e[i] # "x"

\* The first index from i on whose character is in C, or end().
FirstIn(s, i, C) == Min({j \in i..Len(s) : s[j] \in C} \cup {Len(s) + 1})

NextSpace(s, i) == FirstIn(s, i, {" "})
SkipSpaces(s, i) == FirstIn(s, i, Characters \ {" "})

\* Mutants of AfterCode: an escape sequence ends with its first character; and
\* the space behind it belongs to it.
AfterCharacter(s, i) == IF i <= Len(s) /\ s[i] = ESC THEN i + 1 ELSE i

AfterSpace(s, i) == IF i <= Len(s) /\ s[i] = ESC THEN NextSpace(s, i) + 1 ELSE i

\* Where the inner while goes to from an ESC: the next space.
AfterCode(s, i) == IF i <= Len(s) /\ s[i] = ESC THEN NextSpace(s, i) ELSE i

\* What the first loop of init_origin_line appends from each index on, once
\* heading is false.
Kept(s) ==
    LET rest[i \in 1..Len(s) + 1] ==
          LET j == AfterCode(s, i)
          IN IF j > Len(s) THEN <<>> ELSE <<s[j]>> \o rest[j + 1]
    IN rest

\* The whole loop: from an ESC to the next space nothing is kept, nor are the
\* spaces the line begins with.  After those spaces an ESC is no longer looked
\* for.  Every iteration but the last appends, so heading is that of the first.
Strip(s) ==
    LET first == SkipSpaces(s, AfterCode(s, 1))
    IN IF first > Len(s) THEN <<>> ELSE <<s[first]>> \o Kept(s)[first + 1]

\* The rest of init_origin_line.
Kind(line) ==
    LET second == SkipSpaces(line, NextSpace(line, 1))
    IN IF Len(line) <= MinSize \/ \E e \in Excepts : IsPrefix(e, line) THEN "none"
       ELSE IF IsPrefix(NotAssociated, line)
                 \/ NextSpace(line, second) - second > MinMac THEN "apstation"
       ELSE "ap"

\* Mutants of PartEnd: "(not associated)" counts as two parts; any part may have
\* a space in it; and one that begins with "(" has two.
PartEndAtSpace(s, i) == NextSpace(s, i)
PartEndOfTwo(s, i) == NextSpace(s, SkipSpaces(s, NextSpace(s, i)))
PartEndOfThree(s, i) == IF i <= Len(s) /\ s[i] = "(" THEN PartEndOfTwo(s, SkipSpaces(s, NextSpace(s, i)))
                        ELSE NextSpace(s, i)

\* get_part_end.  It looks for spaces without a look at end(), so end() as the
\* result stands for some place after the line.
PartEnd(s, i) ==
    NextSpace(s, IF i <= Len(s) /\ s[i] = "(" THEN SkipSpaces(s, NextSpace(s, i)) ELSE i)

\* boost::trim_copy takes a newline for a space as well.
TrimmedSize(s) ==
    LET kept == {i \in DOMAIN s : s[i] \notin {" ", "\n"}}
    IN IF kept = {} THEN 0 ELSE Max(kept) + 1 - Min(kept)

Dies == [kind |-> "dies"]

\* The ways in which the formatter's part can end: init_origin_line and the
\* constructor it calls.  A scan that leaves the line may fault, or may end in
\* whatever lies there; substr then cuts what is too long, and throws when the
\* beginning is too far as well.
Format(s) ==
    LET line == Strip(s)
        end == Len(line) + 1
        end1 == PartEnd(line, 1)
        begin2 == SkipSpaces(line, end1)
        end2 == PartEnd(line, begin2)
        ap == [kind |-> "ap", bssid |-> SubSeq(line, 1, end1 - 1), comment |-> line]
        station == [kind |-> "apstation", bssid |-> SubSeq(line, 1, end1 - 1),
                    station |-> SubSeq(line, begin2, end2 - 1), comment |-> line]
    IN CASE Kind(line) = "none" -> {[kind |-> "none"]}
         [] Kind(line) = "ap" -> {ap} \cup IF end1 = end THEN {Dies} ELSE {}
         [] OTHER -> (IF end1 = end THEN {} ELSE {station})
                       \cup (IF end2 = end THEN {Dies} ELSE {})

\* get_pwr: substr(17, 6) or substr(37, 6) of the trimmed comment, which
\* throws when that is shorter.
PwrThrows(data) == TrimmedSize(data.comment) < PwrAt[data.kind]
=============================================================================
