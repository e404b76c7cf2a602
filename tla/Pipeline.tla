------------------------------ MODULE Pipeline ------------------------------
(***************************************************************************)
(* From a line of airodump-ng to its check: the loop of core_start         *)
(* (src/src/core.cpp), the formatter pool, Formatter::run                  *)
(* (src/src/formatter.cpp) and the checker pool, two ThreadPools of which  *)
(* the first pushes into the second while it holds its own mutex.          *)
(*                                                                         *)
(* A job is the number of a line.  What the check does with the line is    *)
(* the module Checker's; here it ends, or its exception ends the process.  *)
(***************************************************************************)
EXTENDS LineParser, Sublist

CONSTANTS Formatters, Checkers, \* the workers of the two pools
          NoOne, NoJob,
          Texts,                \* the lines airodump-ng may print
          MinRead,              \* 10: a shorter line is not pushed
          MaxLines,             \* bound: how many lines are read
          MaxText, MaxScan      \* bounds: the length of the lines tried on the parser

ASSUME PipelineAssumption ==
    /\ Texts \subseteq Seq(Characters)
    /\ MinRead \in Nat /\ MaxLines \in Nat /\ MaxText \in Nat /\ MaxScan \in Nat
    /\ Formatters # {} /\ Checkers # {} \* as in ThreadPool
    /\ NoOne \notin Formatters \cup Checkers /\ NoJob \notin 1..MaxLines

VARIABLES
    lines,                                     \* the lines read, in order
    alive,                                     \* has no exception ended yah?
    fJobs, fHolder, fPc, fJob, fSubmitted, fFinished, \* the formatter pool
    cJobs, cHolder, cPc, cJob, cSubmitted, cFinished  \* the checker pool

formatterVars == <<fJobs, fHolder, fPc, fJob, fSubmitted, fFinished>>
checkerVars == <<cJobs, cHolder, cPc, cJob, cSubmitted, cFinished>>
vars == <<lines, alive, formatterVars, checkerVars>>

Numbers == 1..MaxLines

FormatterPool == INSTANCE ThreadPool WITH
    Workers <- Formatters, Jobs <- Numbers, jobs <- fJobs, holder <- fHolder,
    pc <- fPc, job <- fJob, submitted <- fSubmitted, finished <- fFinished

CheckerPool == INSTANCE ThreadPool WITH
    Workers <- Checkers, Jobs <- Numbers, jobs <- cJobs, holder <- cHolder,
    pc <- cPc, job <- cJob, submitted <- cSubmitted, finished <- cFinished

PipelineTypeOK ==
    /\ lines \in Seq(Texts) /\ Len(lines) <= MaxLines
    /\ alive \in BOOLEAN
    /\ FormatterPool!PoolTypeOK /\ CheckerPool!PoolTypeOK
    /\ Range(cSubmitted) \subseteq Range(fSubmitted)
    /\ Range(fSubmitted) \subseteq DOMAIN lines

Init == /\ lines = <<>> /\ alive = TRUE
        /\ FormatterPool!Init /\ CheckerPool!Init
-----------------------------------------------------------------------------
\* Mutant of ReadLine: the text is gone before the job has it.
ReadLineForgets ==
    /\ alive /\ Len(lines) < MaxLines
    /\ FormatterPool!Push(Len(lines) + 1)
    /\ UNCHANGED <<lines, alive, checkerVars>>

\* The loop reads a line; unless it is too short, push waits for the
\* formatter's mutex.
ReadLine ==
    /\ alive /\ Len(lines) < MaxLines
    /\ \E s \in Texts :
        /\ lines' = Append(lines, s)
        /\ \/ Len(s) < MinRead /\ UNCHANGED formatterVars
           \/ Len(s) >= MinRead /\ FormatterPool!Push(Len(lines) + 1)
    /\ UNCHANGED <<alive, checkerVars>>

\* An exception nobody catches, or a fault: handler() calls exit(1).
Die == alive' = FALSE /\ UNCHANGED <<lines, formatterVars, checkerVars>>

Parsed == [s \in Texts |-> Format(s)]
Outcomes(n) == Parsed[lines[n]]

\* Formatter::run, until checker->push returns: the formatter's mutex is held
\* while the push waits for the checker's.
Forward(w) ==
    /\ alive /\ fPc[w] = "run"
    /\ \E o \in Outcomes(fJob[w]) :
        /\ o.kind \in {"ap", "apstation"}
        /\ CheckerPool!Push(fJob[w])
    /\ UNCHANGED <<lines, alive, formatterVars>>

FormatDies(w) ==
    /\ alive /\ fPc[w] = "run" /\ fJob[w] \notin Range(cSubmitted)
    /\ Dies \in Outcomes(fJob[w])
    /\ Die

\* Mutant of Formatted: it does not wait for the push.
FormattedEarly(w) ==
    /\ alive /\ FormatterPool!Finish(w)
    /\ UNCHANGED <<lines, alive, checkerVars>>

\* The job ends after the push, or for a line that is none at once.
Formatted(w) ==
    /\ alive
    /\ fJob[w] \in Range(cSubmitted)
         \/ (fPc[w] = "run" /\ [kind |-> "none"] \in Outcomes(fJob[w]))
    /\ FormatterPool!Finish(w)
    /\ UNCHANGED <<lines, alive, checkerVars>>

\* Checker::run calls get_pwr first.
Throws(n) == \A o \in Outcomes(n) \ {Dies} : PwrThrows(o)

CheckDies(w) ==
    /\ alive /\ cPc[w] = "run" /\ Throws(cJob[w])
    /\ Die

Checked(w) ==
    /\ alive /\ cPc[w] = "run" /\ ~Throws(cJob[w])
    /\ CheckerPool!Finish(w)
    /\ UNCHANGED <<lines, alive, formatterVars>>

\* The workers between the jobs.
FormatterTurn(w) ==
    /\ alive /\ (FormatterPool!Take(w) \/ FormatterPool!Sleep(w))
    /\ UNCHANGED <<lines, alive, checkerVars>>

CheckerTurn(w) ==
    /\ alive /\ (CheckerPool!Take(w) \/ CheckerPool!Sleep(w))
    /\ UNCHANGED <<lines, alive, formatterVars>>

SpuriousWake ==
    /\ alive
    /\ \/ (\E w \in Formatters : FormatterPool!SpuriousWake(w)) /\ UNCHANGED checkerVars
       \/ (\E w \in Checkers : CheckerPool!SpuriousWake(w)) /\ UNCHANGED formatterVars
    /\ UNCHANGED <<lines, alive>>

FormatterJob(w) == Forward(w) \/ FormatDies(w) \/ Formatted(w)
CheckerJob(w) == CheckDies(w) \/ Checked(w)

Next == \/ ReadLine \/ SpuriousWake
        \/ \E w \in Formatters : FormatterTurn(w) \/ FormatterJob(w)
        \/ \E w \in Checkers : CheckerTurn(w) \/ CheckerJob(w)

\* As in ThreadPool: some worker gets a free mutex, and a job goes on.  The
\* formatter's push competes with the checker's workers for their mutex, and
\* is not owed it before they sleep.
Fairness ==
    /\ WF_vars(\E w \in Formatters : FormatterTurn(w))
    /\ WF_vars(\E w \in Checkers : CheckerTurn(w))
    /\ \A w \in Formatters : WF_vars(FormatterJob(w))
    /\ \A w \in Checkers : WF_vars(CheckerJob(w))

Spec == Init /\ [][Next]_vars
FairSpec == Spec /\ Fairness
-----------------------------------------------------------------------------
(***************************************************************************)
(* Properties.                                                             *)
(***************************************************************************)

IsData(n) == [kind |-> "none"] \notin Outcomes(n)

WithData(queue) == KeptAt(queue, {i \in DOMAIN queue : IsData(queue[i])})

\* The line a formatter has not handed on yet.
InFormatter ==
    IF fHolder = NoOne THEN <<>>
    ELSE IF fJob[fHolder] \in Range(cSubmitted) THEN <<>> ELSE <<fJob[fHolder]>>

\* The two pools in a row, with all their workers, are one executor of the
\* lines that carry data: each is checked once, one at a time, and in the
\* order in which airodump-ng printed them.
Chain == INSTANCE SerialExecutor WITH
    Jobs <- Numbers,
    waiting <- cJobs \o WithData(InFormatter \o fJobs),
    current <- CheckerPool!Running,
    finished <- cFinished
ImplementsSerialExecutor == Chain!Spec

\* A line with data is checked in the end, though the formatter waits for the
\* checker with its own mutex held, unless an exception ends the process.
EveryLineIsChecked ==
    \A n \in Numbers :
        n \in Range(fSubmitted) /\ IsData(n) ~> n \in Range(cFinished) \/ ~alive

(***************************************************************************)
(* What the parser does with every line of up to MaxText characters, which *)
(* is asked before any has been read.                                      *)
(***************************************************************************)
Inputs == {s \o <<"\n">> : s \in BoundedSeq(Characters \ {"\n"}, MaxText)}

\* The places from i on that are in an escape sequence that begins there: it
\* goes from its ESC to the next space, or to the end of the line.
InCode(s, i) ==
    {k \in i..Len(s) : \E j \in i..k : s[j] = ESC /\ \A l \in j..k : s[l] # " "}

\* The places that hold neither a space nor the escape sequence the line begins
\* with.
Shown(s) == {k \in DOMAIN s : s[k] # " " /\ (s[1] = ESC => \E l \in 1..k : s[l] = " ")}

\* Nothing is lost of a line but the spaces and the escape sequence it begins
\* with and, behind the first character kept, what is in an escape sequence; and
\* nothing of those stays.  A sequence ends at a space only (airodump.cpp:73):
\* one with no space behind it takes the mac it touches along, and the newline
\* at the end.  An ESC behind spaces at the beginning is not one of a sequence:
\* it is kept.
EscapesStripped ==
    lines = <<>> => \A s \in Inputs :
        Strip(s) =
          IF Shown(s) = {} THEN <<>>
          ELSE LET first == Min(Shown(s))
               IN KeptAt(s, {first} \cup ((first + 1..Len(s)) \ InCode(s, first + 1)))

Spaces == {<<" ">>, <<" ", " ">>}
Macs == [1..MinMac + 1 -> {"x"}] \cup [1..MinMac + 2 -> {"x"}]

\* A station's line is read back as it was printed: the two macs, or the text
\* "(not associated)" with its space and a mac, are the bssid and the station,
\* the key of the cache and the database, whatever spaces and text come between
\* and after them, also behind an escape sequence that begins the line and ends
\* with a space.
StationsAreRead ==
    lines = <<>> =>
    \A bssid \in Macs \cup {NotAssociated}, mac \in Macs, gap \in Spaces,
       code \in {<<>>, <<" ">>, <<ESC, " ">>, <<ESC, "x", " ", " ">>},
       rest \in BoundedSeq(Characters \ {"\n", ESC}, MaxText - 3) :
        LET text == bssid \o gap \o mac \o <<" ">> \o rest \o <<"\n">>
        IN Len(text) > MinSize =>
            Format(code \o text) = {[kind |-> "apstation", bssid |-> bssid,
                                     station |-> mac, comment |-> text]}

Words(line) == {i \in DOMAIN line : line[i] # " " /\ (i = 1 \/ line[i - 1] = " ")}

\* Lines of few characters, long enough for five words.
ScanInputs == Inputs \cup {s \o <<"\n">> : s \in BoundedSeq({" ", "(", "x"}, MaxScan)}

\* get_part_end does not look at end(), and still no scan leaves a line that
\* has a third word, or a fifth when a "(" can begin words with a space inside:
\* the formatter ends the process for lines that are cut short only.
ScansStayInside ==
    lines = <<>> => \A s \in ScanInputs :
        LET line == Strip(s)
            enough == IF "(" \in Range(line) THEN 5 ELSE 3
        IN Cardinality(Words(line)) >= enough => Dies \notin Format(s)
=============================================================================
