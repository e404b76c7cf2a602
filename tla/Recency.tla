------------------------------ MODULE Recency ------------------------------
(***************************************************************************)
(* What a cache of the program promises: it remembers when each datum was  *)
(* last inserted, and says of an insertion whether the datum was new, that *)
(* is, not inserted within its timeout.  A datum that is asked about stays *)
(* remembered: every insertion renews it.                                  *)
(*                                                                         *)
(* There are no buckets, lists or hashes here; the module Cache has them.  *)
(***************************************************************************)
EXTENDS Integers

CONSTANTS Data,         \* what can be inserted
          Timeout,      \* per datum: how long it is remembered
          WhiteTimeout, \* how long a white-listed datum is remembered
          WhiteListed,  \* the white list the server will send
          Exposed,      \* data that may be forgotten before their time
          Seconds        \* the seconds at which something happens

VARIABLES now,   \* time(NULL)
          white, \* the white list as the program has it: empty until it comes
          last,  \* the last insertion of each datum, or Never
          reply  \* the last insertion's datum and result

vars == <<now, white, last, reply>>

Never == -1

TimeoutOf(d) == IF d \in white THEN WhiteTimeout ELSE Timeout[d]
Recent(d) == last[d] # Never /\ now - last[d] < TimeoutOf(d)

Init ==
    /\ now \in Seconds /\ \A t \in Seconds : now <= t
    /\ white = {}
    /\ last = [d \in Data |-> Never]
    /\ reply \in [data : Data, inserted : {FALSE}]

Insert(d) ==
    /\ \E new \in BOOLEAN :
        /\ ~Recent(d) => new
        /\ Recent(d) /\ new => d \in Exposed
        /\ reply' = [data |-> d, inserted |-> new]
    /\ last' = [last EXCEPT ![d] = now]
    /\ UNCHANGED <<now, white>>

LoadWhiteList ==
    /\ white' = WhiteListed
    /\ UNCHANGED <<now, last, reply>>

\* The program may make a second white list, empty until it is loaded too.
ReplaceWhiteList ==
    /\ white' = {}
    /\ UNCHANGED <<now, last, reply>>

Tick ==
    /\ \E t \in Seconds : now < t /\ now' = t
    /\ UNCHANGED <<white, last, reply>>

Next == (\E d \in Data : Insert(d)) \/ LoadWhiteList \/ ReplaceWhiteList \/ Tick

Spec == Init /\ [][Next]_vars
=============================================================================
