------------------------------- MODULE Cache -------------------------------
(***************************************************************************)
(* yah::Cache<std::string> (src/include/cache.hpp): buckets of items by    *)
(* hash, which an insertion cleans as it walks.  The program has three:    *)
(* ap_cache, apstation_cache and the one of btl.                           *)
(*                                                                         *)
(* No two insertions overlap: the checker pool runs one job at a time      *)
(* (theorem Serial of ThreadPoolProofs), and btl inserts from one thread.  *)
(***************************************************************************)
EXTENDS Integers, Sequences, FiniteSets, Functions, Sublist

CONSTANTS Data,         \* the strings inserted
          Hashes,       \* the values of Hash::operator()
          HashOf,       \* the hash of each datum; data may collide
          Max,          \* num_cache_max
          Timeout,      \* the cache's timeout
          WhiteTimeout, \* white_list_timeout (5 seconds)
          WhiteListed,  \* the white list the server will send
          Seconds        \* bound: the seconds at which something happens

ASSUME CacheAssumption ==
    /\ HashOf \in [Data -> Hashes]
    /\ Max \in Nat \ {0}
    /\ Timeout \in Nat /\ WhiteTimeout \in 0..Timeout
    /\ WhiteListed \subseteq Data
    /\ Seconds \subseteq Nat

VARIABLES pool,  \* std::map<HashKey, std::list<Item>>; no key is an empty list
          cur,   \* the count of items that the limit is checked against
          now,   \* time(NULL)
          white, \* what whiteList->has_data says yes to
          reply, \* the last insertion's argument and result
          last   \* history: when each datum was last inserted, or Never

vars == <<pool, cur, now, white, reply, last>>

Never == -1
Items == [data : Data, create_time : Nat]

CacheTypeOK ==
    /\ pool \in [Hashes -> Seq(Items)]
    /\ cur \in Nat
    /\ now \in Nat
    /\ white \in {{}, WhiteListed}
    /\ reply \in [data : Data, inserted : BOOLEAN]
    /\ last \in [Data -> Nat \cup {Never}]

Init ==
    /\ pool = [h \in Hashes |-> <<>>]
    /\ cur = 0
    /\ now \in Seconds /\ \A t \in Seconds : now <= t
    /\ white = {}
    /\ reply \in [data : Data, inserted : {FALSE}]
    /\ last = [d \in Data |-> Never]
-----------------------------------------------------------------------------
\* data_timeout: it belongs to the datum inserted, and the walk applies it to
\* every item it passes, whichever datum that item holds.
TimeoutOf(d) == IF d \in white THEN WhiteTimeout ELSE Timeout

\* Mutant of Alive: the comparison is off by one at the boundary.
AliveTooLong(item, d) == now - item.create_time <= TimeoutOf(d)

Alive(item, d) == now - item.create_time < TimeoutOf(d)

\* Mutant of Cleaned: the walk erases nothing.
CleanedNothing(items, d) == items

\* What the walk leaves of the items it has passed.
Cleaned(items, d) == KeptAt(items, {i \in DOMAIN items : Alive(items[i], d)})

\* The places of a bucket where the walk for d may stop: it stops at the first.
Hits(bucket, d) == {i \in DOMAIN bucket : bucket[i].data = d /\ Alive(bucket[i], d)}

\* Mutant of Renewed: a hit leaves the item's time alone.
NotRenewed(item) == item

Renewed(item) == [item EXCEPT !.create_time = now]

\* insert returns false.  The walk has erased what it passed and found too
\* old; it renews the item of d and never sees the rest of the list.
InsertHit(d) ==
    LET h == HashOf[d] IN
    \E i \in Hits(pool[h], d) :
        /\ \A j \in Hits(pool[h], d) : i <= j
        /\ pool' = [pool EXCEPT ![h] = Cleaned(SubSeq(@, 1, i - 1), d)
                                         \o <<Renewed(@[i])>>
                                         \o SubSeq(@, i + 1, Len(@))]
        /\ reply' = [data |-> d, inserted |-> FALSE]
        /\ last' = [last EXCEPT ![d] = now]
        /\ UNCHANGED <<cur, now, white>>

\* Mutant of Full: the comparison the other way round.
FullReversed == cur <= Max

Full == cur >= Max

Longest(p) == CHOOSE h \in Hashes : \A g \in Hashes : Len(p[g]) <= Len(p[h])

\* insert returns true.  The walk has cleaned the whole bucket.  When the
\* cache is full the longest bucket goes, and the count with it; but no line
\* of the code ever adds to the count.
InsertMiss(d) ==
    LET h == HashOf[d]
        cleaned == [pool EXCEPT ![h] = Cleaned(@, d)]
        kept == IF Full THEN [cleaned EXCEPT ![Longest(cleaned)] = <<>>] ELSE cleaned
    IN /\ Hits(pool[h], d) = {}
       /\ pool' = [kept EXCEPT ![h] = Append(@, [data |-> d, create_time |-> now])]
       /\ cur' = IF Full THEN cur - Len(cleaned[Longest(cleaned)]) ELSE cur
       /\ reply' = [data |-> d, inserted |-> TRUE]
       /\ last' = [last EXCEPT ![d] = now]
       /\ UNCHANGED <<now, white>>

\* Mutant of LoadWhiteList: every datum counts as white-listed.
LoadEverything ==
    /\ white' = Data
    /\ UNCHANGED <<pool, cur, now, reply, last>>

\* A white list arrives (white_list.cpp: one thread per list, once).
LoadWhiteList ==
    /\ white' = WhiteListed
    /\ UNCHANGED <<pool, cur, now, reply, last>>

\* Nothing keeps two senders from finding whiteList null together: the list of
\* the second takes the place of the first's, and is empty at that time.
ReplaceWhiteList ==
    /\ white' = {}
    /\ UNCHANGED <<pool, cur, now, reply, last>>

Tick ==
    /\ \E t \in Seconds : now < t /\ now' = t
    /\ UNCHANGED <<pool, cur, white, reply, last>>

Next ==
    \/ \E d \in Data : InsertHit(d) \/ InsertMiss(d)
    \/ LoadWhiteList \/ ReplaceWhiteList
    \/ Tick

Spec == Init /\ [][Next]_vars
-----------------------------------------------------------------------------
(***************************************************************************)
(* Properties.                                                             *)
(***************************************************************************)

\* The walk's early return and its lazy erasing never leave two items of one
\* datum behind, an item in another hash's bucket, or one from the future: so
\* the first item found is the only one.
OneItemEach ==
    \A h \in Hashes : \A i, j \in DOMAIN pool[h] :
        /\ HashOf[pool[h][i].data] = h
        /\ pool[h][i].create_time <= now
        /\ pool[h][i].data = pool[h][j].data => i = j

\* Data that share a bucket with another, white-listed one: that one's short
\* timeout, applied to the whole list, may erase them early.
Exposed == {d \in Data : \E e \in WhiteListed \ {d} : HashOf[e] = HashOf[d]}

\* The cache answers as a set that remembers the last insertion of each datum
\* for that datum's timeout, hits included, forgetting early what is Exposed
\* and nothing else.
RecencySet == INSTANCE Recency WITH Timeout <- [d \in Data |-> Timeout]
ImplementsRecency == RecencySet!Spec

\* config.hpp:30: num_cache_max is "the most entries of the cache".
Entries == {e \in Hashes \X (1..Cardinality(Data)) : e[2] \in DOMAIN pool[e[1]]}
WithinMax == Cardinality(Entries) <= Max
=============================================================================
