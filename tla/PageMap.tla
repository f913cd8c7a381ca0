------------------------------ MODULE PageMap -------------------------------
(***************************************************************************)
(* What the page map promises (PageMap.h, PageCache.h:28-36): a map from   *)
(* page id to span that anybody may ask at any time, with no mutex, and    *)
(* that answers with what it holds for the page at one moment between the  *)
(* question and the answer.  Radix64 implements it.                        *)
(***************************************************************************)
CONSTANTS
    Reader,     \* the threads that ask
    Key,        \* the page ids asked for
    Settable,   \* the page ids the map has room for
    Value,      \* the spans
    Null        \* nullptr

VARIABLES
    map,        \* the span of each page id
    asked,      \* the page id each reader waits for, or Null
    answer      \* what it was told last

PageMapInit ==
    /\ map = [k \in Key |-> Null]
    /\ asked = [r \in Reader |-> Null]
    /\ answer = [r \in Reader |-> Null]

Put(k, v) ==
    /\ map' = [map EXCEPT ![k] = v]
    /\ UNCHANGED <<asked, answer>>

Ask(r, k) ==
    /\ asked[r] = Null
    /\ asked' = [asked EXCEPT ![r] = k]
    /\ UNCHANGED <<map, answer>>

Tell(r) ==
    /\ asked[r] # Null
    /\ answer' = [answer EXCEPT ![r] = map[asked[r]]]
    /\ asked' = [asked EXCEPT ![r] = Null]
    /\ UNCHANGED map

PageMapNext ==
    \/ \E k \in Settable, v \in Value : Put(k, v)
    \/ \E r \in Reader : Tell(r) \/ \E k \in Key : Ask(r, k)

PageMapSpec == PageMapInit /\ [][PageMapNext]_<<map, asked, answer>>
=============================================================================
