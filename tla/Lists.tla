------------------------------- MODULE Lists --------------------------------
(***************************************************************************)
(* One size class as sequences: the spans of CentralCache's bucket and of  *)
(* PageCache's list of their length, the free objects of each span, and    *)
(* those of each thread.  Links implements it with pointers.               *)
(***************************************************************************)
EXTENDS Naturals, SequencesExt

CONSTANTS Thread, Span, PerSpan

VARIABLES
    ring,    \* the spans of the bucket, and those PageCache keeps for it
    unused,  \* the spans PageCache has not made yet
    free,    \* the free objects of each span
    list,    \* the free objects of each thread
    going,   \* those a thread is giving back
    user     \* the objects handed out

vars == <<ring, unused, free, list, going, user>>

Block == Span \X (1 .. PerSpan)

ListsInit ==
    /\ ring = [h \in {"bucket", "pages"} |-> <<>>]
    /\ unused = Span
    /\ free = [s \in Span |-> <<>>]
    /\ list = [t \in Thread |-> <<>>]
    /\ going = [t \in Thread |-> <<>>]
    /\ user = {}

Pop(t) ==
    /\ list[t] # <<>>
    /\ user' = user \cup {Head(list[t])}
    /\ list' = [list EXCEPT ![t] = Tail(@)]
    /\ UNCHANGED <<ring, unused, free, going>>

\* The first n objects of a span: one for the user, the others for the thread.
Take(t, s, n) ==
    /\ list[t] = <<>>
    /\ n <= Len(free[s])
    /\ user' = user \cup {Head(free[s])}
    /\ list' = [list EXCEPT ![t] = SubSeq(free[s], 2, n)]
    /\ free' = [free EXCEPT ![s] = SubSeq(@, n + 1, Len(@))]
    /\ UNCHANGED <<unused, going>>

\* From the first span of the bucket that has any.
Fetch(t, n) ==
    /\ \E i \in DOMAIN ring["bucket"] :
          /\ free[ring["bucket"][i]] # <<>>
          /\ \A j \in 1 .. (i - 1) : free[ring["bucket"][j]] = <<>>
          /\ Take(t, ring["bucket"][i], n)
    /\ UNCHANGED ring

\* A span of PageCache's is cut into objects, in the order of their addresses.
Cut(s) ==
    /\ \/ s \in unused /\ unused' = unused \ {s} /\ UNCHANGED ring
       \/ /\ ring["pages"] # <<>> /\ s = Head(ring["pages"])
          /\ ring' = [ring EXCEPT !["pages"] = Tail(@)]
          /\ UNCHANGED unused
    /\ free' = [free EXCEPT ![s] = [i \in 1 .. PerSpan |-> <<s, i>>]]
    /\ UNCHANGED <<list, going, user>>

\* It is in no list until it comes to the front of the bucket.
Nowhere(s) == s \notin unused /\ \A h \in DOMAIN ring : s \notin ToSet(ring[h])

FetchNew(t, s, n) ==
    /\ Nowhere(s)
    /\ ring' = [ring EXCEPT !["bucket"] = <<s>> \o @]
    /\ Take(t, s, n)

\* An object comes back to a thread's list, whose first n may then leave it.
Push(t, b, n) ==
    /\ b \in user
    /\ going[t] = <<>>
    /\ user' = user \ {b}
    /\ LET all == <<b>> \o list[t]
       IN  /\ n <= Len(all)
           /\ going' = [going EXCEPT ![t] = SubSeq(all, 1, n)]
           /\ list' = [list EXCEPT ![t] = SubSeq(all, n + 1, Len(all))]
    /\ UNCHANGED <<ring, unused, free>>

\* One object goes to its span; a span that has all of its own again leaves.
GiveBack(t) ==
    /\ going[t] # <<>>
    /\ LET b == Head(going[t])
           s == b[1]
           all == <<b>> \o free[s]
       IN  IF Len(all) = PerSpan
           THEN /\ free' = [free EXCEPT ![s] = <<>>]
                /\ \E i \in DOMAIN ring["bucket"] :
                      /\ ring["bucket"][i] = s
                      /\ ring' = [ring EXCEPT !["bucket"] = RemoveAt(@, i)]
           ELSE /\ free' = [free EXCEPT ![s] = all]
                /\ UNCHANGED ring
    /\ going' = [going EXCEPT ![t] = Tail(@)]
    /\ UNCHANGED <<unused, list, user>>

Return(s) ==
    /\ Nowhere(s)
    /\ ring' = [ring EXCEPT !["pages"] = <<s>> \o @]
    /\ UNCHANGED <<unused, free, list, going, user>>

ListsNext ==
    \/ \E t \in Thread :
          \/ Pop(t) \/ GiveBack(t)
          \/ \E n \in 1 .. PerSpan : Fetch(t, n) \/ \E s \in Span : FetchNew(t, s, n)
          \/ \E b \in user, n \in 0 .. (Len(list[t]) + 1) : Push(t, b, n)
    \/ \E s \in Span : Cut(s) \/ Return(s)

ListsSpec == ListsInit /\ [][ListsNext]_vars
=============================================================================
