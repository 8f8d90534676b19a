---------------------------- MODULE IncidentBook ----------------------------
(***************************************************************************)
(* What the incident manager keeps: a book of incidents. A region has at    *)
(* most one entry in front, and only that one is written. A crash brings    *)
(* every unsettled entry back and leaves every other as it was: only an     *)
(* entry that was spoilt while it was written can come back after it was    *)
(* closed, and only such an entry, or one that does not have its name to    *)
(* itself, can be missed.                                                   *)
(***************************************************************************)
CONSTANTS Region, Incident, None

VARIABLES
  book,     \* the region, the status and the name of every incident
  front,    \* the entry of every region that is written to, or None
  spoilt    \* the entries whose record on file cannot be trusted

bookVars == <<book, front, spoilt>>

Unsettled == {"open", "mitigated"}

Entry(r, st, n) == [region |-> r, status |-> st, name |-> n]

\* The unsettled entries of region r, among those of a book b.
UnsettledOf(b, r) == {i \in Incident : b[i].region = r /\ b[i].status \in Unsettled}

\* The entries that have the name of another.
Namesakes == {i \in Incident : \E k \in Incident \ {i} : book[k].name = book[i].name}

BookInit ==
  /\ book = [i \in Incident |-> Entry(None, "unopened", None)]
  /\ front = [r \in Region |-> None]
  /\ spoilt = {}

\* Entry i is written to its file, which may spoil it.
Writes(i) == spoilt' \in {spoilt, spoilt \cup {i}}

\* A new entry j comes to the front, under a name n that may be another's; the
\* one it displaces was mitigated.
Enter(r, j, n) ==
  /\ book[j].status = "unopened"
  /\ front[r] # None => book[front[r]].status = "mitigated"
  /\ book' = [book EXCEPT ![j] = Entry(r, "open", n)]
  /\ front' = [front EXCEPT ![r] = j]
  /\ Writes(j)

Mitigate(r) ==
  /\ front[r] # None
  /\ book' = [book EXCEPT ![front[r]].status = "mitigated"]
  /\ Writes(front[r])
  /\ UNCHANGED front

Close(r) ==
  /\ front[r] # None
  /\ book' = [book EXCEPT ![front[r]].status = "resolved"]
  /\ front' = [front EXCEPT ![r] = None]
  /\ Writes(front[r])

\* A write that changes nothing of the entry spoils it.
Spoil(r) ==
  /\ front[r] # None
  /\ spoilt' = spoilt \cup {front[r]}
  /\ UNCHANGED <<book, front>>

\* After a crash a spoilt entry is as it was or unsettled, whichever its file
\* says; a region has one of its unsettled entries in front, whichever was read
\* last, and none at all only if every unsettled entry was spoilt or has a
\* namesake.
Recover ==
  /\ \A i \in Incident :
       \/ book'[i] = book[i]
       \/ i \in spoilt /\ \E st \in Unsettled : book'[i] = [book[i] EXCEPT !.status = st]
  /\ \A r \in Region :
       IF front'[r] = None THEN UnsettledOf(book, r) \subseteq spoilt \cup Namesakes
                           ELSE front'[r] \in UnsettledOf(book', r)
  /\ UNCHANGED spoilt

BookNext ==
  \/ \E r \in Region : Mitigate(r) \/ Close(r) \/ Spoil(r)
  \/ \E r \in Region, j, n \in Incident : Enter(r, j, n)
  \/ Recover

BookSafety == BookInit /\ [][BookNext]_bookVars
=============================================================================
