----------------------------- MODULE SREProofs -----------------------------
(***************************************************************************)
(* Theorems about SREOperations, for any regions, incidents, run slots,     *)
(* steps of a runbook, and numbers of failed saves and restarts.            *)
(***************************************************************************)
EXTENDS SREOperations, TLAPS

-----------------------------------------------------------------------------
\* Types, in three parts: the incidents, the runs, and the reports.

Object == [region : Region \cup {None},
           status : Unresolved \cup {"unopened", "resolved"},
           id : Incident \cup {None},
           escalated : BOOLEAN, reloaded : BOOLEAN, aside : BOOLEAN]

OnFile == Unresolved \cup {"resolved", "none", "torn"}

IncidentTypes ==
  /\ incident \in [Incident -> Object]
  /\ stamped \subseteq Incident
  /\ active \in [Region -> Incident \cup {None}]
  /\ known \subseteq Incident
  /\ disk \in [Incident -> OnFile]
  /\ damaged \subseteq Incident

RunTypes ==
  /\ run \in [Slot -> Run]
  /\ registered \in [Region -> Slot \cup {None}]
  /\ stepFailed \in [1 .. Steps -> BOOLEAN]
  /\ server \in {Idle} \cup [at : {"execute"}, region : Region]
  /\ restarts \in 0 .. MaxRestarts

ReportTypes ==
  /\ fsm \in [Region -> State]
  /\ inbox \in [Region -> Seq(Reported)]
  /\ lost \in Reported \cup {None}

LEMMA TypesInParts == TypeOK <=> IncidentTypes /\ RunTypes /\ ReportTypes
BY DEF TypeOK, IncidentTypes, RunTypes, ReportTypes, Object, OnFile

-----------------------------------------------------------------------------
\* The inductive invariant.

\* The active incident of a region is its own, and not resolved.
ActiveIsOwn ==
  \A r \in Region :
    active[r] # None => /\ incident[active[r]].region = r
                        /\ incident[active[r]].status \in Unresolved

\* An incident that was never opened is nowhere; any other has a region and an id.
FreshIsNowhere ==
  \A i \in Incident :
    IF incident[i].status = "unopened"
    THEN i \notin known \cup damaged /\ disk[i] = "none" /\ incident[i].id = None
    ELSE incident[i].region \in Region /\ incident[i].id \in Incident

\* What the file of an incident says is so, unless a save of it failed or the
\* file is now that of another incident with its id.
FilesAgree ==
  \A i \in Incident :
    incident[i].status # "unopened" /\ i \notin damaged =>
      disk[i] = incident[i].status \/ (disk[i] = "none" /\ SharesId(i))

\* An incident whose file says that it is unresolved is active or put aside.
FilesAreActive ==
  \A i \in Incident :
    disk[i] \in Unresolved /\ i \notin damaged =>
      active[incident[i].region] = i \/ incident[i].aside

\* An unresolved incident is known, unless a save of it failed or another has its
\* id.
UnresolvedIsKept ==
  \A i \in Incident :
    incident[i].status \in Unresolved /\ i \notin damaged => i \in known \/ SharesId(i)

IncidentInv ==
  /\ IncidentTypes /\ ActiveIsOwn /\ FreshIsNowhere
  /\ FilesAgree /\ FilesAreActive /\ UnresolvedIsKept

\* A thread at a step has a step.
StepsLeft ==
  \A k \in Slot : run[k].at \in {"execute", "judge"} => run[k].step <= Steps

RunInv == RunTypes /\ StepsLeft

\* The last report under way is of the state the region is in.
LastReport ==
  \A r \in Region :
    inbox[r] # <<>> /\ fsm[r] \in Reported => inbox[r][Len(inbox[r])] = fsm[r]

ReportInv == ReportTypes /\ LastReport

-----------------------------------------------------------------------------
\* What the incident manager does to its incidents. Every method but open that
\* changes something rewrites the active incident i of a region, which leaves
\* _active if it is now resolved.

Rewrites(r, i, new) ==
  /\ active[r] = i /\ i # None
  /\ new \in Object
  /\ new.status \in Unresolved \cup {"resolved"}
  /\ new.status \in {incident[i].status, "mitigated", "resolved"}
  /\ new.region = incident[i].region /\ new.aside = incident[i].aside
  /\ new.reloaded = incident[i].reloaded /\ new.id = incident[i].id
  /\ incident[i].escalated => new.escalated
  /\ incident' = [incident EXCEPT ![i] = new]
  /\ active' = IF new.status = "resolved" THEN [active EXCEPT ![r] = None] ELSE active
  /\ known' = known /\ stamped' = stamped
  /\ Save(i, new.id, new.status)

\* No incident is touched; a second may pass.
LeftAlone ==
  stamped' \subseteq stamped /\ UNCHANGED <<incident, active, known, disk, damaged>>

\* Incidents are opened, and resolved, on reports alone.
ManagerStep ==
  \/ LeftAlone
  \/ \E r \in Region, severe \in BOOLEAN : inbox[r] # <<>> /\ Open(r, severe)
  \/ \E r \in Region, i \in Incident, new \in Object :
       /\ Rewrites(r, i, new)
       /\ new.status = "resolved" => inbox[r] # <<>>

\* A save touches one file: it writes i, over what was there of an incident with
\* the same id, or damages it.
LEMMA SaveTouchesOne ==
  ASSUME IncidentTypes, NEW i \in Incident, NEW n \in Incident,
         NEW st \in Unresolved \cup {"resolved"}, Save(i, n, st)
  PROVE  /\ disk' \in [Incident -> OnFile] /\ damaged' \subseteq Incident
         /\ damaged \subseteq damaged' /\ damaged' \subseteq damaged \cup {i}
         /\ \A j \in Incident :
              j # i => \/ disk'[j] = disk[j]
                       \/ disk'[j] = "none" /\ incident[j].id = n
         /\ i \in damaged' \/ disk'[i] = st
<1>1. ASSUME NEW w \in OnFile
      PROVE  /\ Written(i, n, w) \in [Incident -> OnFile]
             /\ Written(i, n, w)[i] = w
             /\ \A j \in Incident :
                  j # i => Written(i, n, w)[j]
                             = IF incident[j].id = n THEN "none" ELSE disk[j]
  BY DEF Written, IncidentTypes, OnFile
<1>2. st \in OnFile /\ "torn" \in OnFile
  BY DEF OnFile
<1>3. CASE disk' = Written(i, n, st) /\ UNCHANGED damaged
  BY <1>1, <1>2, <1>3 DEF IncidentTypes
<1>4. CASE disk' \in {disk, Written(i, n, "torn")} /\ damaged' = damaged \cup {i}
  BY <1>1, <1>2, <1>4 DEF IncidentTypes
<1> QED BY <1>3, <1>4 DEF Save

\* An id is never taken back, nor shared no longer.
LEMMA SharingStays ==
  ASSUME NEW i \in Incident, SharesId(i),
         \A k \in Incident : incident[k].id # None => incident'[k].id = incident[k].id
  PROVE  SharesId(i)'
BY DEF SharesId

LEMMA ActiveTyped ==
  ASSUME IncidentInv, NEW r \in Region, active[r] # None
  PROVE  /\ active[r] \in Incident /\ incident[active[r]] \in Object
         /\ incident[active[r]].status \in Unresolved
         /\ incident[active[r]].region = r /\ incident[active[r]].id \in Incident
<1>1. /\ active[r] \in Incident /\ incident[active[r]] \in Object
      /\ incident[active[r]].status \in Unresolved /\ incident[active[r]].region = r
  BY DEF IncidentInv, IncidentTypes, ActiveIsOwn
<1> QED BY <1>1 DEF IncidentInv, FreshIsNowhere, Unresolved

LEMMA SaveActiveIsStep ==
  ASSUME IncidentInv, NEW r \in Region, SaveActive(r)
  PROVE  ManagerStep
<1>1. CASE active[r] = None
  BY <1>1 DEF SaveActive, ManagerStep, LeftAlone, incidentVars
<1>2. CASE active[r] # None
  <2> DEFINE i == active[r]
  <2>1. Rewrites(r, i, incident[i])
    BY <1>2, ActiveTyped DEF SaveActive, Rewrites, IncidentInv, IncidentTypes, Unresolved
  <2> QED BY <1>2, <2>1, ActiveTyped DEF ManagerStep, Unresolved
<1> QED BY <1>1, <1>2

LEMMA EscalateIsStep ==
  ASSUME IncidentInv, NEW r \in Region, active[r] # None, Escalate(r)
  PROVE  /\ ManagerStep
         /\ active' = active /\ incident'[active[r]].escalated
<1> DEFINE i == active[r]
           new == [incident[i] EXCEPT !.escalated = TRUE]
<1>1. /\ i \in Incident /\ incident[i] \in Object
      /\ incident[i].status \in Unresolved
  BY ActiveTyped
<1>2. /\ new \in Object /\ new.status = incident[i].status
      /\ new.region = incident[i].region /\ new.aside = incident[i].aside
      /\ new.reloaded = incident[i].reloaded /\ new.escalated
      /\ new.id = incident[i].id
  BY <1>1 DEF Object
<1>3. incident' = [incident EXCEPT ![i] = new]
  BY DEF Escalate
<1>4. Rewrites(r, i, new)
  BY <1>1, <1>2, <1>3 DEF Escalate, Rewrites, Unresolved
<1>5. incident'[i] = new
  BY <1>1, <1>3 DEF IncidentInv, IncidentTypes
<1> QED BY <1>1, <1>2, <1>4, <1>5 DEF ManagerStep, Escalate, Unresolved

LEMMA ResolveIsStep ==
  ASSUME IncidentInv, NEW r \in Region, inbox[r] # <<>>, Resolve(r)
  PROVE  ManagerStep /\ active'[r] = None
<1>1. CASE active[r] = None
  BY <1>1 DEF Resolve, ManagerStep, LeftAlone, incidentVars
<1>2. CASE active[r] # None
  <2> DEFINE i == active[r]
             new == [incident[i] EXCEPT !.status = "resolved"]
  <2>1. i \in Incident /\ incident[i] \in Object
    BY <1>2, ActiveTyped
  <2>2. /\ new \in Object /\ new.status = "resolved"
        /\ new.region = incident[i].region /\ new.aside = incident[i].aside
        /\ new.reloaded = incident[i].reloaded /\ new.escalated = incident[i].escalated
        /\ new.id = incident[i].id
    BY <2>1 DEF Object
  <2>3. incident' = [incident EXCEPT ![i] = new]
    BY <1>2 DEF Resolve
  <2>4. Rewrites(r, i, new)
    BY <1>2, <2>1, <2>2, <2>3 DEF Resolve, Rewrites
  <2>5. active'[r] = None
    BY <1>2 DEF Resolve, IncidentInv, IncidentTypes
  <2> QED BY <2>1, <2>2, <2>4, <2>5 DEF ManagerStep
<1> QED BY <1>1, <1>2

LEMMA RecordResultIsStep ==
  ASSUME IncidentInv, NEW r \in Region, NEW st, RecordResult(r, st)
  PROVE  ManagerStep
<1>1. CASE active[r] = None
  BY <1>1 DEF RecordResult, ManagerStep, LeftAlone, incidentVars
<1>2. CASE active[r] # None
  <2> DEFINE i == active[r]
             status == IF st = "success" THEN "mitigated" ELSE incident[i].status
             new == [incident[i] EXCEPT !.status = status]
  <2>1. /\ i \in Incident /\ incident[i] \in Object
        /\ incident[i].status \in Unresolved
    BY <1>2, ActiveTyped
  <2>2. status \in Unresolved /\ status \in {incident[i].status, "mitigated"}
    BY <2>1 DEF Unresolved
  <2>3. /\ new \in Object /\ new.status = status
        /\ new.region = incident[i].region /\ new.aside = incident[i].aside
        /\ new.reloaded = incident[i].reloaded /\ new.escalated = incident[i].escalated
        /\ new.id = incident[i].id
    BY <2>1, <2>2 DEF Object
  <2>4. incident' = [incident EXCEPT ![i] = new]
    BY <1>2 DEF RecordResult
  <2>5. Rewrites(r, i, new)
    BY <1>2, <2>1, <2>2, <2>3, <2>4 DEF RecordResult, Rewrites, Unresolved
  <2> QED BY <2>1, <2>2, <2>3, <2>5 DEF ManagerStep, Unresolved
<1> QED BY <1>1, <1>2

\* open makes a fresh incident the active one, and puts its predecessor aside; an
\* incident with the same id leaves _all.
LEMMA OpenMakesOne ==
  ASSUME IncidentInv, NEW r \in Region, NEW severe \in BOOLEAN, Open(r, severe)
  PROVE  \E j \in Fresh, n \in Incident :
           /\ j \in Incident /\ j \notin known \cup damaged /\ Save(j, n, "open")
           /\ incident[j].id = None
           /\ incident' \in [Incident -> Object]
           /\ incident'[j] = New(r, "open", n, severe)
           /\ \A i \in Incident :
                i # j => /\ incident'[i].status = incident[i].status
                         /\ incident'[i].region = incident[i].region
                         /\ incident'[i].id = incident[i].id
                         /\ incident'[i].reloaded = incident[i].reloaded
                         /\ incident'[i].escalated = incident[i].escalated
                         /\ incident'[i].aside = (incident[i].aside \/ i = active[r])
           /\ active' = [active EXCEPT ![r] = j]
           /\ known' = {i \in known : incident[i].id # n} \cup {j}
           /\ stamped' \subseteq Incident
<1>0. PICK j \in Fresh : \E n \in Ids(r, j) : Becomes(r, j, n, severe) /\ Save(j, n, "open")
  BY DEF Open
<1>1. PICK n \in Ids(r, j) : Becomes(r, j, n, severe) /\ Save(j, n, "open")
  BY <1>0
<1>2. j \in Incident /\ incident[j].status = "unopened"
  BY <1>1 DEF Fresh
<1>n. n \in Incident /\ stamped' \subseteq Incident
  BY <1>1, <1>2 DEF Ids, Becomes, IncidentInv, IncidentTypes
<1>3. j \notin known \cup damaged /\ incident[j].id = None
  BY <1>2 DEF IncidentInv, FreshIsNowhere
<1>4. New(r, "open", n, severe) \in Object
  BY <1>n DEF New, Object, Unresolved
<1> DEFINE put(i) == [incident[i] EXCEPT !.aside = TRUE]
<1>5. ASSUME NEW i \in Incident
      PROVE  /\ put(i) \in Object /\ put(i).status = incident[i].status
             /\ put(i).region = incident[i].region /\ put(i).reloaded = incident[i].reloaded
             /\ put(i).escalated = incident[i].escalated /\ put(i).aside
             /\ put(i).id = incident[i].id
  BY DEF IncidentInv, IncidentTypes, Object
<1>6. incident' = [i \in Incident |-> IF i = j THEN New(r, "open", n, severe)
                                      ELSE IF i = active[r] THEN put(i) ELSE incident[i]]
  <2> DEFINE becomes(i) == CASE i = j -> New(r, "open", n, severe)
                             [] i = active[r] -> put(i)
                             [] OTHER -> incident[i]
  <2>1. incident' = [i \in Incident |-> becomes(i)]
    BY <1>1 DEF Becomes
  <2> HIDE DEF put
  <2>2. ASSUME NEW i \in Incident
        PROVE  becomes(i) = IF i = j THEN New(r, "open", n, severe)
                            ELSE IF i = active[r] THEN put(i) ELSE incident[i]
    <3>1. j # active[r]
      BY <1>2, ActiveTyped, SREAssumption DEF Unresolved
    <3> QED BY <3>1
  <2> QED BY <2>1, <2>2
<1>7. incident' \in [Incident -> Object]
  BY <1>4, <1>5, <1>6 DEF IncidentInv, IncidentTypes
<1>8. \A i \in Incident :
        i # j => /\ incident'[i].status = incident[i].status
                 /\ incident'[i].region = incident[i].region
                 /\ incident'[i].id = incident[i].id
                 /\ incident'[i].reloaded = incident[i].reloaded
                 /\ incident'[i].escalated = incident[i].escalated
                 /\ incident'[i].aside = (incident[i].aside \/ i = active[r])
  <2> SUFFICES ASSUME NEW i \in Incident, i # j
               PROVE  /\ incident'[i].status = incident[i].status
                      /\ incident'[i].region = incident[i].region
                      /\ incident'[i].id = incident[i].id
                      /\ incident'[i].reloaded = incident[i].reloaded
                      /\ incident'[i].escalated = incident[i].escalated
                      /\ incident'[i].aside = (incident[i].aside \/ i = active[r])
    OBVIOUS
  <2>1. incident'[i] = IF i = active[r] THEN put(i) ELSE incident[i]
    BY <1>6
  <2>2. incident[i].aside \in BOOLEAN
    BY DEF IncidentInv, IncidentTypes, Object
  <2>3. CASE i = active[r]
    BY <1>5, <2>1, <2>2, <2>3
  <2>4. CASE i # active[r]
    BY <2>1, <2>2, <2>4
  <2> QED BY <2>3, <2>4
<1> HIDE DEF put
<1>9. incident'[j] = New(r, "open", n, severe)
  BY <1>2, <1>6
<1> QED BY <1>1, <1>2, <1>3, <1>n, <1>7, <1>8, <1>9 DEF Becomes

LEMMA OpenKeeps ==
  ASSUME IncidentInv, NEW r \in Region, NEW severe \in BOOLEAN, Open(r, severe)
  PROVE  IncidentInv'
<1>1. PICK j \in Fresh, n \in Incident :
        /\ j \in Incident /\ j \notin known \cup damaged /\ Save(j, n, "open")
        /\ incident[j].id = None
        /\ incident' \in [Incident -> Object]
        /\ incident'[j] = New(r, "open", n, severe)
        /\ \A i \in Incident :
             i # j => /\ incident'[i].status = incident[i].status
                      /\ incident'[i].region = incident[i].region
                      /\ incident'[i].id = incident[i].id
                      /\ incident'[i].reloaded = incident[i].reloaded
                      /\ incident'[i].escalated = incident[i].escalated
                      /\ incident'[i].aside = (incident[i].aside \/ i = active[r])
        /\ active' = [active EXCEPT ![r] = j]
        /\ known' = {i \in known : incident[i].id # n} \cup {j}
        /\ stamped' \subseteq Incident
  BY OpenMakesOne
<1>2. /\ incident'[j].status = "open" /\ incident'[j].region = r /\ incident'[j].id = n
      /\ j # None /\ n # None /\ "open" \in Unresolved
  BY <1>1, SREAssumption DEF New, Unresolved
<1>3. /\ disk' \in [Incident -> OnFile] /\ damaged' \subseteq Incident
      /\ damaged \subseteq damaged' /\ damaged' \subseteq damaged \cup {j}
      /\ \A i \in Incident :
           i # j => disk'[i] = disk[i] \/ (disk'[i] = "none" /\ incident[i].id = n)
      /\ j \in damaged' \/ disk'[j] = "open"
  BY <1>1, <1>2, SaveTouchesOne DEF IncidentInv
<1>4. IncidentTypes'
  BY <1>1, <1>3 DEF IncidentInv, IncidentTypes
<1>5. \A q \in Region : active'[q] = IF q = r THEN j ELSE active[q]
  BY <1>1 DEF IncidentInv, IncidentTypes
<1>a. \A i \in Incident : SharesId(i) => SharesId(i)'
  <2>1. \A k \in Incident : incident[k].id # None => incident'[k].id = incident[k].id
    BY <1>1
  <2> QED BY <2>1, SharingStays
<1>b. \A i \in Incident : i # j /\ incident[i].id = n => SharesId(i)'
  <2> SUFFICES ASSUME NEW i \in Incident, i # j, incident[i].id = n
               PROVE  SharesId(i)'
    OBVIOUS
  <2>1. incident'[i].id = n /\ incident'[j].id = n /\ j \in Incident \ {i}
    BY <1>1, <1>2
  <2> QED BY <1>2, <2>1 DEF SharesId
<1>6. ActiveIsOwn'
  <2> SUFFICES ASSUME NEW q \in Region, active'[q] # None
               PROVE  /\ incident'[active'[q]].region = q
                      /\ incident'[active'[q]].status \in Unresolved
    BY DEF ActiveIsOwn
  <2>1. CASE q = r
    BY <1>1, <1>2, <1>5, <2>1
  <2>2. CASE q # r
    <3>1. /\ active[q] \in Incident /\ incident[active[q]].region = q
          /\ incident[active[q]].status \in Unresolved /\ incident[active[q]].id \in Incident
      BY <1>5, <2>2, ActiveTyped
    <3>2. active[q] # j
      BY <1>1, <3>1, SREAssumption
    <3> QED BY <1>1, <1>5, <2>2, <3>1, <3>2
  <2> QED BY <2>1, <2>2
<1>7. FreshIsNowhere'
  <2> SUFFICES ASSUME NEW i \in Incident
               PROVE  IF incident'[i].status = "unopened"
                      THEN i \notin known' \cup damaged' /\ disk'[i] = "none" /\ incident'[i].id = None
                      ELSE incident'[i].region \in Region /\ incident'[i].id \in Incident
    BY DEF FreshIsNowhere
  <2>1. CASE i = j
    BY <1>2, <2>1
  <2>2. CASE i # j
    BY <1>1, <1>3, <2>2 DEF IncidentInv, FreshIsNowhere
  <2> QED BY <2>1, <2>2
<1>8. FilesAgree'
  <2> SUFFICES ASSUME NEW i \in Incident, incident'[i].status # "unopened", i \notin damaged'
               PROVE  disk'[i] = incident'[i].status \/ (disk'[i] = "none" /\ SharesId(i)')
    BY DEF FilesAgree
  <2>1. CASE i = j
    BY <1>2, <1>3, <2>1
  <2>2. CASE i # j
    <3>1. disk[i] = incident[i].status \/ (disk[i] = "none" /\ SharesId(i))
      BY <1>1, <1>3, <2>2 DEF IncidentInv, FilesAgree
    <3> QED BY <1>1, <1>3, <1>a, <1>b, <2>2, <3>1
  <2> QED BY <2>1, <2>2
<1>9. FilesAreActive'
  <2> SUFFICES ASSUME NEW i \in Incident, disk'[i] \in Unresolved, i \notin damaged'
               PROVE  active'[incident'[i].region] = i \/ incident'[i].aside
    BY DEF FilesAreActive
  <2>1. CASE i = j
    BY <1>2, <1>5, <2>1
  <2>2. CASE i # j
    <3>1. disk[i] \in Unresolved
      BY <1>3, <2>2 DEF Unresolved
    <3>2. active[incident[i].region] = i \/ incident[i].aside
      BY <1>3, <3>1 DEF IncidentInv, FilesAreActive
    <3>3. incident[i].region \in Region
      BY <3>1 DEF IncidentInv, FreshIsNowhere, Unresolved
    <3> QED BY <1>1, <1>5, <2>2, <3>2, <3>3
  <2> QED BY <2>1, <2>2
<1>10. UnresolvedIsKept'
  <2> SUFFICES ASSUME NEW i \in Incident, incident'[i].status \in Unresolved,
                      i \notin damaged'
               PROVE  i \in known' \/ SharesId(i)'
    BY DEF UnresolvedIsKept
  <2>1. CASE i = j
    BY <1>1, <2>1
  <2>2. CASE i # j
    <3>1. i \in known \/ SharesId(i)
      BY <1>1, <1>3, <2>2 DEF IncidentInv, UnresolvedIsKept
    <3> QED BY <1>1, <1>a, <1>b, <2>2, <3>1
  <2> QED BY <2>1, <2>2
<1> QED BY <1>4, <1>6, <1>7, <1>8, <1>9, <1>10 DEF IncidentInv

LEMMA RewriteKeeps ==
  ASSUME IncidentInv, NEW r \in Region, NEW i \in Incident, NEW new \in Object,
         Rewrites(r, i, new)
  PROVE  IncidentInv'
<1>1. /\ i = active[r] /\ i # None /\ incident[i].region = r
      /\ incident[i].status \in Unresolved /\ incident[i].id \in Incident
  BY ActiveTyped DEF Rewrites
<1>2. /\ new.status \in Unresolved \cup {"resolved"} /\ new.id = incident[i].id
      /\ new.region = r /\ new.aside = incident[i].aside
      /\ incident' = [incident EXCEPT ![i] = new] /\ known' = known /\ stamped' = stamped
      /\ active' = IF new.status = "resolved" THEN [active EXCEPT ![r] = None] ELSE active
      /\ Save(i, incident[i].id, new.status)
  BY <1>1 DEF Rewrites
<1>3. /\ disk' \in [Incident -> OnFile] /\ damaged' \subseteq Incident
      /\ damaged \subseteq damaged' /\ damaged' \subseteq damaged \cup {i}
      /\ \A j \in Incident :
           j # i => \/ disk'[j] = disk[j]
                    \/ disk'[j] = "none" /\ incident[j].id = incident[i].id
      /\ i \in damaged' \/ disk'[i] = new.status
  BY <1>1, <1>2, SaveTouchesOne DEF IncidentInv
<1>4. /\ incident' \in [Incident -> Object] /\ incident'[i] = new
      /\ \A j \in Incident : j # i => incident'[j] = incident[j]
  BY <1>2 DEF IncidentInv, IncidentTypes
<1>5. /\ active' \in [Region -> Incident \cup {None}]
      /\ \A q \in Region : q # r => active'[q] = active[q]
      /\ active'[r] = IF new.status = "resolved" THEN None ELSE i
  BY <1>1, <1>2 DEF IncidentInv, IncidentTypes
<1>6. IncidentTypes'
  BY <1>2, <1>3, <1>4, <1>5 DEF IncidentInv, IncidentTypes
<1>a. \A j \in Incident : SharesId(j) => SharesId(j)'
  <2>1. \A k \in Incident : incident'[k].id = incident[k].id
    BY <1>2, <1>4
  <2> QED BY <2>1, SharingStays
<1>b. \A j \in Incident : j # i /\ incident[j].id = incident[i].id => SharesId(j)
  BY <1>1, SREAssumption DEF SharesId
<1>7. ActiveIsOwn'
  <2> SUFFICES ASSUME NEW q \in Region, active'[q] # None
               PROVE  /\ incident'[active'[q]].region = q
                      /\ incident'[active'[q]].status \in Unresolved
    BY DEF ActiveIsOwn
  <2>1. CASE q = r
    BY <1>1, <1>2, <1>4, <1>5, <2>1
  <2>2. CASE q # r
    <3>1. active[q] # None /\ incident[active[q]].region = q /\ active[q] \in Incident
      BY <1>5, <2>2 DEF IncidentInv, ActiveIsOwn, IncidentTypes
    <3>2. active[q] # i
      BY <1>1, <2>2, <3>1
    <3> QED BY <1>2, <1>4, <1>5, <2>2, <3>1, <3>2 DEF IncidentInv, ActiveIsOwn
  <2> QED BY <2>1, <2>2
<1>8. FreshIsNowhere'
  <2> SUFFICES ASSUME NEW j \in Incident
               PROVE  IF incident'[j].status = "unopened"
                      THEN j \notin known' \cup damaged' /\ disk'[j] = "none" /\ incident'[j].id = None
                      ELSE incident'[j].region \in Region /\ incident'[j].id \in Incident
    BY DEF FreshIsNowhere
  <2>1. CASE j = i
    BY <1>1, <1>2, <1>4, <2>1 DEF Unresolved
  <2>2. CASE j # i
    BY <1>2, <1>3, <1>4, <2>2 DEF IncidentInv, FreshIsNowhere
  <2> QED BY <2>1, <2>2
<1>9. FilesAgree'
  <2> SUFFICES ASSUME NEW j \in Incident, incident'[j].status # "unopened", j \notin damaged'
               PROVE  disk'[j] = incident'[j].status \/ (disk'[j] = "none" /\ SharesId(j)')
    BY DEF FilesAgree
  <2>1. CASE j = i
    BY <1>3, <1>4, <2>1
  <2>2. CASE j # i
    <3>1. disk[j] = incident[j].status \/ (disk[j] = "none" /\ SharesId(j))
      BY <1>3, <1>4, <2>2 DEF IncidentInv, FilesAgree
    <3> QED BY <1>3, <1>4, <1>a, <1>b, <2>2, <3>1
  <2> QED BY <2>1, <2>2
<1>10. FilesAreActive'
  <2> SUFFICES ASSUME NEW j \in Incident, disk'[j] \in Unresolved, j \notin damaged'
               PROVE  active'[incident'[j].region] = j \/ incident'[j].aside
    BY DEF FilesAreActive
  <2>1. CASE j = i
    BY <1>2, <1>3, <1>4, <1>5, <2>1 DEF Unresolved
  <2>2. CASE j # i
    <3>1. disk[j] \in Unresolved
      BY <1>3, <2>2 DEF Unresolved
    <3>2. active[incident[j].region] = j \/ incident[j].aside
      BY <1>3, <3>1 DEF IncidentInv, FilesAreActive
    <3>3. incident[j].region \in Region
      BY <3>1 DEF IncidentInv, FreshIsNowhere, Unresolved
    <3> QED BY <1>1, <1>4, <1>5, <2>2, <3>2, <3>3
  <2> QED BY <2>1, <2>2
<1>11. UnresolvedIsKept'
  <2> SUFFICES ASSUME NEW j \in Incident, incident'[j].status \in Unresolved,
                      j \notin damaged'
               PROVE  j \in known' \/ SharesId(j)'
    BY DEF UnresolvedIsKept
  <2>1. incident[j].status \in Unresolved /\ j \notin damaged
    BY <1>1, <1>3, <1>4
  <2>2. j \in known \/ SharesId(j)
    BY <2>1 DEF IncidentInv, UnresolvedIsKept
  <2> QED BY <1>2, <1>a, <2>2
<1> QED BY <1>6, <1>7, <1>8, <1>9, <1>10, <1>11 DEF IncidentInv

\* A restart reads the unresolved incidents back from their files.
LEMMA RestartReads ==
  ASSUME IncidentInv, Restart
  PROVE  LET Loaded == {i \in Incident : disk[i] \in Unresolved} IN
         /\ incident' \in [Incident -> Object]
         /\ \A i \in Incident \ Loaded : incident'[i] = incident[i]
         /\ \A i \in Loaded :
              /\ incident'[i].status = disk[i] /\ incident'[i].region = incident[i].region
              /\ incident'[i].reloaded /\ incident'[i].id = incident[i].id
              /\ incident'[i].aside
                   = (incident[i].aside \/ i # active'[incident[i].region])
         /\ active' \in [Region -> Loaded \cup {None}]
         /\ \A r \in Region :
              /\ active'[r] # None => incident[active'[r]].region = r
              /\ active'[r] = None => \A i \in Loaded : incident[i].region # r
         /\ known' = Loaded /\ UNCHANGED <<stamped, disk, damaged>>
<1> DEFINE Loaded == {i \in Incident : disk[i] \in Unresolved}
           Of(r) == {i \in Loaded : incident[i].region = r}
           read(i) == [incident[i] EXCEPT !.status = disk[i], !.escalated = FALSE,
                         !.reloaded = TRUE,
                         !.aside = @ \/ i # active'[incident[i].region]]
<1>1. /\ known' = Loaded /\ UNCHANGED <<stamped, disk, damaged>>
      /\ active' \in {a \in [Region -> Loaded \cup {None}] :
                        \A r \in Region : IF Of(r) = {} THEN a[r] = None ELSE a[r] \in Of(r)}
      /\ incident' = [i \in Incident |-> IF i \notin Loaded THEN incident[i] ELSE read(i)]
  BY DEF Restart
<1>2. ASSUME NEW i \in Loaded
      PROVE  /\ read(i) \in Object
             /\ read(i).status = disk[i] /\ read(i).region = incident[i].region
             /\ read(i).reloaded /\ read(i).id = incident[i].id
             /\ read(i).aside = (incident[i].aside \/ i # active'[incident[i].region])
  <2>1. incident[i] \in Object /\ disk[i] \in Unresolved
    BY DEF IncidentInv, IncidentTypes
  <2> QED BY <2>1 DEF Object
<1> HIDE DEF read
<1>3. incident' \in [Incident -> Object]
  BY <1>1, <1>2 DEF IncidentInv, IncidentTypes
<1>4. \A i \in Incident \ Loaded : incident'[i] = incident[i]
  BY <1>1
<1>5. \A i \in Loaded : incident'[i] = read(i)
  BY <1>1
<1>6. ASSUME NEW r \in Region
      PROVE  /\ active'[r] # None => incident[active'[r]].region = r
             /\ active'[r] = None => \A i \in Loaded : incident[i].region # r
  <2>1. IF Of(r) = {} THEN active'[r] = None ELSE active'[r] \in Of(r)
    BY <1>1
  <2> QED BY <2>1, SREAssumption
<1> QED BY <1>1, <1>2, <1>3, <1>4, <1>5, <1>6

LEMMA RestartKeeps ==
  ASSUME IncidentInv, Restart
  PROVE  IncidentInv'
<1> DEFINE Loaded == {i \in Incident : disk[i] \in Unresolved}
<1>1. /\ incident' \in [Incident -> Object]
      /\ \A i \in Incident \ Loaded : incident'[i] = incident[i]
      /\ \A i \in Loaded :
           /\ incident'[i].status = disk[i] /\ incident'[i].region = incident[i].region
           /\ incident'[i].id = incident[i].id
           /\ incident'[i].aside = (incident[i].aside \/ i # active'[incident[i].region])
      /\ active' \in [Region -> Loaded \cup {None}]
      /\ \A r \in Region : active'[r] # None => incident[active'[r]].region = r
      /\ known' = Loaded /\ UNCHANGED <<stamped, disk, damaged>>
  BY RestartReads
<1>2. \A i \in Loaded : incident[i].region \in Region /\ incident[i].status # "unopened"
  BY DEF IncidentInv, FreshIsNowhere, Unresolved
<1>3. IncidentTypes'
  BY <1>1 DEF IncidentInv, IncidentTypes
<1>4. ActiveIsOwn'
  BY <1>1 DEF ActiveIsOwn
<1>5. FreshIsNowhere'
  BY <1>1, <1>2 DEF IncidentInv, FreshIsNowhere, Unresolved
<1>a. \A i \in Incident : SharesId(i) => SharesId(i)'
  <2>1. \A k \in Incident : incident'[k].id = incident[k].id
    BY <1>1
  <2> QED BY <2>1, SharingStays
<1>6. FilesAgree'
  <2> SUFFICES ASSUME NEW i \in Incident, incident'[i].status # "unopened", i \notin damaged'
               PROVE  disk'[i] = incident'[i].status \/ (disk'[i] = "none" /\ SharesId(i)')
    BY DEF FilesAgree
  <2>1. CASE i \in Loaded
    BY <1>1, <2>1
  <2>2. CASE i \notin Loaded
    BY <1>1, <1>a, <2>2 DEF IncidentInv, FilesAgree
  <2> QED BY <2>1, <2>2
<1>7. FilesAreActive'
  <2> SUFFICES ASSUME NEW i \in Loaded
               PROVE  active'[incident'[i].region] = i \/ incident'[i].aside
    BY <1>1 DEF FilesAreActive
  <2> QED BY <1>1
<1>8. UnresolvedIsKept'
  <2> SUFFICES ASSUME NEW i \in Incident, incident'[i].status \in Unresolved,
                      i \notin damaged', i \notin Loaded
               PROVE  SharesId(i)'
    BY <1>1 DEF UnresolvedIsKept
  <2>1. SharesId(i)
    BY <1>1 DEF IncidentInv, FilesAgree, Unresolved
  <2> QED BY <1>a, <2>1
<1> QED BY <1>3, <1>4, <1>5, <1>6, <1>7, <1>8 DEF IncidentInv

-----------------------------------------------------------------------------
\* The places of a run's thread.

LEMMA RunAtPlace ==
  ASSUME RunTypes, NEW k \in Slot, NEW place \in Place, At(k, place)
  PROVE  /\ run[k].region \in Region /\ run[k].step \in 1 .. Steps + 1
         /\ run[k].late \in BOOLEAN /\ run[k].again \in BOOLEAN
         /\ run[k].status \in {"running", "success", "failed", "timeout"}
         /\ run[k] \in [at : Place, region : Region, step : 1 .. Steps + 1,
                        status : {"running", "success", "failed", "timeout"},
                        late : BOOLEAN, again : BOOLEAN]
         /\ run[k] # Idle
<1>1. run[k].at = place /\ run[k] \in Run
  BY DEF At, RunTypes
<1>2. run[k] # Idle
  BY <1>1 DEF Idle, Place
<1> QED BY <1>1, <1>2 DEF Run

\* What a step does to the incidents, the manager does in one of its methods, or
\* it is a restart.
LEMMA StepsOfTheManager ==
  ASSUME IncidentInv, RunTypes, [Next]_vars
  PROVE  ManagerStep \/ Restart
<1>u. ASSUME UNCHANGED incidentVars PROVE ManagerStep
  BY <1>u DEF ManagerStep, LeftAlone, incidentVars
<1>h. ASSUME NEW r \in Region, inbox[r] # <<>>, NEW report, Handle(r, report)
      PROVE  ManagerStep
  <2>1. CASE Degraded(r)
    <3>1. CASE Open(r, FALSE)
      BY <1>h, <3>1 DEF ManagerStep
    <3> QED BY <1>u, <2>1, <3>1 DEF Degraded
  <2>2. CASE Failed(r)
    <3>1. CASE Open(r, TRUE)
      BY <1>h, <3>1 DEF ManagerStep
    <3> QED BY <2>2, <3>1, EscalateIsStep DEF Failed
  <2>3. CASE Healthy(r)
    BY <1>h, <2>3, ResolveIsStep DEF Healthy
  <2> QED BY <1>h, <2>1, <2>2, <2>3 DEF Handle
<1>1. ASSUME NEW r \in Region, FSMMoves(r) \/ Lose(r) PROVE ManagerStep
  BY <1>1, <1>u DEF FSMMoves, Lose
<1>2. ASSUME NEW r \in Region, Deliver(r) \/ DeliverTwice(r) PROVE ManagerStep
  BY <1>2, <1>h DEF Deliver, DeliverTwice
<1>3. CASE Execute \/ SecondPasses
  BY <1>3, <1>u DEF Execute, SecondPasses, ManagerStep, LeftAlone
<1>4. ASSUME NEW i \in Incident, SREResolve(i) PROVE ManagerStep
  BY <1>4, <1>u DEF SREResolve
<1>5. ASSUME NEW i \in Incident, Acknowledge(i) PROVE ManagerStep
  <2>1. incident[i].region \in Region
    BY <1>5 DEF Acknowledge, IncidentInv, FreshIsNowhere
  <2> QED BY <1>5, <2>1, SaveActiveIsStep DEF Acknowledge
<1>6. ASSUME NEW k \in Slot, Thread(k) PROVE ManagerStep
  <2>1. CASE Start(k)
    BY <1>u, <2>1, RunAtPlace, SaveActiveIsStep DEF Start, Place
  <2>2. CASE Top(k) \/ ExecuteStep(k) \/ Notify(k) \/ Pop(k)
    BY <1>u, <2>2 DEF Top, ExecuteStep, Notify, Pop
  <2>3. CASE Judge(k)
    BY <2>3, RunAtPlace, SaveActiveIsStep DEF Judge, Place
  <2>4. CASE Record(k)
    BY <2>4, RunAtPlace, RecordResultIsStep DEF Record, Place
  <2> QED BY <1>6, <2>1, <2>2, <2>3, <2>4 DEF Thread
<1>7. CASE UNCHANGED vars
  BY <1>7, <1>u DEF vars, incidentVars
<1> QED BY <1>1, <1>2, <1>3, <1>4, <1>5, <1>6, <1>7 DEF Next, Endpoints

LEMMA IncidentStep ==
  ASSUME IncidentInv, RunTypes, [Next]_vars
  PROVE  IncidentInv'
<1>1. CASE LeftAlone
  BY <1>1 DEF LeftAlone, IncidentInv, IncidentTypes, ActiveIsOwn, FreshIsNowhere,
              FilesAgree, FilesAreActive, UnresolvedIsKept, SharesId
<1> QED BY <1>1, StepsOfTheManager, OpenKeeps, RewriteKeeps, RestartKeeps DEF ManagerStep

-----------------------------------------------------------------------------
\* The runs.

\* The run of one slot becomes new.
LEMMA RunBecomes ==
  ASSUME RunInv, NEW k \in Slot, NEW new \in Run,
         new.at \in {"execute", "judge"} => new.step <= Steps,
         run' = [run EXCEPT ![k] = new]
  PROVE  run' \in [Slot -> Run] /\ StepsLeft'
BY DEF RunInv, RunTypes, StepsLeft

\* The run in slot k is under way.
Pending(k) ==
  run[k] \in [at : Place, region : Region, step : 1 .. Steps + 1,
              status : {"running", "success", "failed", "timeout"},
              late : BOOLEAN, again : BOOLEAN]

LEMMA RunGoes ==
  ASSUME RunInv, NEW k \in Slot, Pending(k), NEW place \in Place, Goes(k, place),
         place \in {"execute", "judge"} => run[k].step <= Steps
  PROVE  run' \in [Slot -> Run] /\ StepsLeft'
<1> DEFINE new == [run[k] EXCEPT !.at = place]
<1>1. new \in Run /\ new.at = place /\ new.step = run[k].step
  BY DEF Pending, Run
<1>2. run' = [run EXCEPT ![k] = new]
  BY DEF Goes
<1> HIDE DEF new
<1> QED BY <1>1, <1>2, RunBecomes

LEMMA RunFinishes ==
  ASSUME RunInv, NEW k \in Slot, Pending(k), NEW again \in BOOLEAN,
         NEW st \in {"running", "success", "failed", "timeout"}, Finishes(k, st, again)
  PROVE  run' \in [Slot -> Run] /\ StepsLeft'
<1> DEFINE new == [run[k] EXCEPT !.at = "record", !.status = st, !.again = again]
<1>1. new \in Run /\ new.at = "record"
  BY DEF Pending, Run, Place
<1>2. run' = [run EXCEPT ![k] = new]
  BY DEF Finishes
<1> HIDE DEF new
<1> QED BY <1>1, <1>2, RunBecomes

LEMMA ThreadKeepsRuns ==
  ASSUME RunInv, NEW k \in Slot, Thread(k)
  PROVE  RunInv'
<1> USE DEF Place
<1>p. ASSUME NEW place \in Place, At(k, place)
      PROVE  /\ Pending(k) /\ run[k].region \in Region /\ run[k].at = place
             /\ run[k].status \in {"running", "success", "failed", "timeout"}
  BY <1>p, RunAtPlace DEF Pending, RunInv, At
<1>r. ASSUME run' \in [Slot -> Run] /\ StepsLeft',
             registered' \in [Region -> Slot \cup {None}],
             stepFailed' \in [1 .. Steps -> BOOLEAN], server' = server, restarts' = restarts
      PROVE  RunInv'
  BY <1>r DEF RunInv, RunTypes
<1>s. /\ registered \in [Region -> Slot \cup {None}]
      /\ stepFailed \in [1 .. Steps -> BOOLEAN]
  BY DEF RunInv, RunTypes
<1>1. CASE Start(k)
  <2>1. Pending(k) /\ run[k].region \in Region
    BY <1>1, <1>p DEF Start
  <2>2. run' \in [Slot -> Run] /\ StepsLeft'
    BY <1>1, <2>1, RunGoes, RunFinishes DEF Start
  <2> QED BY <1>1, <1>r, <1>s, <2>2 DEF Start, faultVars
<1>2. CASE Top(k)
  <2>1. Pending(k) /\ run[k].step \in 1 .. Steps + 1
    BY <1>2, <1>p DEF Top, Pending
  <2>2. run' \in [Slot -> Run] /\ StepsLeft'
    BY <1>2, <2>1, RunGoes, RunFinishes DEF Top
  <2>3. stepFailed' \in [1 .. Steps -> BOOLEAN]
    BY <1>2, <1>s DEF Top
  <2> QED BY <1>2, <1>r, <1>s, <2>2, <2>3 DEF Top, faultVars
<1>3. CASE ExecuteStep(k)
  <2>1. Pending(k) /\ run[k].step <= Steps
    BY <1>3, <1>p DEF ExecuteStep, RunInv, StepsLeft
  <2>2. PICK outcome \in {"success", "failed", "timeout"} :
          /\ stepFailed' = [stepFailed EXCEPT ![run[k].step] = (outcome = "failed")]
          /\ run' = [run EXCEPT ![k].at = "judge", ![k].late = (outcome = "timeout")]
    BY <1>3 DEF ExecuteStep
  <2> DEFINE new == [run[k] EXCEPT !.at = "judge", !.late = (outcome = "timeout")]
  <2>3. new \in Run /\ new.at = "judge" /\ new.step = run[k].step
    BY <2>1 DEF Pending, Run
  <2>4. run' = [run EXCEPT ![k] = new]
    BY <2>2
  <2>5. run' \in [Slot -> Run] /\ StepsLeft'
    <3> HIDE DEF new
    <3> QED BY <2>1, <2>3, <2>4, RunBecomes
  <2>6. stepFailed' \in [1 .. Steps -> BOOLEAN]
    BY <1>s, <2>2
  <2> QED BY <1>3, <1>r, <1>s, <2>5, <2>6 DEF ExecuteStep, faultVars
<1>4. CASE Judge(k)
  <2>1. Pending(k) /\ run[k].step <= Steps /\ run[k].step \in 1 .. Steps + 1
    BY <1>4, <1>p DEF Judge, RunInv, StepsLeft, Pending
  <2>2. CASE stepFailed[run[k].step]
    <3>1. run' \in [Slot -> Run] /\ StepsLeft'
      BY <1>4, <2>1, <2>2, RunFinishes DEF Judge
    <3> QED BY <1>4, <1>r, <1>s, <3>1 DEF Judge, faultVars
  <2>3. CASE ~ stepFailed[run[k].step]
    <3> DEFINE next == run[k].step + 1
               new == [run[k] EXCEPT !.at = "top", !.step = next]
    <3>0. next \in 1 .. Steps + 1
      BY <2>1, SREAssumption
    <3>1. new \in Run /\ new.at = "top"
      <4> HIDE DEF next
      <4> QED BY <2>1, <3>0 DEF Pending, Run
    <3>2. run' = [run EXCEPT ![k] = new]
      BY <1>4, <2>3 DEF Judge
    <3>3. run' \in [Slot -> Run] /\ StepsLeft'
      <4> HIDE DEF new
      <4> QED BY <3>1, <3>2, RunBecomes
    <3> QED BY <1>4, <1>r, <1>s, <3>3 DEF Judge, faultVars
  <2> QED BY <2>2, <2>3
<1>5. CASE Record(k) \/ Notify(k)
  <2>1. Pending(k) /\ (Goes(k, "notify") \/ Goes(k, "pop"))
    BY <1>5, <1>p DEF Record, Notify
  <2>2. run' \in [Slot -> Run] /\ StepsLeft'
    BY <2>1, RunGoes
  <2> QED BY <1>5, <1>r, <1>s, <2>2 DEF Record, Notify, faultVars
<1>6. CASE Pop(k)
  <2>1. /\ Pending(k) /\ run[k].region \in Region
        /\ run[k].status \in {"running", "success", "failed", "timeout"}
    BY <1>6, <1>p DEF Pop
  <2>2. Idle \in Run /\ Idle.at = "idle"
    BY DEF Idle, Run
  <2>3. Finishes(k, run[k].status, FALSE) \/ run' = [run EXCEPT ![k] = Idle]
    BY <1>6 DEF Pop
  <2>4. run' \in [Slot -> Run] /\ StepsLeft'
    BY <2>1, <2>2, <2>3, RunFinishes, RunBecomes
  <2>5. registered' \in [Region -> Slot \cup {None}]
    BY <1>6, <1>s DEF Pop
  <2> QED BY <1>6, <1>r, <1>s, <2>4, <2>5 DEF Pop, faultVars
<1> QED BY <1>1, <1>2, <1>3, <1>4, <1>5, <1>6 DEF Thread

LEMMA RunStep ==
  ASSUME RunInv, [Next]_vars
  PROVE  RunInv'
<1>u. ASSUME UNCHANGED <<runVars, restarts>>,
             server' \in {Idle} \cup [at : {"execute"}, region : Region]
      PROVE  RunInv'
  BY <1>u DEF runVars, RunInv, RunTypes, StepsLeft
<1>s. server \in {Idle} \cup [at : {"execute"}, region : Region]
  BY DEF RunInv, RunTypes
<1>1. ASSUME NEW r \in Region, FSMMoves(r) \/ Lose(r) PROVE RunInv'
  BY <1>1, <1>s, <1>u DEF FSMMoves, Lose, faultVars
<1>t. ASSUME SecondPasses PROVE RunInv'
  BY <1>t, <1>s, <1>u DEF SecondPasses, faultVars
<1>2. ASSUME NEW r \in Region, Deliver(r) \/ DeliverTwice(r) PROVE RunInv'
  <2>1. PICK report : Handle(r, report)
    BY <1>2 DEF Deliver, DeliverTwice
  <2>2. server' \in {Idle} \cup [at : {"execute"}, region : Region]
    <3>1. server' = server \/ server' = [at |-> "execute", region |-> r]
      BY <2>1 DEF Handle, Degraded, Failed, Healthy
    <3> QED BY <1>s, <3>1
  <2> QED BY <1>u, <2>1, <2>2 DEF Handle, faultVars
<1>3. CASE Execute
  <2>1. server.region \in Region /\ server' = Idle /\ restarts' = restarts
    BY <1>3, <1>s DEF Execute, Idle, faultVars
  <2>2. CASE UNCHANGED runVars
    BY <1>u, <2>1, <2>2
  <2>3. ASSUME NEW j \in Slot,
               run' = [run EXCEPT ![j] = Started(server.region)],
               registered' = [registered EXCEPT ![server.region] = j],
               stepFailed' = stepFailed
        PROVE  RunInv'
    <3>1. Started(server.region) \in Run /\ Started(server.region).at = "start"
      BY <2>1, SREAssumption DEF Started, Run, Place
    <3>2. run' \in [Slot -> Run] /\ StepsLeft'
      BY <2>3, <3>1, RunBecomes
    <3>3. registered' \in [Region -> Slot \cup {None}]
      BY <2>3 DEF RunInv, RunTypes
    <3> QED BY <2>1, <2>3, <3>2, <3>3 DEF RunInv, RunTypes
  <2> QED BY <1>3, <2>2, <2>3 DEF Execute
<1>4. ASSUME NEW i \in Incident, SREResolve(i) \/ Acknowledge(i) PROVE RunInv'
  BY <1>4, <1>s, <1>u DEF SREResolve, Acknowledge, faultVars
<1>5. CASE Restart
  <2>1. /\ run' = [k \in Slot |-> Idle] /\ registered' = [r \in Region |-> None]
        /\ stepFailed' = [n \in 1 .. Steps |-> FALSE] /\ server' = Idle
    BY <1>5 DEF Restart
  <2>2. restarts \in 0 .. MaxRestarts /\ restarts < MaxRestarts /\ restarts' = restarts + 1
    BY <1>5 DEF Restart, RunInv, RunTypes
  <2>3. restarts' \in 0 .. MaxRestarts
    BY <2>2, SREAssumption
  <2> QED BY <2>1, <2>3 DEF RunInv, RunTypes, StepsLeft, Run, Idle
<1>6. CASE UNCHANGED vars
  BY <1>6, <1>s, <1>u DEF vars, runVars, faultVars
<1> QED BY <1>1, <1>2, <1>3, <1>4, <1>5, <1>6, <1>t, ThreadKeepsRuns DEF Next, Endpoints

-----------------------------------------------------------------------------
\* The reports.

\* The report at the head of inbox[r] is taken from it.
Takes(r) == /\ inbox[r] # <<>> /\ inbox' = [inbox EXCEPT ![r] = Tail(@)]
            /\ fsm' = fsm

LEMMA TakeKeeps ==
  ASSUME ReportInv, NEW r \in Region, Takes(r)
  PROVE  /\ fsm' \in [Region -> State] /\ inbox' \in [Region -> Seq(Reported)]
         /\ LastReport' /\ Head(inbox[r]) \in Reported
         /\ inbox'[r] = <<>> /\ fsm[r] \in Reported => Head(inbox[r]) = fsm[r]
         /\ \A q \in Region : q # r => inbox'[q] = inbox[q]
<1> DEFINE old == inbox[r]
<1>1. old \in Seq(Reported) /\ old # <<>>
  BY DEF Takes, ReportInv, ReportTypes
<1>2. /\ Head(old) \in Reported /\ Tail(old) \in Seq(Reported)
      /\ Tail(old) # <<>> => Tail(old)[Len(Tail(old))] = old[Len(old)]
      /\ Tail(old) = <<>> => Head(old) = old[Len(old)]
  <2> DEFINE n == Len(old)
             rest == Tail(old)
  <2>1. n \in Nat /\ n >= 1 /\ \A m \in 1 .. n : old[m] \in Reported
    BY <1>1
  <2>2. /\ rest \in Seq(Reported) /\ Len(rest) = n - 1
        /\ \A m \in 1 .. n - 1 : rest[m] = old[m + 1]
    BY <1>1, <2>1
  <2>3. Head(old) = old[1]
    OBVIOUS
  <2>4. rest # <<>> => rest[n - 1] = old[n]
    <3>1. rest # <<>> => n - 1 \in 1 .. n - 1
      BY <2>1, <2>2
    <3> QED BY <2>1, <2>2, <3>1
  <2>5. rest = <<>> => n = 1
    <3>1. Len(<<>>) = 0
      OBVIOUS
    <3> HIDE DEF rest
    <3> QED BY <2>1, <2>2, <3>1
  <2> QED BY <2>1, <2>2, <2>3, <2>4, <2>5
<1>3. /\ inbox' \in [Region -> Seq(Reported)] /\ inbox'[r] = Tail(old)
      /\ \A q \in Region : q # r => inbox'[q] = inbox[q]
  BY <1>2 DEF Takes, ReportInv, ReportTypes
<1>4. fsm[r] \in Reported => old[Len(old)] = fsm[r]
  BY <1>1 DEF ReportInv, LastReport
<1>5. LastReport'
  <2> SUFFICES ASSUME NEW q \in Region, inbox'[q] # <<>>, fsm'[q] \in Reported
               PROVE  inbox'[q][Len(inbox'[q])] = fsm'[q]
    BY DEF LastReport
  <2>1. CASE q = r
    BY <1>2, <1>3, <1>4, <2>1 DEF Takes
  <2>2. CASE q # r
    BY <1>3, <2>2 DEF Takes, ReportInv, LastReport
  <2> QED BY <2>1, <2>2
<1> QED BY <1>2, <1>3, <1>4, <1>5 DEF Takes, ReportInv, ReportTypes

\* A state that is reported is entered with its report under way.
LEMMA ReceiveKeeps ==
  ASSUME ReportInv, NEW r \in Region, NEW e, Receives(r, e)
  PROVE  /\ fsm' \in [Region -> State] /\ inbox' \in [Region -> Seq(Reported)]
         /\ LastReport'
         /\ \A q \in Region :
              \/ fsm'[q] = fsm[q] /\ inbox'[q] = inbox[q]
              \/ fsm'[q] \in Reported => inbox'[q] # <<>>
<1>1. CASE UNCHANGED fsmVars
  BY <1>1 DEF fsmVars, ReportInv, ReportTypes, LastReport
<1>2. ASSUME NEW to \in State,
             fsm' = [fsm EXCEPT ![r] = to],
             inbox' = [inbox EXCEPT ![r] = IF to \in Reported THEN Append(@, to) ELSE @]
      PROVE  /\ fsm' \in [Region -> State] /\ inbox' \in [Region -> Seq(Reported)]
             /\ LastReport'
             /\ \A q \in Region :
                  \/ fsm'[q] = fsm[q] /\ inbox'[q] = inbox[q]
                  \/ fsm'[q] \in Reported => inbox'[q] # <<>>
  <2> DEFINE old == inbox[r]
             new == IF to \in Reported THEN Append(old, to) ELSE old
  <2>1. old \in Seq(Reported)
    BY DEF ReportInv, ReportTypes
  <2>2. new \in Seq(Reported)
    BY <2>1
  <2>3. to \in Reported => new # <<>> /\ new[Len(new)] = to
    BY <2>1
  <2>4. inbox' = [inbox EXCEPT ![r] = new]
    BY <1>2
  <2> HIDE DEF new
  <2>5. /\ fsm' \in [Region -> State] /\ inbox' \in [Region -> Seq(Reported)]
        /\ fsm'[r] = to /\ inbox'[r] = new
        /\ \A q \in Region : q # r => fsm'[q] = fsm[q] /\ inbox'[q] = inbox[q]
    BY <1>2, <2>2, <2>4 DEF ReportInv, ReportTypes
  <2>6. LastReport'
    BY <2>3, <2>5 DEF ReportInv, LastReport
  <2> QED BY <2>3, <2>5, <2>6
<1> QED BY <1>1, <1>2 DEF Receives

\* What a step does to the reports: it takes one, or an event reaches the state
\* machine of a region.
StepsOfReports ==
  \/ \E r \in Region : Takes(r)
  \/ UNCHANGED fsmVars
  \/ \E r \in Region : \E e : Receives(r, e)

LEMMA ReportSteps ==
  ASSUME IncidentInv, RunInv, [Next]_vars
  PROVE  StepsOfReports
<1>1. ASSUME NEW r \in Region, FSMMoves(r) PROVE StepsOfReports
  BY <1>1 DEF FSMMoves, StepsOfReports
<1>2. ASSUME NEW r \in Region, Lose(r) \/ Deliver(r) \/ DeliverTwice(r)
      PROVE  StepsOfReports
  BY <1>2 DEF Lose, Deliver, DeliverTwice, Handle, StepsOfReports, Takes, fsmVars
<1>3. CASE Execute \/ Restart \/ SecondPasses
  BY <1>3 DEF Execute, Restart, SecondPasses, StepsOfReports
<1>4. ASSUME NEW i \in Incident, SREResolve(i) \/ Acknowledge(i) PROVE StepsOfReports
  <2>1. i \in known => incident[i].region \in Region
    BY DEF IncidentInv, FreshIsNowhere
  <2> QED BY <1>4, <2>1 DEF SREResolve, Acknowledge, Unanswered, StepsOfReports
<1>5. ASSUME NEW k \in Slot, Thread(k) PROVE StepsOfReports
  <2>1. CASE Start(k)
    <3>1. run[k].region \in Region
      BY <2>1, RunAtPlace DEF Start, Place, RunInv
    <3> QED BY <2>1, <3>1 DEF Start, Answered, Unanswered, StepsOfReports
  <2>2. CASE Notify(k)
    <3>1. run[k].region \in Region
      BY <2>2, RunAtPlace DEF Notify, Place, RunInv
    <3> QED BY <2>2, <3>1 DEF Notify, Unanswered, StepsOfReports
  <2>3. CASE Top(k) \/ ExecuteStep(k) \/ Judge(k) \/ Record(k) \/ Pop(k)
    BY <2>3 DEF Top, ExecuteStep, Judge, Record, Pop, StepsOfReports
  <2> QED BY <1>5, <2>1, <2>2, <2>3 DEF Thread
<1>6. CASE UNCHANGED vars
  BY <1>6 DEF vars, fsmVars, StepsOfReports
<1> QED BY <1>1, <1>2, <1>3, <1>4, <1>5, <1>6 DEF Next, Endpoints

\* A report is lost once.
LEMMA LostOnce ==
  ASSUME ReportInv, [Next]_vars
  PROVE  \/ lost' = lost
         \/ \E r \in Region : Lose(r) /\ lost = None /\ lost' = Head(inbox[r]) /\ Takes(r)
<1>1. ASSUME NEW r \in Region, Lose(r)
      PROVE  lost = None /\ lost' = Head(inbox[r]) /\ Takes(r)
  BY <1>1 DEF Lose, Takes
<1>2. CASE UNCHANGED vars
  BY <1>2 DEF vars, faultVars
<1>3. ASSUME NEW r \in Region, FSMMoves(r) \/ Deliver(r) \/ DeliverTwice(r)
      PROVE  lost' = lost
  BY <1>3 DEF FSMMoves, Deliver, DeliverTwice, Handle, faultVars
<1>4. CASE Execute \/ Restart \/ SecondPasses
  BY <1>4 DEF Execute, Restart, SecondPasses, faultVars
<1>5. ASSUME NEW i \in Incident, SREResolve(i) \/ Acknowledge(i) PROVE lost' = lost
  BY <1>5 DEF SREResolve, Acknowledge, faultVars
<1>6. ASSUME NEW k \in Slot, Thread(k) PROVE lost' = lost
  BY <1>6 DEF Thread, Start, Top, ExecuteStep, Judge, Record, Notify, Pop, faultVars
<1> QED BY <1>1, <1>2, <1>3, <1>4, <1>5, <1>6 DEF Next, Endpoints

LEMMA ReportStep ==
  ASSUME IncidentInv, RunInv, ReportInv, [Next]_vars
  PROVE  ReportInv'
<1>1. lost' \in Reported \cup {None}
  BY LostOnce, TakeKeeps DEF ReportInv, ReportTypes
<1>2. fsm' \in [Region -> State] /\ inbox' \in [Region -> Seq(Reported)] /\ LastReport'
  <2>1. CASE UNCHANGED fsmVars
    BY <2>1 DEF fsmVars, ReportInv, ReportTypes, LastReport
  <2> QED BY <2>1, ReportSteps, TakeKeeps, ReceiveKeeps DEF StepsOfReports
<1> QED BY <1>1, <1>2 DEF ReportInv, ReportTypes

-----------------------------------------------------------------------------
\* The theorems.

IInv == IncidentInv /\ RunInv /\ ReportInv

LEMMA InitInv == Init => IInv
<1> SUFFICES ASSUME Init PROVE IInv
  OBVIOUS
<1>1. IncidentTypes
  BY DEF Init, IncidentTypes, New, Object, OnFile
<1>2. ActiveIsOwn /\ FreshIsNowhere /\ FilesAgree /\ FilesAreActive /\ UnresolvedIsKept
  BY DEF Init, ActiveIsOwn, FreshIsNowhere, FilesAgree, FilesAreActive, UnresolvedIsKept,
         New, Unresolved
<1>3. RunInv
  BY SREAssumption DEF Init, RunInv, RunTypes, StepsLeft, Run, Idle
<1>4. ReportInv
  BY DEF Init, ReportInv, ReportTypes, LastReport, State
<1> QED BY <1>1, <1>2, <1>3, <1>4 DEF IInv, IncidentInv

LEMMA StepInv == IInv /\ [Next]_vars => IInv'
BY IncidentStep, RunStep, ReportStep DEF IInv, RunInv

\* Every variable keeps the type of the field it stands for.
THEOREM TypeCorrect == Spec => []TypeOK
<1>1. IInv => TypeOK
  BY TypesInParts DEF IInv, IncidentInv, RunInv, ReportInv
<1> QED BY <1>1, InitInv, StepInv, PTL DEF Spec

\* What a step leaves of the active incident of a region without reports under way.
LEMMA ActiveStays ==
  ASSUME IncidentInv, NEW q \in Region, inbox[q] = <<>>, ManagerStep
  PROVE  /\ active'[q] = active[q]
         /\ active[q] # None =>
              /\ incident[active[q]].aside => incident'[active[q]].aside
              /\ incident[active[q]].escalated => incident'[active[q]].escalated
              /\ incident[active[q]].reloaded => incident'[active[q]].reloaded
<1> DEFINE i == active[q]
<1>1. CASE LeftAlone
  BY <1>1 DEF LeftAlone
<1>2. ASSUME NEW r \in Region, NEW severe \in BOOLEAN, inbox[r] # <<>>, Open(r, severe)
      PROVE  /\ active'[q] = i
             /\ i # None => /\ incident[i].aside => incident'[i].aside
                            /\ incident[i].escalated => incident'[i].escalated
                            /\ incident[i].reloaded => incident'[i].reloaded
  <2>1. PICK j \in Fresh, n \in Incident :
          /\ j \in Incident /\ j \notin known \cup damaged
          /\ \A h \in Incident :
               h # j => /\ incident'[h].reloaded = incident[h].reloaded
                        /\ incident'[h].escalated = incident[h].escalated
                        /\ incident'[h].aside = (incident[h].aside \/ h = active[r])
          /\ active' = [active EXCEPT ![r] = j]
    BY <1>2, OpenMakesOne
  <2>2. active'[q] = i
    BY <1>2, <2>1 DEF IncidentInv, IncidentTypes
  <2>3. i # None => i # j /\ i \in Incident
    BY <2>1, ActiveTyped DEF Fresh, Unresolved
  <2> QED BY <2>1, <2>2, <2>3
<1>3. ASSUME NEW r \in Region, NEW j \in Incident, NEW new \in Object, Rewrites(r, j, new),
             new.status = "resolved" => inbox[r] # <<>>
      PROVE  /\ active'[q] = i
             /\ i # None => /\ incident[i].aside => incident'[i].aside
                            /\ incident[i].escalated => incident'[i].escalated
                            /\ incident[i].reloaded => incident'[i].reloaded
  <2>1. /\ new.aside = incident[j].aside /\ new.reloaded = incident[j].reloaded
        /\ incident[j].escalated => new.escalated
        /\ incident' = [incident EXCEPT ![j] = new]
        /\ active' = IF new.status = "resolved" THEN [active EXCEPT ![r] = None] ELSE active
    BY <1>3 DEF Rewrites
  <2>2. active'[q] = i
    BY <1>3, <2>1 DEF IncidentInv, IncidentTypes
  <2>3. i # None => i \in Incident
    BY DEF IncidentInv, IncidentTypes
  <2> QED BY <2>1, <2>2, <2>3 DEF IncidentInv, IncidentTypes
<1> QED BY <1>1, <1>2, <1>3 DEF ManagerStep

\* A region comes to be in a reported state without reports under way when the
\* report of that state is handled, or lost.
LEMMA LastReportIsHandled ==
  ASSUME IInv, [Next]_vars, NEW q \in Region, fsm'[q] \in Reported, inbox'[q] = <<>>
  PROVE  \/ fsm[q] = fsm'[q] /\ inbox[q] = <<>>
         \/ lost' = fsm'[q]
         \/ inbox[q] # <<>> /\ Handle(q, fsm'[q])
<1> USE DEF IInv
<1>1. CASE UNCHANGED fsmVars
  BY <1>1 DEF fsmVars
<1>2. ASSUME NEW r \in Region, NEW e, Receives(r, e)
      PROVE  fsm[q] = fsm'[q] /\ inbox[q] = <<>>
  BY <1>2, ReceiveKeeps
<1>3. ASSUME NEW r \in Region, Lose(r)
      PROVE  fsm[q] = fsm'[q] /\ (inbox[q] = <<>> \/ lost' = fsm'[q])
  <2>1. Takes(r) /\ lost' = Head(inbox[r])
    BY <1>3 DEF Lose, Takes
  <2>2. fsm' = fsm
    BY <2>1 DEF Takes
  <2>3. CASE q = r
    BY <2>1, <2>2, <2>3, TakeKeeps
  <2>4. CASE q # r
    BY <2>1, <2>2, <2>4, TakeKeeps
  <2> QED BY <2>2, <2>3, <2>4
<1>4. ASSUME NEW r \in Region, Deliver(r)
      PROVE  fsm[q] = fsm'[q] /\ (inbox[q] = <<>> \/ Handle(q, fsm'[q]))
  <2>1. Takes(r) /\ Handle(r, Head(inbox[r]))
    BY <1>4 DEF Deliver, Handle, Takes
  <2>2. fsm' = fsm
    BY <2>1 DEF Takes
  <2>3. CASE q = r
    <3>1. Head(inbox[q]) = fsm'[q]
      BY <2>1, <2>2, <2>3, TakeKeeps
    <3> QED BY <2>1, <2>2, <2>3, <3>1
  <2>4. CASE q # r
    BY <2>1, <2>2, <2>4, TakeKeeps
  <2> QED BY <2>2, <2>3, <2>4
<1>5. ASSUME NEW r \in Region, FSMMoves(r)
      PROVE  fsm[q] = fsm'[q] /\ inbox[q] = <<>>
  BY <1>2, <1>5 DEF FSMMoves
<1>6. ASSUME NEW r \in Region, DeliverTwice(r)
      PROVE  fsm[q] = fsm'[q] /\ inbox[q] = <<>>
  BY <1>6 DEF DeliverTwice, Handle
<1>7. CASE Execute \/ Restart \/ SecondPasses
  BY <1>1, <1>7 DEF Execute, Restart, SecondPasses
<1>8. ASSUME NEW i \in Incident, SREResolve(i) \/ Acknowledge(i)
      PROVE  fsm[q] = fsm'[q] /\ inbox[q] = <<>>
  <2>1. i \in known => incident[i].region \in Region
    BY DEF IncidentInv, FreshIsNowhere
  <2> QED BY <1>1, <1>2, <1>8, <2>1 DEF SREResolve, Acknowledge, Unanswered, fsmVars
<1>9. ASSUME NEW k \in Slot, Thread(k)
      PROVE  fsm[q] = fsm'[q] /\ inbox[q] = <<>>
  <2>1. At(k, "start") \/ At(k, "notify") => run[k].region \in Region
    BY RunAtPlace DEF Place, RunInv
  <2>2. UNCHANGED fsmVars \/ \E r \in Region : \E e : Receives(r, e)
    BY <1>9, <2>1 DEF Thread, Start, Top, ExecuteStep, Judge, Record, Notify, Pop,
                      Answered, Unanswered
  <2> QED BY <1>2, <2>2 DEF fsmVars
<1>10. CASE UNCHANGED vars
  BY <1>1, <1>10 DEF vars, fsmVars
<1> QED BY <1>3, <1>4, <1>5, <1>6, <1>7, <1>8, <1>9, <1>10, <1>1 DEF Next, Endpoints, fsmVars

LEMMA LostStays ==
  ASSUME IInv, [Next]_vars, lost \in Reported
  PROVE  lost' = lost
BY LostOnce, SREAssumption DEF IInv, ReportInv, Reported, State

\* What went wrong with an incident stays: a failed save, or an id it shares.
LEMMA HarmStays ==
  ASSUME IncidentInv, ManagerStep \/ Restart
  PROVE  /\ damaged \subseteq damaged'
         /\ \A i \in Incident :
              i \in damaged \/ SharesId(i) =>
                /\ i \in damaged' \/ SharesId(i)'
                /\ incident'[i].region = incident[i].region
<1> DEFINE Keeps == \A i \in Incident : incident[i].id # None =>
                      /\ incident'[i].id = incident[i].id
                      /\ incident'[i].region = incident[i].region
<1>1. CASE LeftAlone
  BY <1>1 DEF LeftAlone, SharesId
<1>2. ASSUME NEW r \in Region, NEW severe \in BOOLEAN, Open(r, severe)
      PROVE  Keeps /\ damaged \subseteq damaged'
  <2>1. PICK j \in Fresh, n \in Incident :
          /\ j \in Incident /\ Save(j, n, "open") /\ incident[j].id = None
          /\ \A i \in Incident :
               i # j => /\ incident'[i].region = incident[i].region
                        /\ incident'[i].id = incident[i].id
    BY <1>2, OpenMakesOne
  <2>2. damaged \subseteq damaged'
    BY <2>1, SaveTouchesOne DEF IncidentInv, Unresolved
  <2> QED BY <2>1, <2>2
<1>3. ASSUME NEW r \in Region, NEW j \in Incident, NEW new \in Object, Rewrites(r, j, new)
      PROVE  Keeps /\ damaged \subseteq damaged'
  <2>1. /\ new.region = incident[j].region /\ new.id = incident[j].id
        /\ incident' = [incident EXCEPT ![j] = new] /\ incident[j].id \in Incident
        /\ new.status \in Unresolved \cup {"resolved"} /\ Save(j, new.id, new.status)
    BY <1>3, ActiveTyped DEF Rewrites
  <2>2. damaged \subseteq damaged'
    BY <2>1, SaveTouchesOne DEF IncidentInv
  <2> QED BY <2>1, <2>2 DEF IncidentInv, IncidentTypes
<1>4. ASSUME Restart PROVE Keeps /\ damaged \subseteq damaged'
  <2> DEFINE Loaded == {j \in Incident : disk[j] \in Unresolved}
  <2>1. /\ \A j \in Incident \ Loaded : incident'[j] = incident[j]
        /\ \A j \in Loaded : /\ incident'[j].region = incident[j].region
                             /\ incident'[j].id = incident[j].id
        /\ damaged' = damaged
    BY <1>4, RestartReads
  <2> QED BY <2>1
<1>5. ASSUME Keeps, damaged \subseteq damaged', NEW i \in Incident,
             i \in damaged \/ SharesId(i)
      PROVE  /\ i \in damaged' \/ SharesId(i)'
             /\ incident'[i].region = incident[i].region
  <2>1. incident[i].id # None
    BY <1>5, SREAssumption DEF IncidentInv, FreshIsNowhere, SharesId
  <2>2. SharesId(i) => SharesId(i)'
    BY <1>5, SharingStays
  <2> QED BY <1>5, <2>1, <2>2
<1> HIDE DEF Keeps
<1>6. ASSUME Keeps, damaged \subseteq damaged'
      PROVE  /\ damaged \subseteq damaged'
             /\ \A i \in Incident :
                  i \in damaged \/ SharesId(i) =>
                    /\ i \in damaged' \/ SharesId(i)'
                    /\ incident'[i].region = incident[i].region
  BY <1>5, <1>6
<1> QED BY <1>1, <1>2, <1>3, <1>4, <1>6 DEF ManagerStep

LEMMA HealthyStep == IInv /\ HealthyMeansResolved /\ [Next]_vars => HealthyMeansResolved'
<1> SUFFICES ASSUME IInv, HealthyMeansResolved, [Next]_vars, NEW q \in Region,
                    fsm'[q] = "HEALTHY", inbox'[q] = <<>>, lost' # "HEALTHY",
                    active'[q] # None
             PROVE  incident'[active'[q]].aside \/ active'[q] \in damaged'
  BY DEF HealthyMeansResolved
<1> USE DEF IInv
<1>1. "HEALTHY" \in Reported /\ lost # "HEALTHY"
  BY LostStays DEF Reported
<1>2. CASE fsm[q] = "HEALTHY" /\ inbox[q] = <<>>
  <2>1. active[q] # None => incident[active[q]].aside \/ active[q] \in damaged
    BY <1>1, <1>2 DEF HealthyMeansResolved
  <2>2. CASE ManagerStep
    <3>1. damaged \subseteq damaged'
      BY <2>2, HarmStays
    <3> QED BY <1>2, <2>1, <2>2, <3>1, ActiveStays
  <2>3. CASE Restart
    <3> DEFINE Loaded == {i \in Incident : disk[i] \in Unresolved}
               a == active'[q]
    <3>1. /\ a \in Loaded /\ incident[a].region = q /\ damaged' = damaged
          /\ incident'[a].aside = (incident[a].aside \/ a # active'[incident[a].region])
      BY <2>3, RestartReads
    <3>2. a \notin damaged => active[q] = a \/ incident[a].aside
      BY <3>1 DEF IncidentInv, FilesAreActive
    <3>3. a # None
      BY <3>1, SREAssumption
    <3> QED BY <2>1, <3>1, <3>2, <3>3
  <2> QED BY <2>2, <2>3, StepsOfTheManager DEF RunInv
<1>3. CASE inbox[q] # <<>> /\ Handle(q, "HEALTHY")
  <2>1. Resolve(q)
    BY <1>3 DEF Handle, Healthy
  <2> QED BY <1>3, <2>1, ResolveIsStep
<1> QED BY <1>1, <1>2, <1>3, LastReportIsHandled

\* The incidents of a fault end with it: a healthy region has none left open but
\* those that are set apart.
THEOREM HealthyRegionsAreResolved == Spec => []HealthyMeansResolved
<1>1. Init => HealthyMeansResolved
  BY DEF Init, HealthyMeansResolved
<1> QED BY <1>1, InitInv, StepInv, HealthyStep, PTL DEF Spec

LEMMA FailedStep == IInv /\ FailedIsEscalated /\ [Next]_vars => FailedIsEscalated'
<1> SUFFICES ASSUME IInv, FailedIsEscalated, [Next]_vars, NEW q \in Region,
                    fsm'[q] = "FAILED", inbox'[q] = <<>>, lost' # "FAILED"
             PROVE  \/ /\ active'[q] # None
                       /\ incident'[active'[q]].escalated \/ incident'[active'[q]].reloaded
                    \/ Harmed(q)'
  BY DEF FailedIsEscalated
<1> USE DEF IInv
<1>1. "FAILED" \in Reported /\ lost # "FAILED"
  BY LostStays DEF Reported
<1>s. ManagerStep \/ Restart
  BY StepsOfTheManager DEF RunInv
<1>2. CASE fsm[q] = "FAILED" /\ inbox[q] = <<>>
  <2>1. \/ /\ active[q] # None
           /\ incident[active[q]].escalated \/ incident[active[q]].reloaded
        \/ Harmed(q)
    BY <1>1, <1>2 DEF FailedIsEscalated
  <2>2. CASE Harmed(q)
    <3>1. PICK i \in Incident : incident[i].region = q /\ (i \in damaged \/ SharesId(i))
      BY <2>2 DEF Harmed
    <3>2. incident'[i].region = q /\ (i \in damaged' \/ SharesId(i)')
      BY <1>s, <3>1, HarmStays
    <3> QED BY <3>2 DEF Harmed
  <2>3. CASE active[q] # None /\ (incident[active[q]].escalated \/ incident[active[q]].reloaded)
    <3>1. CASE ManagerStep
      BY <1>2, <2>3, <3>1, ActiveStays
    <3>2. CASE Restart
      <4> DEFINE Loaded == {i \in Incident : disk[i] \in Unresolved}
      <4>1. /\ active' \in [Region -> Loaded \cup {None}]
            /\ active'[q] = None => \A i \in Loaded : incident[i].region # q
            /\ \A i \in Loaded : incident'[i].reloaded
        BY <3>2, RestartReads
      <4>2. CASE active'[q] # None
        BY <4>1, <4>2
      <4>3. CASE active'[q] = None
        <5>1. PICK a \in Incident :
                a = active[q] /\ incident[a].status \in Unresolved /\ incident[a].region = q
          BY <2>3, ActiveTyped
        <5>2. a \in damaged \/ SharesId(a)
          BY <4>1, <4>3, <5>1 DEF IncidentInv, FilesAgree, Unresolved
        <5>3. incident'[a].region = q /\ (a \in damaged' \/ SharesId(a)')
          BY <1>s, <5>1, <5>2, HarmStays
        <5> QED BY <5>1, <5>3 DEF Harmed
      <4> QED BY <4>2, <4>3
    <3> QED BY <1>s, <3>1, <3>2
  <2> QED BY <2>1, <2>2, <2>3
<1>3. CASE inbox[q] # <<>> /\ Handle(q, "FAILED")
  <2>1. IF active[q] = None THEN Open(q, TRUE) ELSE Escalate(q)
    BY <1>3 DEF Handle, Failed
  <2>2. CASE active[q] = None
    <3>1. PICK j \in Fresh, n \in Incident :
                             /\ j \in Incident /\ incident'[j] = New(q, "open", n, TRUE)
                             /\ active' = [active EXCEPT ![q] = j]
      <4>1. \A severe \in BOOLEAN :
              Open(q, severe) => \E j \in Fresh, n \in Incident :
                                   /\ j \in Incident /\ incident'[j] = New(q, "open", n, severe)
                                   /\ active' = [active EXCEPT ![q] = j]
        BY OpenMakesOne
      <4> QED BY <2>1, <2>2, <4>1, Zenon
    <3>2. active'[q] = j /\ j # None
      BY <3>1, SREAssumption DEF IncidentInv, IncidentTypes
    <3> QED BY <3>1, <3>2 DEF New
  <2>3. CASE active[q] # None
    BY <2>1, <2>3, EscalateIsStep
  <2> QED BY <2>2, <2>3
<1> QED BY <1>1, <1>2, <1>3, LastReportIsHandled

\* A person is called to every region that has failed, whether or not the report
\* that opens its incident came, unless an incident of it was badly saved or shares
\* its id.
THEOREM FailedRegionsAreEscalated == Spec => []FailedIsEscalated
<1>1. Init => FailedIsEscalated
  BY DEF Init, FailedIsEscalated
<1> QED BY <1>1, InitInv, StepInv, FailedStep, PTL DEF Spec

-----------------------------------------------------------------------------
\* The action properties.

StaysResolved ==
  \A i \in Incident :
    incident[i].status = "resolved" /\ i \notin damaged => incident'[i].status = "resolved"

LEMMA ResolvedStep == IInv /\ [Next]_vars => StaysResolved
<1> SUFFICES ASSUME IInv, [Next]_vars, NEW i \in Incident,
                    incident[i].status = "resolved", i \notin damaged
             PROVE  incident'[i].status = "resolved"
  BY DEF StaysResolved
<1> USE DEF IInv
<1>1. CASE LeftAlone
  BY <1>1 DEF LeftAlone
<1>2. ASSUME NEW r \in Region, NEW severe \in BOOLEAN, Open(r, severe)
      PROVE  incident'[i].status = "resolved"
  BY <1>2, OpenMakesOne DEF Fresh
<1>3. ASSUME NEW r \in Region, NEW j \in Incident, NEW new \in Object, Rewrites(r, j, new)
      PROVE  incident'[i].status = "resolved"
  <2>1. incident[j].status \in Unresolved /\ incident' = [incident EXCEPT ![j] = new]
    BY <1>3, ActiveTyped DEF Rewrites
  <2> QED BY <2>1 DEF IncidentInv, IncidentTypes, Unresolved
<1>4. CASE Restart
  <2>1. disk[i] \notin Unresolved
    BY DEF IncidentInv, FilesAgree, Unresolved
  <2> QED BY <1>4, <2>1, RestartReads
<1> QED BY <1>1, <1>2, <1>3, <1>4, StepsOfTheManager DEF ManagerStep, RunInv

\* What is resolved stays so, across restarts and beside the threads of old runs.
THEOREM ResolutionIsFinal == Spec => ResolvedIsFinal
<1>1. IInv /\ [Next]_vars => [StaysResolved]_vars
  BY ResolvedStep
<1> QED BY <1>1, InitInv, StepInv, PTL DEF Spec, ResolvedIsFinal, StaysResolved

StayKnown ==
  \A i \in known :
    incident[i].status # "resolved" /\ i \notin damaged => i \in known' \/ SharesId(i)'

LEMMA KnownStep == IInv /\ [Next]_vars => StayKnown
<1> SUFFICES ASSUME IInv, [Next]_vars, NEW i \in known,
                    incident[i].status # "resolved", i \notin damaged
             PROVE  i \in known' \/ SharesId(i)'
  BY DEF StayKnown
<1> USE DEF IInv
<1>1. CASE LeftAlone
  BY <1>1 DEF LeftAlone
<1>2. ASSUME NEW r \in Region, NEW severe \in BOOLEAN, Open(r, severe)
      PROVE  i \in known' \/ SharesId(i)'
  <2>1. PICK j \in Fresh, n \in Incident :
          /\ j \in Incident /\ j \notin known /\ incident'[j] = New(r, "open", n, severe)
          /\ \A h \in Incident : h # j => incident'[h].id = incident[h].id
          /\ known' = {h \in known : incident[h].id # n} \cup {j}
    BY <1>2, OpenMakesOne
  <2>2. i \in Incident /\ i # j /\ incident'[j].id = n
    BY <2>1 DEF IncidentInv, IncidentTypes, New
  <2>3. CASE incident[i].id = n
    BY <2>1, <2>2, <2>3, SREAssumption DEF SharesId
  <2> QED BY <2>1, <2>3
<1>3. ASSUME NEW r \in Region, NEW j \in Incident, NEW new \in Object, Rewrites(r, j, new)
      PROVE  i \in known'
  BY <1>3 DEF Rewrites
<1>4. CASE Restart
  <2>1. /\ i \in Incident /\ incident[i] \in Object /\ incident[i].status # "unopened"
        /\ disk[i] = incident[i].status \/ SharesId(i)
    BY DEF IncidentInv, IncidentTypes, FreshIsNowhere, FilesAgree
  <2>2. CASE SharesId(i)
    BY <1>4, <2>1, <2>2, HarmStays, RestartReads
  <2>3. CASE disk[i] = incident[i].status
    <3>1. disk[i] \in Unresolved
      BY <2>1, <2>3 DEF Object
    <3> QED BY <1>4, <2>1, <3>1, RestartReads
  <2> QED BY <2>1, <2>2, <2>3
<1> QED BY <1>1, <1>2, <1>3, <1>4, StepsOfTheManager DEF ManagerStep, RunInv

\* No unresolved incident is forgotten, by a restart either, unless a save of it
\* failed or another incident was given its id.
THEOREM UnresolvedSurvive == Spec => IncidentsSurvive
<1>1. IInv /\ [Next]_vars => [StayKnown]_vars
  BY KnownStep
<1> QED BY <1>1, InitInv, StepInv, PTL DEF Spec, IncidentsSurvive, StayKnown

-----------------------------------------------------------------------------
\* The incident manager implements the incident book.

\* One incident changes its status: so does its entry.
LEMMA EntryRewritten ==
  ASSUME NEW i \in Incident, incident'[i].region = incident[i].region,
         incident'[i].id = incident[i].id,
         \A j \in Incident : j # i => incident'[j] = incident[j]
  PROVE  BookOf' = [BookOf EXCEPT ![i].status = incident'[i].status]
<1> DEFINE e(j) == [region |-> incident[j].region, status |-> incident[j].status,
                    name |-> incident[j].id]
           new == [region |-> incident[i].region, status |-> incident'[i].status,
                   name |-> incident[i].id]
<1>1. BookOf[i] = e(i)
  BY DEF BookOf
<1>2. [BookOf[i] EXCEPT !.status = incident'[i].status] = new
  BY <1>1
<1>3. [BookOf EXCEPT ![i].status = incident'[i].status]
        = [j \in Incident |-> IF j = i THEN new ELSE e(j)]
  BY <1>2 DEF BookOf
<1>4. BookOf' = [j \in Incident |-> IF j = i THEN new ELSE e(j)]
  BY DEF BookOf
<1> QED BY <1>3, <1>4

LEMMA OpenEnters ==
  ASSUME IncidentInv, NEW r \in Region, NEW severe \in BOOLEAN, Open(r, severe)
  PROVE  \E j, n \in Incident : Book!Enter(r, j, n)
<1>1. PICK j \in Fresh, n \in Incident :
        /\ j \in Incident /\ Save(j, n, "open")
        /\ incident'[j] = New(r, "open", n, severe)
        /\ \A i \in Incident :
             i # j => /\ incident'[i].status = incident[i].status
                      /\ incident'[i].region = incident[i].region
                      /\ incident'[i].id = incident[i].id
        /\ active' = [active EXCEPT ![r] = j]
  BY OpenMakesOne
<1>2. BookOf[j].status = "unopened"
  BY <1>1 DEF BookOf, Fresh
<1>3. active[r] # None => BookOf[active[r]].status = "mitigated"
  <2>1. active[r] # None => incident[active[r]].status = "mitigated"
    BY ActiveTyped DEF Open, IsOpen, Unresolved
  <2> QED BY <2>1, ActiveTyped DEF BookOf
<1>4. BookOf' = [BookOf EXCEPT ![j] = Book!Entry(r, "open", n)]
  <2>1. incident'[j].region = r /\ incident'[j].status = "open" /\ incident'[j].id = n
    BY <1>1 DEF New
  <2> QED BY <1>1, <2>1 DEF BookOf, Book!Entry
<1>5. damaged' \in {damaged, damaged \cup {j}}
  BY <1>1 DEF Save
<1> QED BY <1>1, <1>2, <1>3, <1>4, <1>5 DEF Book!Enter, Book!Writes

LEMMA RewriteWrites ==
  ASSUME IncidentInv, NEW r \in Region, NEW i \in Incident, NEW new \in Object,
         Rewrites(r, i, new)
  PROVE  \/ UNCHANGED <<BookOf, active, damaged>>
         \/ Book!Mitigate(r) \/ Book!Close(r) \/ Book!Spoil(r)
<1>1. /\ active[r] = i /\ i # None /\ new.region = incident[i].region
      /\ new.id = incident[i].id
      /\ new.status \in {incident[i].status, "mitigated", "resolved"}
      /\ incident'[i] = new /\ \A j \in Incident : j # i => incident'[j] = incident[j]
      /\ active' = IF new.status = "resolved" THEN [active EXCEPT ![r] = None] ELSE active
      /\ damaged' \in {damaged, damaged \cup {i}}
  BY DEF Rewrites, Save, IncidentInv, IncidentTypes
<1>2. BookOf' = [BookOf EXCEPT ![i].status = new.status]
  BY <1>1, EntryRewritten
<1>3. incident[i].status # "resolved"
  BY <1>1, ActiveTyped DEF Unresolved
<1>4. CASE new.status = "resolved"
  BY <1>1, <1>2, <1>4 DEF Book!Close, Book!Writes
<1>5. CASE new.status = "mitigated"
  BY <1>1, <1>2, <1>5 DEF Book!Mitigate, Book!Writes
<1>6. CASE new.status = incident[i].status
  <2>1. BookOf' = BookOf
    BY <1>1, <1>6 DEF BookOf
  <2> QED BY <1>1, <1>3, <1>6, <2>1 DEF Book!Spoil
<1> QED BY <1>1, <1>4, <1>5, <1>6

LEMMA RestartRecovers ==
  ASSUME IncidentInv, Restart
  PROVE  Book!Recover
<1> DEFINE Loaded == {i \in Incident : disk[i] \in Unresolved}
<1>1. /\ \A i \in Incident \ Loaded : incident'[i] = incident[i]
      /\ \A i \in Loaded : /\ incident'[i].status = disk[i]
                           /\ incident'[i].region = incident[i].region
                           /\ incident'[i].id = incident[i].id
      /\ active' \in [Region -> Loaded \cup {None}]
      /\ \A r \in Region : /\ active'[r] # None => incident[active'[r]].region = r
                           /\ active'[r] = None => \A i \in Loaded : incident[i].region # r
      /\ damaged' = damaged
  BY RestartReads
<1>2. ASSUME NEW i \in Incident
      PROVE  \/ BookOf'[i] = BookOf[i]
             \/ i \in damaged /\ \E st \in Book!Unsettled :
                                   BookOf'[i] = [BookOf[i] EXCEPT !.status = st]
  <2>1. CASE i \notin Loaded
    BY <1>1, <2>1 DEF BookOf
  <2>2. CASE i \in Loaded
    <3>1. /\ BookOf'[i] = [BookOf[i] EXCEPT !.status = disk[i]]
          /\ disk[i] \in Book!Unsettled
      BY <1>1, <2>2 DEF BookOf, Book!Unsettled, Unresolved
    <3>2. i \notin damaged => disk[i] = incident[i].status
      BY <2>2 DEF IncidentInv, FilesAgree, FreshIsNowhere, Unresolved
    <3>3. i \notin damaged => BookOf'[i] = BookOf[i]
      BY <3>1, <3>2 DEF BookOf
    <3> QED BY <3>1, <3>3
  <2> QED BY <2>1, <2>2
<1>3. ASSUME NEW r \in Region, active'[r] = None
      PROVE  Book!UnsettledOf(BookOf, r) \subseteq damaged \cup Book!Namesakes
  <2> SUFFICES ASSUME NEW i \in Incident, incident[i].region = r,
                      incident[i].status \in Unresolved, i \notin damaged
               PROVE  \E k \in Incident \ {i} : BookOf[k].name = BookOf[i].name
    BY DEF Book!UnsettledOf, Book!Unsettled, Book!Namesakes, BookOf, Unresolved
  <2>1. disk[i] = incident[i].status \/ SharesId(i)
    BY DEF IncidentInv, FilesAgree, Unresolved
  <2>2. SharesId(i)
    BY <1>1, <1>3, <2>1
  <2> QED BY <2>2 DEF SharesId, BookOf
<1>4. ASSUME NEW r \in Region, active'[r] # None
      PROVE  active'[r] \in Book!UnsettledOf(BookOf', r)
  <2> DEFINE a == active'[r]
  <2>1. a \in Loaded /\ incident'[a].region = r /\ incident'[a].status \in Unresolved
    BY <1>1, <1>4
  <2> QED BY <2>1 DEF Book!UnsettledOf, Book!Unsettled, BookOf, Unresolved
<1> QED BY <1>1, <1>2, <1>3, <1>4 DEF Book!Recover

LEMMA BookStep == IInv /\ [Next]_vars => [Book!BookNext]_(Book!bookVars)
<1> SUFFICES ASSUME IInv, [Next]_vars
             PROVE  Book!BookNext \/ UNCHANGED <<BookOf, active, damaged>>
  BY DEF Book!bookVars
<1>1. IncidentInv /\ RunTypes
  BY DEF IInv, RunInv
<1>2. CASE LeftAlone
  BY <1>2 DEF LeftAlone, BookOf
<1>3. ASSUME NEW r \in Region, NEW severe \in BOOLEAN, Open(r, severe)
      PROVE  Book!BookNext
  BY <1>1, <1>3, OpenEnters DEF Book!BookNext
<1>4. ASSUME NEW r \in Region, NEW i \in Incident, NEW new \in Object, Rewrites(r, i, new)
      PROVE  Book!BookNext \/ UNCHANGED <<BookOf, active, damaged>>
  BY <1>1, <1>4, RewriteWrites DEF Book!BookNext
<1>5. CASE Restart
  BY <1>1, <1>5, RestartRecovers DEF Book!BookNext
<1> QED BY <1>1, <1>2, <1>3, <1>4, <1>5, StepsOfTheManager DEF ManagerStep

\* The incident manager keeps the book it promises: every step of the service, a
\* failed save and a restart included, is a step of IncidentBook or none.
THEOREM BookIsKept == Spec => ImplementsBook
<1>1. Init => Book!BookInit
  BY DEF Init, New, BookOf, Book!BookInit, Book!Entry
<1> QED BY <1>1, InitInv, StepInv, BookStep, PTL DEF Spec, ImplementsBook, Book!BookSafety
=============================================================================
