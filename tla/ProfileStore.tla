---------------------------- MODULE ProfileStore ----------------------------
(***************************************************************************)
(* The profiles MmkvManager keeps: a payload per profile, an index of      *)
(* every group, and the selected profile.  Threads of several processes    *)
(* (user interface, daemon, subscription and test tasks) work on them.     *)
(* Part of the operations hold the profile index lock from beginning to    *)
(* end; the others read a list, change it and write it back, and take the  *)
(* lock only for the write.  Any of them may be cut off between two steps: *)
(* its process dies, or a locked write fails and throws.                   *)
(*                                                                         *)
(* The MMKV library is external: a single read or write is atomic, and the *)
(* lock of a process that died is free.  The order of a list is left out,  *)
(* and a payload stands for the full, the raw and the test data of its     *)
(* profile, which are written and removed together.  Of a payload the      *)
(* group it names matters: where it is listed, and where it is removed.    *)
(***************************************************************************)
EXTENDS Naturals

CONSTANTS
  Actors,        \* threads that use the store
  Groups,        \* subscriptions, the default one included
  Default,       \* the default one, of a payload that names none or is missing
  None,          \* no profile, no group, or nobody
  Guids,         \* bound: the profiles that may ever be created
  MaxHazards     \* bound: how many operations read without the lock, and how many
                 \* group indexes get lost or unreadable, together

ASSUME ProfileStoreAssumption ==
  /\ None \notin Guids /\ None \notin Actors /\ None \notin Groups
  /\ Default \in Groups
  /\ MaxHazards \in Nat

VARIABLES
  index,      \* what decodeServerList returns for every group
  key,        \* the group's index: "absent", "readable" or "damaged"
  payload,    \* the group the payload of a profile names, None if it has none
  selected,   \* KEY_SELECTED_SERVER
  lock,       \* who holds the profile index lock
  listed,     \* the profiles that were ever on the list of a group: a screen
              \* may still show them
  asked,      \* history: the profiles somebody asked to remove
  revived,    \* history: the profiles that were put back on a list they had
              \* left when their payload was gone, and not saved since
  hazards,    \* how often an operation read without the lock, or an index was damaged
  job         \* what every actor is at

vars == <<index, key, payload, selected, lock, listed, asked, revived, hazards, job>>

Locked == {"payload", "select", "clean", "encode", "publish", "first"}
Listing == {"order", "remove", "dropGroup", "empty", "edit"}
Unlocked == Listing \cup {"forget", "drop", "emptyAll"}
Jobs ==
  [at : Locked \cup Unlocked \cup {"idle"}, group : Groups \cup {None}, append : BOOLEAN,
   batch : SUBSET Guids, todo : SUBSET Guids, old : SUBSET Guids, rest : SUBSET Groups,
   prev : Guids \cup {None}, pick : Guids \cup {None}]

Idle == [at |-> "idle", group |-> None, append |-> FALSE, batch |-> {}, todo |-> {},
         old |-> {}, rest |-> {}, prev |-> None, pick |-> None]

StoreTypeOK ==
  /\ index \in [Groups -> SUBSET Guids]
  /\ key \in [Groups -> {"absent", "readable", "damaged"}]
  /\ payload \in [Guids -> Groups \cup {None}]
  /\ asked \in SUBSET Guids /\ revived \in SUBSET Guids
  /\ selected \in Guids \cup {None}
  /\ lock \in Actors \cup {None}
  /\ listed \in [Groups -> SUBSET Guids] /\ hazards \in 0..MaxHazards
  /\ job \in [Actors -> Jobs]
  /\ \A p \in Actors : job[p].at \in Locked \cup Listing => job[p].group \in Groups

Init ==
  /\ index = [g \in Groups |-> {}] /\ key = [g \in Groups |-> "absent"]
  /\ payload = [x \in Guids |-> None] /\ selected = None /\ lock = None
  /\ listed = [g \in Groups |-> {}] /\ asked = {} /\ revived = {} /\ hazards = 0
  /\ job = [p \in Actors |-> Idle]

Indexed == UNION {index[g] : g \in Groups}
EverListed == UNION {listed[g] : g \in Groups}
Stored == {x \in Guids : payload[x] # None}

\* the payloads without those of some profiles
Without(profiles) == [x \in Guids |-> IF x \in profiles THEN None ELSE payload[x]]

\* getSubscriptionId of the payload as it is read
HomeOf(x) == IF payload[x] = None THEN Default ELSE payload[x]

\* a name nobody has seen yet; that of a batch that was cut off leaves no trace
\* but its payloads
New == Guids \ (EverListed \cup Stored \cup asked)

Count == hazards < MaxHazards /\ hazards' = hazards + 1
Become(p, j) == job' = [job EXCEPT ![p] = j]
Step(p, from, to) == job[p].at = from /\ job' = [job EXCEPT ![p].at = to]

\* persistServerList
WriteList(g, list) ==
  /\ index' = [index EXCEPT ![g] = list]
  /\ key' = [key EXCEPT ![g] = "readable"]

\* a list with profiles that are to be seen
Publish(g, list) ==
  WriteList(g, list) /\ listed' = [listed EXCEPT ![g] = @ \cup list]

\* encodeServerList of an actor that read the list without the lock: the list
\* may have changed since
WriteBack(g, list) ==
  /\ lock = None
  /\ WriteList(g, list)
  /\ revived' = revived \cup (list \ (index[g] \cup Stored))

-----------------------------------------------------------------------------
(* saveServerProfiles, under the lock *)

Lock(p) == lock = None /\ job[p] = Idle /\ lock' = p
Unlock(p) == lock' = None /\ Become(p, Idle)

\* a batch is saved that replaces or extends a list; a replaced selection is
\* followed by the best match in the batch (findSelectedReplacement)
SaveBegin(p) ==
  /\ Lock(p)
  /\ \E g \in Groups, append \in BOOLEAN :
     \E batch \in SUBSET New \ {{}} :
       LET old == IF append THEN {} ELSE index[g]
           moved == selected = None \/ (selected \in old /\ selected \in Stored)
       IN \E pick \in IF moved THEN batch ELSE {None} :
            Become(p, [at |-> "payload", group |-> g, append |-> append, batch |-> batch,
                       todo |-> batch, old |-> old, rest |-> {},
                       prev |-> IF old = {} THEN None ELSE selected, pick |-> pick])
  /\ UNCHANGED <<index, key, payload, selected, listed, asked, revived, hazards>>

SavePayload(p) ==
  /\ job[p].at = "payload"
  /\ \E x \in job[p].todo :
       /\ payload' = [payload EXCEPT ![x] = job[p].group]
       /\ job' = [job EXCEPT ![p].todo = @ \ {x}]
  /\ UNCHANGED <<index, key, selected, lock, listed, asked, revived, hazards>>

\* mutant: the list is published first
SavePublishEarly(p) ==
  /\ Step(p, "payload", "select")
  /\ Publish(job[p].group,
             IF job[p].append THEN index[job[p].group] \cup job[p].batch ELSE job[p].batch)
  /\ UNCHANGED <<payload, selected, lock, asked, revived, hazards>>

\* all payloads are there: the list is published
SavePublish(p) ==
  /\ Step(p, "payload", "select") /\ job[p].todo = {}
  /\ Publish(job[p].group,
             IF job[p].append THEN index[job[p].group] \cup job[p].batch ELSE job[p].batch)
  /\ UNCHANGED <<payload, selected, lock, asked, revived, hazards>>

\* with nothing replaced the batch is saved
SaveSelect(p) ==
  /\ job[p].at = "select"
  /\ selected' = IF job[p].pick = None THEN selected ELSE job[p].pick
  /\ IF job[p].old = {} THEN Unlock(p) ELSE Step(p, "select", "clean") /\ UNCHANGED lock
  /\ UNCHANGED <<index, key, payload, listed, asked, revived, hazards>>

\* mutant: that another group lists a profile does not spare it
SaveCleanAlone(p) ==
  /\ job[p].at = "clean"
  /\ LET g == job[p].group
         protected == IF job[p].pick # None THEN job[p].pick ELSE job[p].prev
         known == key[g] # "absent" /\ \A h \in Groups \ {g} : key[h] # "damaged"
     IN payload' = IF known THEN Without((job[p].old \ job[p].batch) \ {protected}) ELSE payload
  /\ Unlock(p)
  /\ UNCHANGED <<index, key, selected, listed, asked, revived, hazards>>

\* replaced payloads go, unless something may still refer to them
SaveClean(p) ==
  /\ job[p].at = "clean"
  /\ LET g == job[p].group
         others == UNION {index[h] : h \in Groups \ {g}}
         protected == IF job[p].pick # None THEN job[p].pick ELSE job[p].prev
         known == key[g] # "absent" /\ \A h \in Groups \ {g} : key[h] # "damaged"
     IN payload' = IF known
                   THEN Without((job[p].old \ job[p].batch) \ (others \cup {protected}))
                   ELSE payload
  /\ Unlock(p)
  /\ UNCHANGED <<index, key, selected, listed, asked, revived, hazards>>

SaveStep(p) ==
  \/ SaveBegin(p) \/ SavePayload(p) \/ SavePublish(p) \/ SaveSelect(p) \/ SaveClean(p)

-----------------------------------------------------------------------------
(* encodeServerConfig: a new profile, or one that is edited *)

\* an editor opens on a profile, or reads its payload once more to save it; for
\* a payload that is missing a new one is made, which names no group or that of
\* the screen
EditRead(p) ==
  /\ job[p] = Idle /\ Count
  /\ \E x \in EverListed, g \in Groups :
       /\ g = HomeOf(x) \/ (x \notin Stored /\ x \in listed[g])
       /\ Become(p, [Idle EXCEPT !.at = "edit", !.group = g, !.pick = x])
  /\ UNCHANGED <<index, key, payload, selected, lock, listed, asked, revived>>

\* the lock is taken to save the edit, or a new profile
EncodeBegin(p) ==
  /\ lock = None /\ lock' = p
  /\ \/ Step(p, "edit", "encode")
     \/ /\ job[p] = Idle
        /\ \E x \in New, g \in Groups :
             Become(p, [Idle EXCEPT !.at = "encode", !.group = g, !.pick = x])
  /\ UNCHANGED <<index, key, payload, selected, listed, asked, revived, hazards>>

EncodePayload(p) ==
  /\ job[p].at = "encode"
  /\ payload' = [payload EXCEPT ![job[p].pick] = job[p].group]
  /\ revived' = revived \ {job[p].pick}
  /\ IF job[p].pick \in index[job[p].group]
       THEN Unlock(p)
       ELSE Step(p, "encode", "publish") /\ UNCHANGED lock
  /\ UNCHANGED <<index, key, selected, listed, asked, hazards>>

EncodePublish(p) ==
  /\ Step(p, "publish", "first")
  /\ Publish(job[p].group, index[job[p].group] \cup {job[p].pick})
  /\ UNCHANGED <<payload, selected, lock, asked, revived, hazards>>

EncodeSelect(p) ==
  /\ job[p].at = "first"
  /\ selected' = IF selected = None THEN job[p].pick ELSE selected
  /\ Unlock(p)
  /\ UNCHANGED <<index, key, payload, listed, asked, revived, hazards>>

EncodeStep(p) ==
  \/ EditRead(p) \/ EncodeBegin(p) \/ EncodePayload(p) \/ EncodePublish(p) \/ EncodeSelect(p)

-----------------------------------------------------------------------------
(* Other operations under the lock, each of which writes at most one thing *)

\* mutant: the selection is written without the lock
SelectServerUnlocked(p) ==
  /\ job[p] = Idle
  /\ \E x \in EverListed : selected' = x
  /\ UNCHANGED <<index, key, payload, lock, listed, asked, revived, hazards, job>>

\* setSelectServer of a profile on the screen, which may be gone
SelectServer(p) ==
  /\ lock = None /\ job[p] = Idle
  /\ \E x \in EverListed : selected' = x
  /\ UNCHANGED <<index, key, payload, lock, listed, asked, revived, hazards, job>>

\* nothing refers to them, and the list of the group they name could tell
Orphans ==
  {x \in Stored : x \notin Indexed /\ x # selected /\ key[payload[x]] # "absent"}

\* mutant: a list that cannot be read counts as empty
CleanOrphansBlind(p) ==
  /\ lock = None /\ job[p] = Idle
  /\ payload' = Without(Orphans)
  /\ UNCHANGED <<index, key, selected, lock, listed, asked, revived, hazards, job>>

\* removeOrphanedServerProfiles, if every list can be read
CleanOrphans(p) ==
  /\ lock = None /\ job[p] = Idle
  /\ \A g \in Groups : key[g] # "damaged"
  /\ payload' = Without(Orphans)
  /\ UNCHANGED <<index, key, selected, lock, listed, asked, revived, hazards, job>>

-----------------------------------------------------------------------------
(* Operations that read without the lock *)

Read(p, at, g, what) ==
  /\ job[p] = Idle /\ Count
  /\ Become(p, [Idle EXCEPT !.at = at, !.group = g, !.old = index[g] \ what, !.batch = what])

\* sortByTestResultsForSub and moveServer: the same list in another order,
\* unless it is empty
OrderRead(p) ==
  /\ \E g \in Groups : index[g] # {} /\ Read(p, "order", g, {})
  /\ UNCHANGED <<index, key, payload, selected, lock, listed, asked, revived>>

OrderWrite(p) ==
  /\ job[p].at = "order"
  /\ WriteBack(job[p].group, job[p].old)
  /\ Become(p, Idle)
  /\ UNCHANGED <<payload, selected, lock, listed, asked, hazards>>

\* removeServer, on the list of the group its payload names, and removeServers
RemoveRead(p) ==
  /\ \E g \in Groups, what \in SUBSET EverListed \ {{}} :
       /\ what \subseteq listed[g] \/ (\E x \in what : what = {x} /\ g = HomeOf(x))
       /\ Read(p, "remove", g, what) /\ asked' = asked \cup what
  /\ UNCHANGED <<index, key, payload, selected, lock, listed, revived>>

\* the write is not checked, and left out if nothing changes
RemoveWrite(p) ==
  /\ job[p].at = "remove"
  /\ Become(p, [Idle EXCEPT !.at = "forget", !.batch = job[p].batch])
  /\ \/ WriteBack(job[p].group, job[p].old)
     \/ UNCHANGED <<index, key, revived>>
  /\ UNCHANGED <<payload, selected, lock, listed, asked, hazards>>

Forget(what) == selected' = IF selected \in what THEN None ELSE selected

RemoveSelected(p) ==
  /\ Step(p, "forget", "drop") /\ Forget(job[p].batch)
  /\ UNCHANGED <<index, key, payload, lock, listed, asked, revived, hazards>>

RemovePayload(p) ==
  /\ job[p].at = "drop" /\ payload' = Without(job[p].batch)
  /\ Become(p, Idle)
  /\ UNCHANGED <<index, key, selected, lock, listed, asked, revived, hazards>>

\* removeServerViaSubid: the payloads first, the list last
GroupRead(p) ==
  /\ \E g \in Groups : Read(p, "dropGroup", g, index[g]) /\ asked' = asked \cup index[g]
  /\ UNCHANGED <<index, key, payload, selected, lock, listed, revived>>

GroupDrop(p) ==
  /\ job[p].at = "dropGroup"
  /\ Become(p, [job[p] EXCEPT !.at = "empty", !.batch = {}])
  /\ Forget(job[p].batch) /\ payload' = Without(job[p].batch)
  /\ UNCHANGED <<index, key, lock, listed, asked, revived, hazards>>

GroupEmpty(p) ==
  /\ job[p].at = "empty"
  /\ WriteBack(job[p].group, {}) /\ asked' = asked \cup index[job[p].group]
  /\ Become(p, Idle)
  /\ UNCHANGED <<payload, selected, lock, listed, hazards>>

\* removeAllServer: all payloads, then list after list; the selection stays
AllDrop(p) ==
  /\ job[p] = Idle /\ Count
  /\ payload' = Without(Guids) /\ asked' = asked \cup Stored
  /\ Become(p, [Idle EXCEPT !.at = "emptyAll", !.rest = Groups])
  /\ UNCHANGED <<index, key, selected, lock, listed, revived>>

AllEmpty(p) ==
  /\ job[p].at = "emptyAll"
  /\ \E g \in job[p].rest :
       /\ WriteBack(g, {}) /\ asked' = asked \cup index[g]
       /\ Become(p, IF job[p].rest = {g} THEN Idle ELSE [job[p] EXCEPT !.rest = @ \ {g}])
  /\ UNCHANGED <<payload, selected, lock, listed, hazards>>

UnlockedStep(p) ==
  \/ OrderRead(p) \/ OrderWrite(p)
  \/ RemoveRead(p) \/ RemoveWrite(p) \/ RemoveSelected(p) \/ RemovePayload(p)
  \/ GroupRead(p) \/ GroupDrop(p) \/ GroupEmpty(p)
  \/ AllDrop(p) \/ AllEmpty(p)

-----------------------------------------------------------------------------

\* the process of p dies, or requireStorageWrite throws
Abort(p) ==
  /\ job[p] # Idle
  /\ Become(p, Idle) /\ lock' = IF lock = p THEN None ELSE lock
  /\ UNCHANGED <<index, key, payload, selected, listed, asked, revived, hazards>>

\* a process loads the store, which needs the lock, and the recovery of a
\* damaged file loses a list or leaves it unreadable
Damage ==
  /\ lock = None /\ Count
  /\ \E g \in Groups, k \in {"absent", "damaged"} :
       /\ key[g] = "readable"
       /\ key' = [key EXCEPT ![g] = k] /\ index' = [index EXCEPT ![g] = {}]
  /\ UNCHANGED <<payload, selected, lock, listed, asked, revived, job>>

Next ==
  \/ \E p \in Actors :
       \/ SaveStep(p) \/ EncodeStep(p) \/ SelectServer(p) \/ CleanOrphans(p) \/ UnlockedStep(p) \/ Abort(p)
  \/ Damage

Spec == Init /\ [][Next]_vars

-----------------------------------------------------------------------------
(* Properties *)

\* What a list shows can be used: a listed profile has its payload, whatever
\* was cut off or replaced meanwhile and whichever other group lists it, unless
\* somebody asked to remove it (MmkvManager.kt:300, "Saves a profile batch before
\* publishing its group index and removing replaced payloads"), or a list that
\* was read before a batch replaced it was written back after (revived).
ListedHavePayload == Indexed \subseteq Stored \cup asked \cup revived

\* The payload of the profile selected at that moment is never replaced or
\* cleaned away, although a batch decides at its first step what it will spare
\* and the user may select meanwhile (MmkvManager.kt:371-379,
\* ProfileReplacement.kt:58-70, OrphanProfileCleaner.kt:38).
SelectionIsSpared ==
  [][(selected \in Stored \ Stored') => selected \in asked']_vars

Replaced(g) ==
  \E p \in Actors : job[p].at = "payload" /\ ~job[p].append /\ job[p].group = g

\* A profile leaves its list only because somebody asked to remove it, or
\* because its list is replaced by a saved batch: sorting a group, moving or
\* removing another profile of it does not drop it (MmkvManager.kt:385-389,
\* AngConfigManager.kt:559-564).
ListsLoseNothing ==
  [][\A g \in Groups : \A x \in index[g] \ index'[g] :
       x \in asked' \/ Replaced(g) \/ key'[g] # "readable"]_vars

\* x is on the list a batch has just replaced
ReplacedIn(g, x) ==
  \E p \in Actors : job[p].at = "clean" /\ job[p].group = g /\ x \in job[p].old

\* MmkvManager.kt:572-574, "If any group index or profile payload needed for a
\* decision is unreadable, that data is preserved", by the cleaner as well as
\* by a batch that replaces a list: a payload goes only if every index can be
\* read and that of its group, or of the list it was on, is there.
DamageKeepsPayloads ==
  [][\A x \in Stored \ Stored' : x \in asked' \/
       /\ \A g \in Groups : key[g] # "damaged"
       /\ \E g \in Groups : key[g] = "readable" /\ (g = payload[x] \/ ReplacedIn(g, x))]_vars

\* The inductive invariant: the lock is held exactly by the operation that is
\* between its first and last locked step; what it wrote is still there; what
\* it publishes, selects or spares is what it decided on at its first step.
LockIsHeld == \A p \in Actors : lock = p <=> job[p].at \in Locked

SaveInv ==
  \A p \in Actors : LET j == job[p] IN
    /\ j.at = "payload" => j.batch \ j.todo \subseteq Stored \cup asked
    /\ j.at \in {"payload", "select"} => j.pick \in j.batch \cup {None}
    /\ j.at \in {"payload", "select"} /\ j.old # {} => selected \in {None, j.prev}
    /\ j.at = "select" => j.batch \subseteq Stored \cup asked
    /\ j.at = "clean" =>
         selected \in {None, IF j.pick # None THEN j.pick ELSE j.prev}
    /\ j.at \in {"payload", "select", "clean"} /\ j.append => j.old = {}
    /\ j.at \in {"select", "clean"} =>
         key[j.group] = "readable" /\ (index[j.group] \subseteq j.batch \/ j.append)
    /\ j.at \in {"edit", "encode", "publish", "first"} => j.pick # None
    /\ j.at \in {"publish", "first"} => j.pick \in Stored \cup asked

RemoveInv ==
  \A p \in Actors :
    job[p].at \in {"remove", "forget", "drop", "dropGroup"} => job[p].batch \subseteq asked

StoreInv ==
  StoreTypeOK /\ LockIsHeld /\ SaveInv /\ RemoveInv /\ ListedHavePayload
=============================================================================
