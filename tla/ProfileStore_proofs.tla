------------------------ MODULE ProfileStore_proofs ------------------------
(***************************************************************************)
(* Proofs about the profile store, for any number of actors, groups,       *)
(* profiles, unlocked operations and damages: every action keeps StoreInv. *)
(***************************************************************************)
EXTENDS ProfileStore, TLAPS

-----------------------------------------------------------------------------
(* What the assignments to job leave *)

LEMMA IdleIsJob == Idle \in Jobs
BY DEF Idle, Jobs

LEMMA BecomeFacts ==
  ASSUME NEW p \in Actors, NEW j \in Jobs, job \in [Actors -> Jobs], Become(p, j)
  PROVE  /\ job' \in [Actors -> Jobs]
         /\ job'[p] = j
         /\ \A q \in Actors \ {p} : job'[q] = job[q]
BY DEF Become

LEMMA StepFacts ==
  ASSUME NEW p \in Actors, NEW from, NEW to \in Locked \cup Unlocked \cup {"idle"},
         job \in [Actors -> Jobs], Step(p, from, to)
  PROVE  /\ job' \in [Actors -> Jobs]
         /\ job[p].at = from
         /\ job'[p] = [job[p] EXCEPT !.at = to]
         /\ \A q \in Actors \ {p} : job'[q] = job[q]
<1>1. [job[p] EXCEPT !.at = to] \in Jobs
  BY DEF Jobs
<1> QED
  BY <1>1 DEF Step

-----------------------------------------------------------------------------
(* What is written to payload: below it matters only which profiles have one *)

LEMMA NoneIsNobody == None \notin Guids /\ None \notin Groups /\ None \notin Actors
BY ProfileStoreAssumption

LEMMA StoredIsGuids == Stored \in SUBSET Guids
BY DEF Stored

LEMMA EverListedIsGuids ==
  ASSUME StoreInv
  PROVE  EverListed \in SUBSET Guids
BY DEF EverListed, StoreInv, StoreTypeOK

LEMMA SameStored ==
  ASSUME UNCHANGED payload
  PROVE  Stored' = Stored
BY DEF Stored

LEMMA WithoutFacts ==
  ASSUME StoreInv, NEW profiles, payload' = Without(profiles)
  PROVE  /\ payload' \in [Guids -> Groups \cup {None}]
         /\ Stored' = Stored \ profiles
BY DEF Without, Stored, StoreInv, StoreTypeOK

LEMMA SavedFacts ==
  ASSUME StoreInv, NEW x \in Guids, NEW g \in Groups, payload' = [payload EXCEPT ![x] = g]
  PROVE  /\ payload' \in [Guids -> Groups \cup {None}]
         /\ Stored' = Stored \cup {x}
BY NoneIsNobody DEF Stored, StoreInv, StoreTypeOK

LEMMA HomeIsGroup ==
  ASSUME StoreInv, NEW x \in Guids
  PROVE  HomeOf(x) \in Groups
BY ProfileStoreAssumption DEF HomeOf, StoreInv, StoreTypeOK

LEMMA CountFacts ==
  ASSUME StoreInv, Count
  PROVE  hazards' \in 0..MaxHazards
BY ProfileStoreAssumption DEF Count, StoreInv, StoreTypeOK

\* the type invariant, if job and the rest are shown apart
LEMMA TypeByParts ==
  ASSUME StoreInv, NEW p \in Actors,
         job' \in [Actors -> Jobs],
         \A q \in Actors \ {p} : job'[q] = job[q],
         job'[p].at \in Locked \cup Listing => job'[p].group \in Groups,
         UNCHANGED <<index, key, listed>>, hazards' \in 0..MaxHazards,
         payload' \in [Guids -> Groups \cup {None}],
         asked' \in SUBSET Guids, revived' \in SUBSET Guids,
         selected' \in Guids \cup {None}, lock' \in Actors \cup {None}
  PROVE  StoreTypeOK'
BY DEF StoreInv, StoreTypeOK

-----------------------------------------------------------------------------
(* saveServerProfiles *)

LEMMA SaveBeginKeeps ==
  ASSUME NEW p \in Actors, StoreInv, SaveBegin(p)
  PROVE  StoreInv'
<1>1. Stored' = Stored /\ payload' \in [Guids -> Groups \cup {None}]
  BY SameStored DEF SaveBegin, StoreInv, StoreTypeOK
<1>2. StoreTypeOK'
  BY SMTT(20), <1>1, ProfileStoreAssumption, StoredIsGuids DEF StoreInv,
     StoreTypeOK, Locked, Listing, Unlocked, Jobs, SaveBegin, Become, Idle,
     Lock, New
<1>3. LockIsHeld'
  BY SMTT(20), <1>1, <1>2, ProfileStoreAssumption DEF StoreInv, StoreTypeOK,
     LockIsHeld, Locked, Listing, Unlocked, Jobs, SaveBegin, Become, Idle,
     Lock, New
<1>4. SaveInv'
  BY SMTT(20), <1>1, <1>2, ProfileStoreAssumption DEF StoreInv, StoreTypeOK,
     LockIsHeld, SaveInv, RemoveInv, Locked, Listing, Unlocked, Jobs,
     SaveBegin, Become, Idle, Lock, New
<1>5. RemoveInv'
  BY SMTT(20), <1>1, <1>2, ProfileStoreAssumption DEF StoreInv, StoreTypeOK,
     LockIsHeld, RemoveInv, Locked, Listing, Unlocked, Jobs, SaveBegin, Become,
     Idle, Lock, New
<1>6. ListedHavePayload'
  BY SMTT(20), <1>1, <1>2, ProfileStoreAssumption DEF StoreInv, StoreTypeOK,
     LockIsHeld, SaveInv, RemoveInv, ListedHavePayload, Indexed, Locked, Jobs,
     SaveBegin, Become, Idle, Lock, New
<1> QED
  BY <1>2, <1>3, <1>4, <1>5, <1>6 DEF StoreInv

LEMMA SavePayloadKeeps ==
  ASSUME NEW p \in Actors, StoreInv, SavePayload(p)
  PROVE  StoreInv'
<1>1. PICK x \in job[p].todo :
        /\ Stored' = Stored \cup {x} /\ payload' \in [Guids -> Groups \cup {None}]
        /\ job' = [job EXCEPT ![p].todo = @ \ {x}]
  <2>1. PICK x \in job[p].todo :
          /\ payload' = [payload EXCEPT ![x] = job[p].group]
          /\ job' = [job EXCEPT ![p].todo = @ \ {x}]
    BY DEF SavePayload
  <2>2. x \in Guids /\ job[p].group \in Groups
    BY DEF SavePayload, StoreInv, StoreTypeOK, Jobs, Locked
  <2> QED
    BY <2>1, <2>2, SavedFacts
<1>2. StoreTypeOK'
  BY SMTT(20), <1>1, ProfileStoreAssumption, StoredIsGuids DEF StoreInv,
     StoreTypeOK, Locked, Listing, Unlocked, Jobs, SavePayload
<1>3. LockIsHeld'
  BY SMTT(20), <1>1, <1>2, ProfileStoreAssumption DEF StoreInv, StoreTypeOK,
     LockIsHeld, Locked, Listing, Unlocked, Jobs, SavePayload
<1>4. SaveInv'
  BY SMTT(20), <1>1, <1>2, ProfileStoreAssumption DEF StoreInv, StoreTypeOK,
     LockIsHeld, SaveInv, RemoveInv, Locked, Listing, Unlocked, Jobs,
     SavePayload
<1>5. RemoveInv'
  BY SMTT(20), <1>1, <1>2, ProfileStoreAssumption DEF StoreInv, StoreTypeOK,
     LockIsHeld, RemoveInv, Locked, Listing, Unlocked, Jobs, SavePayload
<1>6. ListedHavePayload'
  BY SMTT(20), <1>1, <1>2, ProfileStoreAssumption DEF StoreInv, StoreTypeOK,
     LockIsHeld, SaveInv, RemoveInv, ListedHavePayload, Indexed, Locked, Jobs,
     SavePayload
<1> QED
  BY <1>2, <1>3, <1>4, <1>5, <1>6 DEF StoreInv

LEMMA SavePublishKeeps ==
  ASSUME NEW p \in Actors, StoreInv, SavePublish(p)
  PROVE  StoreInv'
<1>1. Stored' = Stored /\ payload' \in [Guids -> Groups \cup {None}]
  BY SameStored DEF SavePublish, StoreInv, StoreTypeOK
<1>2. StoreTypeOK'
  BY SMTT(20), <1>1, ProfileStoreAssumption, StoredIsGuids DEF StoreInv,
     StoreTypeOK, Locked, Listing, Unlocked, Jobs, SavePublish, Step,
     WriteList, Publish
<1>3. LockIsHeld'
  BY SMTT(20), <1>1, <1>2, ProfileStoreAssumption DEF StoreInv, StoreTypeOK,
     LockIsHeld, Locked, Listing, Unlocked, Jobs, SavePublish, Step, WriteList,
     Publish
<1>4. SaveInv'
  BY SMTT(20), <1>1, <1>2, ProfileStoreAssumption DEF StoreInv, StoreTypeOK,
     LockIsHeld, SaveInv, RemoveInv, Locked, Listing, Unlocked, Jobs,
     SavePublish, Step, WriteList, Publish
<1>5. RemoveInv'
  BY SMTT(20), <1>1, <1>2, ProfileStoreAssumption DEF StoreInv, StoreTypeOK,
     LockIsHeld, RemoveInv, Locked, Listing, Unlocked, Jobs, SavePublish, Step,
     WriteList, Publish
<1>6. ListedHavePayload'
  BY SMTT(20), <1>1, <1>2, ProfileStoreAssumption DEF StoreInv, StoreTypeOK,
     LockIsHeld, SaveInv, RemoveInv, ListedHavePayload, Indexed, Locked, Jobs,
     SavePublish, Step, WriteList, Publish
<1> QED
  BY <1>2, <1>3, <1>4, <1>5, <1>6 DEF StoreInv

LEMMA SaveSelectKeeps ==
  ASSUME NEW p \in Actors, StoreInv, SaveSelect(p)
  PROVE  StoreInv'
<1>1. Stored' = Stored /\ payload' \in [Guids -> Groups \cup {None}]
  BY SameStored DEF SaveSelect, StoreInv, StoreTypeOK
<1>2. StoreTypeOK'
  <2>1. job' \in [Actors -> Jobs] /\ \A q \in Actors \ {p} : job'[q] = job[q]
    BY IdleIsJob, BecomeFacts, StepFacts DEF SaveSelect, Unlock, StoreInv, StoreTypeOK, Locked
  <2>2. job'[p] = Idle \/ job'[p] = [job[p] EXCEPT !.at = "clean"]
    BY IdleIsJob, BecomeFacts, StepFacts DEF SaveSelect, Unlock, StoreInv, StoreTypeOK, Locked
  <2>3. job'[p].at \in Locked \cup Listing => job'[p].group \in Groups
    BY <2>2 DEF SaveSelect, Idle, Jobs, Locked, Listing, StoreInv, StoreTypeOK
  <2> QED
    BY <1>1, <2>1, <2>3, TypeByParts DEF SaveSelect, Unlock, Step, StoreInv, StoreTypeOK, Jobs
<1>3. LockIsHeld'
  BY SMTT(20), <1>1, <1>2, ProfileStoreAssumption DEF StoreInv, StoreTypeOK,
     LockIsHeld, Locked, Listing, Unlocked, Jobs, SaveSelect, Become, Step,
     Idle, Unlock
<1>4. SaveInv'
  BY SMTT(20), <1>1, <1>2, ProfileStoreAssumption DEF StoreInv, StoreTypeOK,
     LockIsHeld, SaveInv, RemoveInv, Locked, Listing, Unlocked, Jobs,
     SaveSelect, Become, Step, Idle, Unlock
<1>5. RemoveInv'
  BY SMTT(20), <1>1, <1>2, ProfileStoreAssumption DEF StoreInv, StoreTypeOK,
     LockIsHeld, RemoveInv, Locked, Listing, Unlocked, Jobs, SaveSelect,
     Become, Step, Idle, Unlock
<1>6. ListedHavePayload'
  BY SMTT(20), <1>1, <1>2, ProfileStoreAssumption DEF StoreInv, StoreTypeOK,
     LockIsHeld, SaveInv, RemoveInv, ListedHavePayload, Indexed, Locked, Jobs,
     SaveSelect, Become, Step, Idle, Unlock
<1> QED
  BY <1>2, <1>3, <1>4, <1>5, <1>6 DEF StoreInv

\* what a batch removes, if it removes anything
Gone(p) ==
  LET others == UNION {index[h] : h \in Groups \ {job[p].group}}
      protected == IF job[p].pick # None THEN job[p].pick ELSE job[p].prev
  IN (job[p].old \ job[p].batch) \ (others \cup {protected})

LEMMA Replacing ==
  ASSUME NEW p, SaveClean(p)
  PROVE  \/ payload' = payload
         \/ /\ \A h \in Groups \ {job[p].group} : key[h] # "damaged"
            /\ payload' = Without(Gone(p))
<1> DEFINE known == /\ key[job[p].group] # "absent"
                    /\ \A h \in Groups \ {job[p].group} : key[h] # "damaged"
           left == Without(Gone(p))
<1>1. payload' = IF known THEN left ELSE payload
  BY DEF SaveClean, Gone
<1>2. known => \A h \in Groups \ {job[p].group} : key[h] # "damaged"
  OBVIOUS
<1> HIDE DEF known
<1> QED
  BY <1>1, <1>2

LEMMA SaveCleanKeeps ==
  ASSUME NEW p \in Actors, StoreInv, SaveClean(p)
  PROVE  StoreInv'
<1>1. /\ Stored' = Stored \/ Stored' = Stored \ Gone(p)
      /\ payload' \in [Guids -> Groups \cup {None}]
  BY Replacing, SameStored, WithoutFacts DEF StoreInv, StoreTypeOK
<1>2. StoreTypeOK'
  BY SMTT(20), <1>1, ProfileStoreAssumption, StoredIsGuids DEF StoreInv,
     StoreTypeOK, Locked, Listing, Unlocked, Jobs, SaveClean, Become, Idle,
     Unlock, Gone
<1>3. LockIsHeld'
  BY SMTT(20), <1>1, <1>2, ProfileStoreAssumption DEF StoreInv, StoreTypeOK,
     LockIsHeld, Locked, Listing, Unlocked, Jobs, SaveClean, Become, Idle,
     Unlock, Gone
<1>4. SaveInv'
  BY SMTT(20), <1>1, <1>2, ProfileStoreAssumption DEF StoreInv, StoreTypeOK,
     LockIsHeld, SaveInv, RemoveInv, Locked, Listing, Unlocked, Jobs,
     SaveClean, Become, Idle, Unlock, Gone
<1>5. RemoveInv'
  BY SMTT(20), <1>1, <1>2, ProfileStoreAssumption DEF StoreInv, StoreTypeOK,
     LockIsHeld, RemoveInv, Locked, Listing, Unlocked, Jobs, SaveClean, Become,
     Idle, Unlock, Gone
<1>6. ListedHavePayload'
  BY SMTT(20), <1>1, <1>2, ProfileStoreAssumption DEF StoreInv, StoreTypeOK,
     LockIsHeld, SaveInv, RemoveInv, ListedHavePayload, Indexed, Locked, Jobs,
     SaveClean, Become, Idle, Unlock, Gone
<1> QED
  BY <1>2, <1>3, <1>4, <1>5, <1>6 DEF StoreInv

-----------------------------------------------------------------------------
(* encodeServerConfig *)

LEMMA EditReadKeeps ==
  ASSUME NEW p \in Actors, StoreInv, EditRead(p)
  PROVE  StoreInv'
<1>1. Stored' = Stored /\ payload' \in [Guids -> Groups \cup {None}]
  BY SameStored DEF EditRead, StoreInv, StoreTypeOK
<1>2. StoreTypeOK'
  <2>1. PICK x \in EverListed, g \in Groups :
          Become(p, [Idle EXCEPT !.at = "edit", !.group = g, !.pick = x])
    BY DEF EditRead, Read
  <2>2. [Idle EXCEPT !.at = "edit", !.group = g, !.pick = x] \in Jobs
    BY <2>1, ProfileStoreAssumption, EverListedIsGuids
       DEF Idle, Jobs, StoreInv, StoreTypeOK, Locked, Listing, Unlocked
  <2>3. /\ job' \in [Actors -> Jobs]
        /\ job'[p] = [Idle EXCEPT !.at = "edit", !.group = g, !.pick = x]
        /\ \A q \in Actors \ {p} : job'[q] = job[q]
    BY <2>1, <2>2, BecomeFacts DEF StoreInv, StoreTypeOK
  <2>4. job'[p].at \in Locked \cup Listing => job'[p].group \in Groups
    BY <2>1, <2>3, ProfileStoreAssumption, EverListedIsGuids
       DEF Idle, Locked, Listing, Jobs, StoreInv, StoreTypeOK
  <2>5. hazards' \in 0..MaxHazards
    BY CountFacts DEF EditRead, Read, StoreInv, StoreTypeOK
  <2> QED
    BY <1>1, <2>1, <2>3, <2>4, <2>5, TypeByParts, StoredIsGuids, EverListedIsGuids
       DEF EditRead, Read, Lock, Forget, StoreInv, StoreTypeOK, Jobs
<1>3. LockIsHeld'
  BY SMTT(20), <1>1, <1>2, ProfileStoreAssumption DEF StoreInv, StoreTypeOK,
     LockIsHeld, Locked, Listing, Unlocked, Jobs, EditRead, Become, Idle
<1>4. SaveInv'
  BY SMTT(20), <1>1, <1>2, ProfileStoreAssumption DEF StoreInv, StoreTypeOK,
     LockIsHeld, SaveInv, RemoveInv, Locked, Listing, Unlocked, Jobs, EditRead,
     Become, Idle, EverListed
<1>5. RemoveInv'
  BY SMTT(20), <1>1, <1>2, ProfileStoreAssumption DEF StoreInv, StoreTypeOK,
     LockIsHeld, RemoveInv, Locked, Listing, Unlocked, Jobs, EditRead, Become,
     Idle, EverListed
<1>6. ListedHavePayload'
  BY SMTT(20), <1>1, <1>2, ProfileStoreAssumption DEF StoreInv, StoreTypeOK,
     LockIsHeld, SaveInv, RemoveInv, ListedHavePayload, Indexed, Locked, Jobs,
     EditRead, Become, Idle
<1> QED
  BY <1>2, <1>3, <1>4, <1>5, <1>6 DEF StoreInv

LEMMA EncodeBeginKeeps ==
  ASSUME NEW p \in Actors, StoreInv, EncodeBegin(p)
  PROVE  StoreInv'
<1>1. /\ Stored' = Stored /\ payload' \in [Guids -> Groups \cup {None}]
      /\ job[p].at \in {"edit", "idle"} /\ lock = None /\ lock' = p
      /\ UNCHANGED <<index, key, selected, listed, asked, revived, hazards>>
      /\ job' \in [Actors -> Jobs] /\ \A q \in Actors \ {p} : job'[q] = job[q]
      /\ job'[p].at = "encode" /\ job'[p].group \in Groups /\ job'[p].pick # None
  <2>1. CASE Step(p, "edit", "encode")
    <3>1. job'[p] = [job[p] EXCEPT !.at = "encode"] /\ job[p] \in Jobs
      BY <2>1, StepFacts DEF StoreInv, StoreTypeOK, Locked
    <3>2. job[p].group \in Groups /\ job[p].pick # None
      BY <2>1 DEF Step, StoreInv, StoreTypeOK, SaveInv, Listing
    <3>3. job' \in [Actors -> Jobs] /\ \A q \in Actors \ {p} : job'[q] = job[q]
      BY <2>1, StepFacts DEF StoreInv, StoreTypeOK, Locked
    <3> QED
      BY <2>1, <3>1, <3>2, <3>3, SameStored DEF EncodeBegin, Step, Jobs, StoreInv, StoreTypeOK
  <2>2. ASSUME NEW x \in New, NEW g \in Groups, job[p] = Idle,
               Become(p, [Idle EXCEPT !.at = "encode", !.group = g, !.pick = x])
        PROVE  /\ job[p].at \in {"edit", "idle"}
               /\ job' \in [Actors -> Jobs] /\ \A q \in Actors \ {p} : job'[q] = job[q]
               /\ job'[p].at = "encode" /\ job'[p].group \in Groups /\ job'[p].pick # None
    <3>1. [Idle EXCEPT !.at = "encode", !.group = g, !.pick = x] \in Jobs
      BY DEF New, Idle, Jobs, Locked
    <3>2. /\ job' \in [Actors -> Jobs] /\ \A q \in Actors \ {p} : job'[q] = job[q]
          /\ job'[p] = [Idle EXCEPT !.at = "encode", !.group = g, !.pick = x]
      BY <2>2, <3>1, BecomeFacts DEF StoreInv, StoreTypeOK
    <3>3. x # None
      BY NoneIsNobody DEF New
    <3> QED
      BY <2>2, <3>2, <3>3 DEF Idle
  <2> QED
    BY <2>1, <2>2, SameStored DEF EncodeBegin, StoreInv, StoreTypeOK
<1>2. StoreTypeOK'
  BY <1>1, TypeByParts DEF StoreInv, StoreTypeOK
<1>3. LockIsHeld'
  BY SMTT(20), <1>1, <1>2, ProfileStoreAssumption DEF StoreInv, StoreTypeOK,
     LockIsHeld, Locked, Listing, Unlocked, Jobs
<1>4. SaveInv'
  BY SMTT(20), <1>1, <1>2, ProfileStoreAssumption DEF StoreInv, StoreTypeOK,
     LockIsHeld, SaveInv, RemoveInv, Locked, Listing, Unlocked, Jobs
<1>5. RemoveInv'
  BY SMTT(20), <1>1, <1>2, ProfileStoreAssumption DEF StoreInv, StoreTypeOK,
     LockIsHeld, RemoveInv, Locked, Listing, Unlocked, Jobs
<1>6. ListedHavePayload'
  BY SMTT(20), <1>1, <1>2, ProfileStoreAssumption DEF StoreInv, StoreTypeOK,
     LockIsHeld, SaveInv, RemoveInv, ListedHavePayload, Indexed, Locked, Jobs
<1> QED
  BY <1>2, <1>3, <1>4, <1>5, <1>6 DEF StoreInv

LEMMA EncodePayloadKeeps ==
  ASSUME NEW p \in Actors, StoreInv, EncodePayload(p)
  PROVE  StoreInv'
<1>1. /\ Stored' = Stored \cup {job[p].pick} /\ payload' \in [Guids -> Groups \cup {None}]
      /\ job[p].pick \in Guids
  <2>1. job[p].pick \in Guids /\ job[p].group \in Groups
    BY DEF EncodePayload, StoreInv, StoreTypeOK, SaveInv, Jobs, Locked
  <2> QED
    BY <2>1, SavedFacts DEF EncodePayload
<1>2. StoreTypeOK'
  <2>1. job' \in [Actors -> Jobs] /\ \A q \in Actors \ {p} : job'[q] = job[q]
    BY IdleIsJob, BecomeFacts, StepFacts DEF EncodePayload, Unlock, StoreInv, StoreTypeOK, Locked
  <2>2. job'[p] = Idle \/ job'[p] = [job[p] EXCEPT !.at = "publish"]
    BY IdleIsJob, BecomeFacts, StepFacts DEF EncodePayload, Unlock, StoreInv, StoreTypeOK, Locked
  <2>3. job'[p].at \in Locked \cup Listing => job'[p].group \in Groups
    BY <2>2 DEF EncodePayload, Idle, Jobs, Locked, Listing, StoreInv, StoreTypeOK
  <2> QED
    BY <1>1, <2>1, <2>3, TypeByParts DEF EncodePayload, Unlock, Step, StoreInv, StoreTypeOK, Jobs
<1>3. LockIsHeld'
  BY SMTT(20), <1>1, <1>2, ProfileStoreAssumption DEF StoreInv, StoreTypeOK,
     LockIsHeld, Locked, Listing, Unlocked, Jobs, EncodePayload, Become, Step,
     Idle, Unlock
<1>4. SaveInv'
  BY SMTT(20), <1>1, <1>2, ProfileStoreAssumption DEF StoreInv, StoreTypeOK,
     LockIsHeld, SaveInv, RemoveInv, Locked, Listing, Unlocked, Jobs,
     EncodePayload, Become, Step, Idle, Unlock
<1>5. RemoveInv'
  BY SMTT(20), <1>1, <1>2, ProfileStoreAssumption DEF StoreInv, StoreTypeOK,
     LockIsHeld, RemoveInv, Locked, Listing, Unlocked, Jobs, EncodePayload,
     Become, Step, Idle, Unlock
<1>6. ListedHavePayload'
  BY SMTT(20), <1>1, <1>2, ProfileStoreAssumption DEF StoreInv, StoreTypeOK,
     LockIsHeld, SaveInv, RemoveInv, ListedHavePayload, Indexed, Locked, Jobs,
     EncodePayload, Become, Step, Idle, Unlock
<1> QED
  BY <1>2, <1>3, <1>4, <1>5, <1>6 DEF StoreInv

LEMMA EncodePublishKeeps ==
  ASSUME NEW p \in Actors, StoreInv, EncodePublish(p)
  PROVE  StoreInv'
<1>1. Stored' = Stored /\ payload' \in [Guids -> Groups \cup {None}]
  BY SameStored DEF EncodePublish, StoreInv, StoreTypeOK
<1>2. StoreTypeOK'
  BY SMTT(20), <1>1, ProfileStoreAssumption, StoredIsGuids DEF StoreInv,
     StoreTypeOK, Locked, Listing, Unlocked, Jobs, SaveInv, EncodePublish,
     Step, WriteList, Publish
<1>3. LockIsHeld'
  BY SMTT(20), <1>1, <1>2, ProfileStoreAssumption DEF StoreInv, StoreTypeOK,
     LockIsHeld, Locked, Listing, Unlocked, Jobs, EncodePublish, Step,
     WriteList, Publish
<1>4. SaveInv'
  BY SMTT(20), <1>1, <1>2, ProfileStoreAssumption DEF StoreInv, StoreTypeOK,
     LockIsHeld, SaveInv, RemoveInv, Locked, Listing, Unlocked, Jobs,
     EncodePublish, Step, WriteList, Publish
<1>5. RemoveInv'
  BY SMTT(20), <1>1, <1>2, ProfileStoreAssumption DEF StoreInv, StoreTypeOK,
     LockIsHeld, RemoveInv, Locked, Listing, Unlocked, Jobs, EncodePublish,
     Step, WriteList, Publish
<1>6. ListedHavePayload'
  BY SMTT(20), <1>1, <1>2, ProfileStoreAssumption DEF StoreInv, StoreTypeOK,
     LockIsHeld, SaveInv, RemoveInv, ListedHavePayload, Indexed, Locked, Jobs,
     EncodePublish, Step, WriteList, Publish
<1> QED
  BY <1>2, <1>3, <1>4, <1>5, <1>6 DEF StoreInv

LEMMA EncodeSelectKeeps ==
  ASSUME NEW p \in Actors, StoreInv, EncodeSelect(p)
  PROVE  StoreInv'
<1>1. Stored' = Stored /\ payload' \in [Guids -> Groups \cup {None}]
  BY SameStored DEF EncodeSelect, StoreInv, StoreTypeOK
<1>2. StoreTypeOK'
  BY SMTT(20), <1>1, ProfileStoreAssumption, StoredIsGuids DEF StoreInv,
     StoreTypeOK, Locked, Listing, Unlocked, Jobs, EncodeSelect, Become, Idle,
     Unlock
<1>3. LockIsHeld'
  BY SMTT(20), <1>1, <1>2, ProfileStoreAssumption DEF StoreInv, StoreTypeOK,
     LockIsHeld, Locked, Listing, Unlocked, Jobs, EncodeSelect, Become, Idle,
     Unlock
<1>4. SaveInv'
  BY SMTT(20), <1>1, <1>2, ProfileStoreAssumption DEF StoreInv, StoreTypeOK,
     LockIsHeld, SaveInv, RemoveInv, Locked, Listing, Unlocked, Jobs,
     EncodeSelect, Become, Idle, Unlock
<1>5. RemoveInv'
  BY SMTT(20), <1>1, <1>2, ProfileStoreAssumption DEF StoreInv, StoreTypeOK,
     LockIsHeld, RemoveInv, Locked, Listing, Unlocked, Jobs, EncodeSelect,
     Become, Idle, Unlock
<1>6. ListedHavePayload'
  BY SMTT(20), <1>1, <1>2, ProfileStoreAssumption DEF StoreInv, StoreTypeOK,
     LockIsHeld, SaveInv, RemoveInv, ListedHavePayload, Indexed, Locked, Jobs,
     EncodeSelect, Become, Idle, Unlock
<1> QED
  BY <1>2, <1>3, <1>4, <1>5, <1>6 DEF StoreInv

-----------------------------------------------------------------------------
(* The other operations under the lock *)

LEMMA SelectServerKeeps ==
  ASSUME NEW p \in Actors, StoreInv, SelectServer(p)
  PROVE  StoreInv'
<1>1. Stored' = Stored /\ payload' \in [Guids -> Groups \cup {None}]
  BY SameStored DEF SelectServer, StoreInv, StoreTypeOK
<1>2. StoreTypeOK'
  BY SMTT(20), <1>1, ProfileStoreAssumption, StoredIsGuids DEF StoreInv,
     StoreTypeOK, Locked, Listing, Unlocked, Jobs, SelectServer, Idle,
     EverListed
<1>3. LockIsHeld'
  BY SMTT(20), <1>1, <1>2, ProfileStoreAssumption DEF StoreInv, StoreTypeOK,
     LockIsHeld, Locked, Listing, Unlocked, Jobs, SelectServer, Idle
<1>4. SaveInv'
  BY SMTT(20), <1>1, <1>2, ProfileStoreAssumption DEF StoreInv, StoreTypeOK,
     LockIsHeld, SaveInv, RemoveInv, Locked, Listing, Unlocked, Jobs,
     SelectServer, Idle, EverListed
<1>5. RemoveInv'
  BY SMTT(20), <1>1, <1>2, ProfileStoreAssumption DEF StoreInv, StoreTypeOK,
     LockIsHeld, RemoveInv, Locked, Listing, Unlocked, Jobs, SelectServer,
     Idle, EverListed
<1>6. ListedHavePayload'
  BY SMTT(20), <1>1, <1>2, ProfileStoreAssumption DEF StoreInv, StoreTypeOK,
     LockIsHeld, SaveInv, RemoveInv, ListedHavePayload, Indexed, Locked, Jobs,
     SelectServer, Idle
<1> QED
  BY <1>2, <1>3, <1>4, <1>5, <1>6 DEF StoreInv

LEMMA CleanOrphansKeeps ==
  ASSUME NEW p \in Actors, StoreInv, CleanOrphans(p)
  PROVE  StoreInv'
<1>1. /\ Stored' = Stored \ Orphans /\ payload' \in [Guids -> Groups \cup {None}]
      /\ Orphans \cap Indexed = {}
  BY WithoutFacts DEF CleanOrphans, Orphans
<1>2. StoreTypeOK'
  BY SMTT(20), <1>1, ProfileStoreAssumption, StoredIsGuids DEF StoreInv,
     StoreTypeOK, Locked, Listing, Unlocked, Jobs, CleanOrphans, Idle
<1>3. LockIsHeld'
  BY SMTT(20), <1>1, <1>2, ProfileStoreAssumption DEF StoreInv, StoreTypeOK,
     LockIsHeld, Locked, Listing, Unlocked, Jobs, CleanOrphans, Idle
<1>4. SaveInv'
  BY SMTT(20), <1>1, <1>2, ProfileStoreAssumption DEF StoreInv, StoreTypeOK,
     LockIsHeld, SaveInv, RemoveInv, Locked, Listing, Unlocked, Jobs,
     CleanOrphans, Idle
<1>5. RemoveInv'
  BY SMTT(20), <1>1, <1>2, ProfileStoreAssumption DEF StoreInv, StoreTypeOK,
     LockIsHeld, RemoveInv, Locked, Listing, Unlocked, Jobs, CleanOrphans, Idle
<1>6. ListedHavePayload'
  BY SMTT(20), <1>1, <1>2, ProfileStoreAssumption DEF StoreInv, StoreTypeOK,
     LockIsHeld, SaveInv, RemoveInv, ListedHavePayload, Indexed, Locked, Jobs,
     CleanOrphans, Idle
<1> QED
  BY <1>2, <1>3, <1>4, <1>5, <1>6 DEF StoreInv

-----------------------------------------------------------------------------
(* Operations that read without the lock *)

LEMMA OrderReadKeeps ==
  ASSUME NEW p \in Actors, StoreInv, OrderRead(p)
  PROVE  StoreInv'
<1>1. Stored' = Stored /\ payload' \in [Guids -> Groups \cup {None}]
  BY SameStored DEF OrderRead, StoreInv, StoreTypeOK
<1>2. StoreTypeOK'
  <2>1. PICK g \in Groups :
          Become(p, [Idle EXCEPT !.at = "order", !.group = g, !.old = index[g] \ {}, !.batch = {}])
    BY DEF OrderRead, Read
  <2>2. [Idle EXCEPT !.at = "order", !.group = g, !.old = index[g] \ {}, !.batch = {}] \in Jobs
    BY <2>1, ProfileStoreAssumption DEF Idle, Jobs, StoreInv, StoreTypeOK, Locked, Listing, Unlocked
  <2>3. /\ job' \in [Actors -> Jobs]
        /\ job'[p] = [Idle EXCEPT !.at = "order", !.group = g, !.old = index[g] \ {}, !.batch = {}]
        /\ \A q \in Actors \ {p} : job'[q] = job[q]
    BY <2>1, <2>2, BecomeFacts DEF StoreInv, StoreTypeOK
  <2>4. job'[p].at \in Locked \cup Listing => job'[p].group \in Groups
    BY <2>1, <2>3, ProfileStoreAssumption DEF Idle, Locked, Listing, Jobs, StoreInv, StoreTypeOK
  <2>5. hazards' \in 0..MaxHazards
    BY CountFacts DEF OrderRead, Read, StoreInv, StoreTypeOK
  <2> QED
    BY <1>1, <2>1, <2>3, <2>4, <2>5, TypeByParts, StoredIsGuids
       DEF OrderRead, Read, Lock, Forget, StoreInv, StoreTypeOK, Jobs
<1>3. LockIsHeld'
  BY SMTT(20), <1>1, <1>2, ProfileStoreAssumption DEF StoreInv, StoreTypeOK,
     LockIsHeld, Locked, Listing, Unlocked, Jobs, OrderRead, Become, Idle, Read
<1>4. SaveInv'
  BY SMTT(20), <1>1, <1>2, ProfileStoreAssumption DEF StoreInv, StoreTypeOK,
     LockIsHeld, SaveInv, RemoveInv, Locked, Listing, Unlocked, Jobs,
     OrderRead, Become, Idle, Read
<1>5. RemoveInv'
  BY SMTT(20), <1>1, <1>2, ProfileStoreAssumption DEF StoreInv, StoreTypeOK,
     LockIsHeld, RemoveInv, Locked, Listing, Unlocked, Jobs, OrderRead, Become,
     Idle, Read
<1>6. ListedHavePayload'
  BY SMTT(20), <1>1, <1>2, ProfileStoreAssumption DEF StoreInv, StoreTypeOK,
     LockIsHeld, SaveInv, RemoveInv, ListedHavePayload, Indexed, Locked, Jobs,
     OrderRead, Become, Idle, Read
<1> QED
  BY <1>2, <1>3, <1>4, <1>5, <1>6 DEF StoreInv

LEMMA OrderWriteKeeps ==
  ASSUME NEW p \in Actors, StoreInv, OrderWrite(p)
  PROVE  StoreInv'
<1>1. Stored' = Stored /\ payload' \in [Guids -> Groups \cup {None}]
  BY SameStored DEF OrderWrite, StoreInv, StoreTypeOK
<1>2. StoreTypeOK'
  BY SMTT(20), <1>1, ProfileStoreAssumption, StoredIsGuids DEF StoreInv,
     StoreTypeOK, Locked, Listing, Unlocked, Jobs, OrderWrite, Become, Idle,
     WriteList, WriteBack
<1>3. LockIsHeld'
  BY SMTT(20), <1>1, <1>2, ProfileStoreAssumption DEF StoreInv, StoreTypeOK,
     LockIsHeld, Locked, Listing, Unlocked, Jobs, OrderWrite, Become, Idle,
     WriteList, WriteBack
<1>4. SaveInv'
  BY SMTT(20), <1>1, <1>2, ProfileStoreAssumption DEF StoreInv, StoreTypeOK,
     LockIsHeld, SaveInv, RemoveInv, Locked, Listing, Unlocked, Jobs,
     OrderWrite, Become, Idle, WriteList, WriteBack
<1>5. RemoveInv'
  BY SMTT(20), <1>1, <1>2, ProfileStoreAssumption DEF StoreInv, StoreTypeOK,
     LockIsHeld, RemoveInv, Locked, Listing, Unlocked, Jobs, OrderWrite,
     Become, Idle, WriteList, WriteBack
<1>6. ListedHavePayload'
  BY SMTT(20), <1>1, <1>2, ProfileStoreAssumption DEF StoreInv, StoreTypeOK,
     LockIsHeld, SaveInv, RemoveInv, ListedHavePayload, Indexed, Locked, Jobs,
     OrderWrite, Become, Idle, WriteList, WriteBack
<1> QED
  BY <1>2, <1>3, <1>4, <1>5, <1>6 DEF StoreInv

LEMMA RemoveReadKeeps ==
  ASSUME NEW p \in Actors, StoreInv, RemoveRead(p)
  PROVE  StoreInv'
<1>1. Stored' = Stored /\ payload' \in [Guids -> Groups \cup {None}]
  BY SameStored DEF RemoveRead, StoreInv, StoreTypeOK
<1>2. StoreTypeOK'
  <2>1. PICK g \in Groups, what \in SUBSET EverListed :
          /\ asked' = asked \cup what
          /\ Become(p, [Idle EXCEPT !.at = "remove", !.group = g, !.old = index[g] \ what,
                          !.batch = what])
    BY DEF RemoveRead, Read
  <2>2. [Idle EXCEPT !.at = "remove", !.group = g, !.old = index[g] \ what,
                          !.batch = what] \in Jobs
    BY <2>1, ProfileStoreAssumption, EverListedIsGuids
       DEF Idle, Jobs, StoreInv, StoreTypeOK, Locked, Listing, Unlocked
  <2>3. /\ job' \in [Actors -> Jobs]
        /\ job'[p] = [Idle EXCEPT !.at = "remove", !.group = g, !.old = index[g] \ what,
                          !.batch = what]
        /\ \A q \in Actors \ {p} : job'[q] = job[q]
    BY <2>1, <2>2, BecomeFacts DEF StoreInv, StoreTypeOK
  <2>4. job'[p].at \in Locked \cup Listing => job'[p].group \in Groups
    BY <2>1, <2>3, ProfileStoreAssumption, EverListedIsGuids
       DEF Idle, Locked, Listing, Jobs, StoreInv, StoreTypeOK
  <2>5. hazards' \in 0..MaxHazards
    BY CountFacts DEF RemoveRead, Read, StoreInv, StoreTypeOK
  <2> QED
    BY <1>1, <2>1, <2>3, <2>4, <2>5, TypeByParts, StoredIsGuids, EverListedIsGuids
       DEF RemoveRead, Read, Lock, Forget, StoreInv, StoreTypeOK, Jobs
<1>3. LockIsHeld'
  BY SMTT(20), <1>1, <1>2, ProfileStoreAssumption DEF StoreInv, StoreTypeOK,
     LockIsHeld, Locked, Listing, Unlocked, Jobs, RemoveRead, Become, Idle,
     Read
<1>4. SaveInv'
  BY SMTT(20), <1>1, <1>2, ProfileStoreAssumption DEF StoreInv, StoreTypeOK,
     LockIsHeld, SaveInv, RemoveInv, Locked, Listing, Unlocked, Jobs,
     RemoveRead, Become, Idle, Read, EverListed
<1>5. RemoveInv'
  BY SMTT(20), <1>1, <1>2, ProfileStoreAssumption DEF StoreInv, StoreTypeOK,
     LockIsHeld, RemoveInv, Locked, Listing, Unlocked, Jobs, RemoveRead,
     Become, Idle, Read, EverListed
<1>6. ListedHavePayload'
  BY SMTT(20), <1>1, <1>2, ProfileStoreAssumption DEF StoreInv, StoreTypeOK,
     LockIsHeld, SaveInv, RemoveInv, ListedHavePayload, Indexed, Locked, Jobs,
     RemoveRead, Become, Idle, Read
<1> QED
  BY <1>2, <1>3, <1>4, <1>5, <1>6 DEF StoreInv

LEMMA RemoveWriteKeeps ==
  ASSUME NEW p \in Actors, StoreInv, RemoveWrite(p)
  PROVE  StoreInv'
<1>1. Stored' = Stored /\ payload' \in [Guids -> Groups \cup {None}]
  BY SameStored DEF RemoveWrite, StoreInv, StoreTypeOK
<1>2. StoreTypeOK'
  <2>1. job[p].at = "remove" /\ Become(p, [Idle EXCEPT !.at = "forget", !.batch = job[p].batch])
    BY DEF RemoveWrite
  <2>2. [Idle EXCEPT !.at = "forget", !.batch = job[p].batch] \in Jobs
    BY DEF Idle, Jobs, StoreInv, StoreTypeOK, Locked, Listing, Unlocked
  <2>3. /\ job' \in [Actors -> Jobs]
        /\ job'[p] = [Idle EXCEPT !.at = "forget", !.batch = job[p].batch]
        /\ \A q \in Actors \ {p} : job'[q] = job[q]
    BY <2>1, <2>2, BecomeFacts DEF StoreInv, StoreTypeOK
  <2>4. /\ index' \in [Groups -> SUBSET Guids]
        /\ key' \in [Groups -> {"absent", "readable", "damaged"}]
        /\ revived' \in SUBSET Guids
    BY DEF RemoveWrite, WriteBack, WriteList, StoreInv, StoreTypeOK, Jobs
  <2> QED
    BY <2>3, <2>4 DEF RemoveWrite, StoreInv, StoreTypeOK, Locked, Listing, Idle
<1>3. LockIsHeld'
  BY SMTT(20), <1>1, <1>2, ProfileStoreAssumption DEF StoreInv, StoreTypeOK,
     LockIsHeld, Locked, Listing, Unlocked, Jobs, RemoveWrite, Become, Idle,
     WriteList, WriteBack
<1>4. SaveInv'
  BY SMTT(20), <1>1, <1>2, ProfileStoreAssumption DEF StoreInv, StoreTypeOK,
     LockIsHeld, SaveInv, RemoveInv, Locked, Listing, Unlocked, Jobs,
     RemoveWrite, Become, Idle, WriteList, WriteBack
<1>5. RemoveInv'
  BY SMTT(20), <1>1, <1>2, ProfileStoreAssumption DEF StoreInv, StoreTypeOK,
     LockIsHeld, RemoveInv, Locked, Listing, Unlocked, Jobs, RemoveWrite,
     Become, Idle, WriteList, WriteBack
<1>6. ListedHavePayload'
  BY SMTT(20), <1>1, <1>2, ProfileStoreAssumption DEF StoreInv, StoreTypeOK,
     LockIsHeld, SaveInv, RemoveInv, ListedHavePayload, Indexed, Locked, Jobs,
     RemoveWrite, Become, Idle, WriteList, WriteBack
<1> QED
  BY <1>2, <1>3, <1>4, <1>5, <1>6 DEF StoreInv

LEMMA RemoveSelectedKeeps ==
  ASSUME NEW p \in Actors, StoreInv, RemoveSelected(p)
  PROVE  StoreInv'
<1>1. Stored' = Stored /\ payload' \in [Guids -> Groups \cup {None}]
  BY SameStored DEF RemoveSelected, StoreInv, StoreTypeOK
<1>2. StoreTypeOK'
  BY SMTT(20), <1>1, ProfileStoreAssumption, StoredIsGuids DEF StoreInv,
     StoreTypeOK, Locked, Listing, Unlocked, Jobs, RemoveSelected, Step, Forget
<1>3. LockIsHeld'
  BY SMTT(20), <1>1, <1>2, ProfileStoreAssumption DEF StoreInv, StoreTypeOK,
     LockIsHeld, Locked, Listing, Unlocked, Jobs, RemoveSelected, Step, Forget
<1>4. SaveInv'
  BY SMTT(20), <1>1, <1>2, ProfileStoreAssumption DEF StoreInv, StoreTypeOK,
     LockIsHeld, SaveInv, RemoveInv, Locked, Listing, Unlocked, Jobs,
     RemoveSelected, Step, Forget
<1>5. RemoveInv'
  BY SMTT(20), <1>1, <1>2, ProfileStoreAssumption DEF StoreInv, StoreTypeOK,
     LockIsHeld, RemoveInv, Locked, Listing, Unlocked, Jobs, RemoveSelected,
     Step, Forget
<1>6. ListedHavePayload'
  BY SMTT(20), <1>1, <1>2, ProfileStoreAssumption DEF StoreInv, StoreTypeOK,
     LockIsHeld, SaveInv, RemoveInv, ListedHavePayload, Indexed, Locked, Jobs,
     RemoveSelected, Step, Forget
<1> QED
  BY <1>2, <1>3, <1>4, <1>5, <1>6 DEF StoreInv

LEMMA RemovePayloadKeeps ==
  ASSUME NEW p \in Actors, StoreInv, RemovePayload(p)
  PROVE  StoreInv'
<1>1. Stored' = Stored \ job[p].batch /\ payload' \in [Guids -> Groups \cup {None}]
  BY WithoutFacts DEF RemovePayload
<1>2. StoreTypeOK'
  BY SMTT(20), <1>1, ProfileStoreAssumption, StoredIsGuids DEF StoreInv,
     StoreTypeOK, Locked, Listing, Unlocked, Jobs, RemovePayload, Become, Idle
<1>3. LockIsHeld'
  BY SMTT(20), <1>1, <1>2, ProfileStoreAssumption DEF StoreInv, StoreTypeOK,
     LockIsHeld, Locked, Listing, Unlocked, Jobs, RemovePayload, Become, Idle
<1>4. SaveInv'
  BY SMTT(20), <1>1, <1>2, ProfileStoreAssumption DEF StoreInv, StoreTypeOK,
     LockIsHeld, SaveInv, RemoveInv, Locked, Listing, Unlocked, Jobs,
     RemovePayload, Become, Idle
<1>5. RemoveInv'
  BY SMTT(20), <1>1, <1>2, ProfileStoreAssumption DEF StoreInv, StoreTypeOK,
     LockIsHeld, RemoveInv, Locked, Listing, Unlocked, Jobs, RemovePayload,
     Become, Idle
<1>6. ListedHavePayload'
  BY SMTT(20), <1>1, <1>2, ProfileStoreAssumption DEF StoreInv, StoreTypeOK,
     LockIsHeld, SaveInv, RemoveInv, ListedHavePayload, Indexed, Locked, Jobs,
     RemovePayload, Become, Idle
<1> QED
  BY <1>2, <1>3, <1>4, <1>5, <1>6 DEF StoreInv

LEMMA GroupReadKeeps ==
  ASSUME NEW p \in Actors, StoreInv, GroupRead(p)
  PROVE  StoreInv'
<1>1. Stored' = Stored /\ payload' \in [Guids -> Groups \cup {None}]
  BY SameStored DEF GroupRead, StoreInv, StoreTypeOK
<1>2. StoreTypeOK'
  <2>1. PICK g \in Groups :
          /\ asked' = asked \cup index[g]
          /\ Become(p, [Idle EXCEPT !.at = "dropGroup", !.group = g, !.old = index[g] \ index[g],
                          !.batch = index[g]])
    BY DEF GroupRead, Read
  <2>2. [Idle EXCEPT !.at = "dropGroup", !.group = g, !.old = index[g] \ index[g],
                          !.batch = index[g]] \in Jobs
    BY <2>1, ProfileStoreAssumption DEF Idle, Jobs, StoreInv, StoreTypeOK, Locked, Listing, Unlocked
  <2>3. /\ job' \in [Actors -> Jobs]
        /\ job'[p] = [Idle EXCEPT !.at = "dropGroup", !.group = g, !.old = index[g] \ index[g],
                          !.batch = index[g]]
        /\ \A q \in Actors \ {p} : job'[q] = job[q]
    BY <2>1, <2>2, BecomeFacts DEF StoreInv, StoreTypeOK
  <2>4. job'[p].at \in Locked \cup Listing => job'[p].group \in Groups
    BY <2>1, <2>3, ProfileStoreAssumption DEF Idle, Locked, Listing, Jobs, StoreInv, StoreTypeOK
  <2>5. hazards' \in 0..MaxHazards
    BY CountFacts DEF GroupRead, Read, StoreInv, StoreTypeOK
  <2> QED
    BY <1>1, <2>1, <2>3, <2>4, <2>5, TypeByParts, StoredIsGuids
       DEF GroupRead, Read, Lock, Forget, StoreInv, StoreTypeOK, Jobs
<1>3. LockIsHeld'
  BY SMTT(20), <1>1, <1>2, ProfileStoreAssumption DEF StoreInv, StoreTypeOK,
     LockIsHeld, Locked, Listing, Unlocked, Jobs, GroupRead, Become, Idle, Read
<1>4. SaveInv'
  BY SMTT(20), <1>1, <1>2, ProfileStoreAssumption DEF StoreInv, StoreTypeOK,
     LockIsHeld, SaveInv, RemoveInv, Locked, Listing, Unlocked, Jobs,
     GroupRead, Become, Idle, Read
<1>5. RemoveInv'
  BY SMTT(20), <1>1, <1>2, ProfileStoreAssumption DEF StoreInv, StoreTypeOK,
     LockIsHeld, RemoveInv, Locked, Listing, Unlocked, Jobs, GroupRead, Become,
     Idle, Read
<1>6. ListedHavePayload'
  BY SMTT(20), <1>1, <1>2, ProfileStoreAssumption DEF StoreInv, StoreTypeOK,
     LockIsHeld, SaveInv, RemoveInv, ListedHavePayload, Indexed, Locked, Jobs,
     GroupRead, Become, Idle, Read
<1> QED
  BY <1>2, <1>3, <1>4, <1>5, <1>6 DEF StoreInv

LEMMA GroupDropKeeps ==
  ASSUME NEW p \in Actors, StoreInv, GroupDrop(p)
  PROVE  StoreInv'
<1>1. Stored' = Stored \ job[p].batch /\ payload' \in [Guids -> Groups \cup {None}]
  BY WithoutFacts DEF GroupDrop
<1>2. StoreTypeOK'
  <2>1. /\ job[p].at = "dropGroup" /\ job[p] \in Jobs
        /\ Become(p, [job[p] EXCEPT !.at = "empty", !.batch = {}])
    BY DEF GroupDrop, StoreInv, StoreTypeOK
  <2>2. [job[p] EXCEPT !.at = "empty", !.batch = {}] \in Jobs
    BY <2>1 DEF Jobs, Locked, Listing, Unlocked
  <2>3. /\ job' \in [Actors -> Jobs]
        /\ job'[p] = [job[p] EXCEPT !.at = "empty", !.batch = {}]
        /\ \A q \in Actors \ {p} : job'[q] = job[q]
    BY <2>1, <2>2, BecomeFacts DEF StoreInv, StoreTypeOK
  <2>4. job'[p].at \in Locked \cup Listing => job'[p].group \in Groups
    BY <2>1, <2>3, ProfileStoreAssumption DEF Idle, Locked, Listing, Jobs, StoreInv, StoreTypeOK
  <2>5. hazards' \in 0..MaxHazards
    BY CountFacts DEF GroupDrop, Read, StoreInv, StoreTypeOK
  <2> QED
    BY <1>1, <2>1, <2>3, <2>4, <2>5, TypeByParts, StoredIsGuids
       DEF GroupDrop, Read, Lock, Forget, StoreInv, StoreTypeOK, Jobs
<1>3. LockIsHeld'
  BY SMTT(20), <1>1, <1>2, ProfileStoreAssumption DEF StoreInv, StoreTypeOK,
     LockIsHeld, Locked, Listing, Unlocked, Jobs, GroupDrop, Become, Forget
<1>4. SaveInv'
  BY SMTT(20), <1>1, <1>2, ProfileStoreAssumption DEF StoreInv, StoreTypeOK,
     LockIsHeld, SaveInv, RemoveInv, Locked, Listing, Unlocked, Jobs,
     GroupDrop, Become, Forget
<1>5. RemoveInv'
  BY SMTT(20), <1>1, <1>2, ProfileStoreAssumption DEF StoreInv, StoreTypeOK,
     LockIsHeld, RemoveInv, Locked, Listing, Unlocked, Jobs, GroupDrop, Become,
     Forget
<1>6. ListedHavePayload'
  BY SMTT(20), <1>1, <1>2, ProfileStoreAssumption DEF StoreInv, StoreTypeOK,
     LockIsHeld, SaveInv, RemoveInv, ListedHavePayload, Indexed, Locked, Jobs,
     GroupDrop, Become, Forget
<1> QED
  BY <1>2, <1>3, <1>4, <1>5, <1>6 DEF StoreInv

LEMMA GroupEmptyKeeps ==
  ASSUME NEW p \in Actors, StoreInv, GroupEmpty(p)
  PROVE  StoreInv'
<1>1. Stored' = Stored /\ payload' \in [Guids -> Groups \cup {None}]
  BY SameStored DEF GroupEmpty, StoreInv, StoreTypeOK
<1>2. StoreTypeOK'
  BY SMTT(20), <1>1, ProfileStoreAssumption, StoredIsGuids DEF StoreInv,
     StoreTypeOK, Locked, Listing, Unlocked, Jobs, GroupEmpty, Become, Idle,
     WriteList, WriteBack
<1>3. LockIsHeld'
  BY SMTT(20), <1>1, <1>2, ProfileStoreAssumption DEF StoreInv, StoreTypeOK,
     LockIsHeld, Locked, Listing, Unlocked, Jobs, GroupEmpty, Become, Idle,
     WriteList, WriteBack
<1>4. SaveInv'
  BY SMTT(20), <1>1, <1>2, ProfileStoreAssumption DEF StoreInv, StoreTypeOK,
     LockIsHeld, SaveInv, RemoveInv, Locked, Listing, Unlocked, Jobs,
     GroupEmpty, Become, Idle, WriteList, WriteBack
<1>5. RemoveInv'
  BY SMTT(20), <1>1, <1>2, ProfileStoreAssumption DEF StoreInv, StoreTypeOK,
     LockIsHeld, RemoveInv, Locked, Listing, Unlocked, Jobs, GroupEmpty,
     Become, Idle, WriteList, WriteBack
<1>6. ListedHavePayload'
  BY SMTT(20), <1>1, <1>2, ProfileStoreAssumption DEF StoreInv, StoreTypeOK,
     LockIsHeld, SaveInv, RemoveInv, ListedHavePayload, Indexed, Locked, Jobs,
     GroupEmpty, Become, Idle, WriteList, WriteBack
<1> QED
  BY <1>2, <1>3, <1>4, <1>5, <1>6 DEF StoreInv

LEMMA AllDropKeeps ==
  ASSUME NEW p \in Actors, StoreInv, AllDrop(p)
  PROVE  StoreInv'
<1>1. Stored' = Stored \ Guids /\ payload' \in [Guids -> Groups \cup {None}]
  BY WithoutFacts DEF AllDrop
<1>2. StoreTypeOK'
  <2>1. Become(p, [Idle EXCEPT !.at = "emptyAll", !.rest = Groups])
    BY DEF AllDrop, Read
  <2>2. [Idle EXCEPT !.at = "emptyAll", !.rest = Groups] \in Jobs
    BY <2>1, ProfileStoreAssumption DEF Idle, Jobs, StoreInv, StoreTypeOK, Locked, Listing, Unlocked
  <2>3. /\ job' \in [Actors -> Jobs]
        /\ job'[p] = [Idle EXCEPT !.at = "emptyAll", !.rest = Groups]
        /\ \A q \in Actors \ {p} : job'[q] = job[q]
    BY <2>1, <2>2, BecomeFacts DEF StoreInv, StoreTypeOK
  <2>4. job'[p].at \in Locked \cup Listing => job'[p].group \in Groups
    BY <2>1, <2>3, ProfileStoreAssumption DEF Idle, Locked, Listing, Jobs, StoreInv, StoreTypeOK
  <2>5. hazards' \in 0..MaxHazards
    BY CountFacts DEF AllDrop, Read, StoreInv, StoreTypeOK
  <2> QED
    BY <1>1, <2>1, <2>3, <2>4, <2>5, TypeByParts, StoredIsGuids
       DEF AllDrop, Read, Lock, Forget, StoreInv, StoreTypeOK, Jobs
<1>3. LockIsHeld'
  BY SMTT(20), <1>1, <1>2, ProfileStoreAssumption DEF StoreInv, StoreTypeOK,
     LockIsHeld, Locked, Listing, Unlocked, Jobs, AllDrop, Become, Idle
<1>4. SaveInv'
  BY SMTT(20), <1>1, <1>2, ProfileStoreAssumption DEF StoreInv, StoreTypeOK,
     LockIsHeld, SaveInv, RemoveInv, Locked, Listing, Unlocked, Jobs, AllDrop,
     Become, Idle
<1>5. RemoveInv'
  BY SMTT(20), <1>1, <1>2, ProfileStoreAssumption DEF StoreInv, StoreTypeOK,
     LockIsHeld, RemoveInv, Locked, Listing, Unlocked, Jobs, AllDrop, Become,
     Idle
<1>6. ListedHavePayload'
  BY SMTT(20), <1>1, <1>2, ProfileStoreAssumption DEF StoreInv, StoreTypeOK,
     LockIsHeld, SaveInv, RemoveInv, ListedHavePayload, Indexed, Locked, Jobs,
     AllDrop, Become, Idle
<1> QED
  BY <1>2, <1>3, <1>4, <1>5, <1>6 DEF StoreInv

LEMMA AllEmptyKeeps ==
  ASSUME NEW p \in Actors, StoreInv, AllEmpty(p)
  PROVE  StoreInv'
<1>1. Stored' = Stored /\ payload' \in [Guids -> Groups \cup {None}]
  BY SameStored DEF AllEmpty, StoreInv, StoreTypeOK
<1>2. StoreTypeOK'
  BY SMTT(20), <1>1, ProfileStoreAssumption, StoredIsGuids DEF StoreInv,
     StoreTypeOK, Locked, Listing, Unlocked, Jobs, AllEmpty, Become, Idle,
     WriteList, WriteBack
<1>3. LockIsHeld'
  BY SMTT(20), <1>1, <1>2, ProfileStoreAssumption DEF StoreInv, StoreTypeOK,
     LockIsHeld, Locked, Listing, Unlocked, Jobs, AllEmpty, Become, Idle,
     WriteList, WriteBack
<1>4. SaveInv'
  BY SMTT(20), <1>1, <1>2, ProfileStoreAssumption DEF StoreInv, StoreTypeOK,
     LockIsHeld, SaveInv, RemoveInv, Locked, Listing, Unlocked, Jobs, AllEmpty,
     Become, Idle, WriteList, WriteBack
<1>5. RemoveInv'
  BY SMTT(20), <1>1, <1>2, ProfileStoreAssumption DEF StoreInv, StoreTypeOK,
     LockIsHeld, RemoveInv, Locked, Listing, Unlocked, Jobs, AllEmpty, Become,
     Idle, WriteList, WriteBack
<1>6. ListedHavePayload'
  BY SMTT(20), <1>1, <1>2, ProfileStoreAssumption DEF StoreInv, StoreTypeOK,
     LockIsHeld, SaveInv, RemoveInv, ListedHavePayload, Indexed, Locked, Jobs,
     AllEmpty, Become, Idle, WriteList, WriteBack
<1> QED
  BY <1>2, <1>3, <1>4, <1>5, <1>6 DEF StoreInv

-----------------------------------------------------------------------------
(* Crashes and failures *)

LEMMA AbortKeeps ==
  ASSUME NEW p \in Actors, StoreInv, Abort(p)
  PROVE  StoreInv'
<1>1. Stored' = Stored /\ payload' \in [Guids -> Groups \cup {None}]
  BY SameStored DEF Abort, StoreInv, StoreTypeOK
<1>2. StoreTypeOK'
  BY SMTT(20), <1>1, ProfileStoreAssumption, StoredIsGuids DEF StoreInv,
     StoreTypeOK, Locked, Listing, Unlocked, Jobs, Abort, Become, Idle
<1>3. LockIsHeld'
  BY SMTT(20), <1>1, <1>2, ProfileStoreAssumption DEF StoreInv, StoreTypeOK,
     LockIsHeld, Locked, Listing, Unlocked, Jobs, Abort, Become, Idle
<1>4. SaveInv'
  BY SMTT(20), <1>1, <1>2, ProfileStoreAssumption DEF StoreInv, StoreTypeOK,
     LockIsHeld, SaveInv, RemoveInv, Locked, Listing, Unlocked, Jobs, Abort,
     Become, Idle
<1>5. RemoveInv'
  BY SMTT(20), <1>1, <1>2, ProfileStoreAssumption DEF StoreInv, StoreTypeOK,
     LockIsHeld, RemoveInv, Locked, Listing, Unlocked, Jobs, Abort, Become,
     Idle
<1>6. ListedHavePayload'
  BY SMTT(20), <1>1, <1>2, ProfileStoreAssumption DEF StoreInv, StoreTypeOK,
     LockIsHeld, SaveInv, RemoveInv, ListedHavePayload, Indexed, Locked, Jobs,
     Abort, Become, Idle
<1> QED
  BY <1>2, <1>3, <1>4, <1>5, <1>6 DEF StoreInv

LEMMA DamageKeeps ==
  ASSUME StoreInv, Damage
  PROVE  StoreInv'
<1>1. Stored' = Stored
  BY SameStored DEF Damage
<1>2. StoreTypeOK'
  BY CountFacts DEF StoreInv, StoreTypeOK, Damage
<1>3. LockIsHeld' /\ RemoveInv'
  BY DEF StoreInv, LockIsHeld, RemoveInv, Damage
<1>4. SaveInv'
  <2>1. \A p \in Actors : job'[p] = job[p] /\ job[p].at \notin Locked
    BY NoneIsNobody DEF Damage, StoreInv, LockIsHeld
  <2> QED
    BY <1>1, <2>1 DEF StoreInv, SaveInv, Locked
<1>5. ListedHavePayload'
  BY <1>1 DEF StoreInv, StoreTypeOK, ListedHavePayload, Indexed, Damage
<1> QED
  BY <1>2, <1>3, <1>4, <1>5 DEF StoreInv

-----------------------------------------------------------------------------
(* Theorems *)

LEMMA InitHolds == Init => StoreInv
<1>1. Init => StoreTypeOK
  BY IdleIsJob, ProfileStoreAssumption DEF Init, StoreTypeOK, Idle, Locked, Listing
<1>2. Init => LockIsHeld /\ SaveInv /\ RemoveInv
  BY ProfileStoreAssumption
     DEF Init, LockIsHeld, SaveInv, RemoveInv, Idle, Locked, Listing, Unlocked
<1>3. Init => ListedHavePayload
  BY DEF Init, ListedHavePayload, Indexed
<1> QED
  BY <1>1, <1>2, <1>3 DEF StoreInv

LEMMA NextKeeps ==
  ASSUME StoreInv, [Next]_vars
  PROVE  StoreInv'
<1>1. CASE UNCHANGED vars
  <2>1. Stored' = Stored
    BY <1>1, SameStored DEF vars
  <2> QED
    BY <1>1, <2>1 DEF vars, StoreInv, StoreTypeOK, LockIsHeld, SaveInv, RemoveInv,
       ListedHavePayload, Indexed
<1>2. CASE Damage
  BY <1>2, DamageKeeps
<1>3. ASSUME NEW p \in Actors, SaveStep(p)
      PROVE  StoreInv'
  BY <1>3, SaveBeginKeeps, SavePayloadKeeps, SavePublishKeeps, SaveSelectKeeps,
     SaveCleanKeeps DEF SaveStep
<1>4. ASSUME NEW p \in Actors, EncodeStep(p)
      PROVE  StoreInv'
  BY <1>4, EditReadKeeps, EncodeBeginKeeps, EncodePayloadKeeps, EncodePublishKeeps,
     EncodeSelectKeeps DEF EncodeStep
<1>5. ASSUME NEW p \in Actors, UnlockedStep(p)
      PROVE  StoreInv'
  BY <1>5, OrderReadKeeps, OrderWriteKeeps, RemoveReadKeeps, RemoveWriteKeeps,
     RemoveSelectedKeeps, RemovePayloadKeeps, GroupReadKeeps, GroupDropKeeps,
     GroupEmptyKeeps, AllDropKeeps, AllEmptyKeeps DEF UnlockedStep
<1>6. ASSUME NEW p \in Actors, SelectServer(p) \/ CleanOrphans(p) \/ Abort(p)
      PROVE  StoreInv'
  BY <1>6, SelectServerKeeps, CleanOrphansKeeps, AbortKeeps
<1> QED
  BY <1>1, <1>2, <1>3, <1>4, <1>5, <1>6 DEF Next

\* The inductive invariant of the store (MmkvManager.kt:269-382): the lock and
\* the order of the writes keep it through crashes, failing writes, damaged
\* lists and writes of lists that have changed since they were read.
THEOREM StoreInvariance == Spec => []StoreInv
<1>1. StoreInv /\ [Next]_vars => StoreInv'
  BY NextKeeps
<1> QED
  BY InitHolds, <1>1, PTL DEF Spec

\* A listed profile has its payload, unless its removal was asked for or a
\* stale list brought it back (MmkvManager.kt:300).
THEOREM ListedHavePayloadHolds == Spec => []ListedHavePayload
<1>1. StoreInv => ListedHavePayload
  BY DEF StoreInv
<1> QED
  BY <1>1, StoreInvariance, PTL

-----------------------------------------------------------------------------
(* What a payload may be removed for *)

\* A step that removes a payload was asked for it, cleans up behind a batch, or
\* cleans the orphans.
LEMMA WhoRemoves ==
  ASSUME StoreInv, [Next]_vars, NEW x \in Stored \ Stored'
  PROVE  \/ x \in asked'
         \/ \E p \in Actors : SaveClean(p)
         \/ \E p \in Actors : CleanOrphans(p)
<1>1. ASSUME UNCHANGED payload
      PROVE  FALSE
  BY <1>1, SameStored
<1>2. CASE UNCHANGED vars \/ Damage
  BY <1>1, <1>2 DEF vars, Damage
<1>3. ASSUME NEW p \in Actors, SaveStep(p)
      PROVE  SaveClean(p)
  <2>1. ASSUME SavePayload(p)
        PROVE  FALSE
    <3>1. PICK y \in job[p].todo : payload' = [payload EXCEPT ![y] = job[p].group]
      BY <2>1 DEF SavePayload
    <3>2. y \in Guids /\ job[p].group \in Groups
      BY <2>1, <3>1 DEF SavePayload, StoreInv, StoreTypeOK, Jobs, Locked
    <3> QED
      BY <3>1, <3>2, SavedFacts
  <2> QED
    BY <1>1, <1>3, <2>1 DEF SaveStep, SaveBegin, SavePublish, SaveSelect
<1>4. ASSUME NEW p \in Actors, EncodeStep(p)
      PROVE  FALSE
  <2>1. ASSUME EncodePayload(p)
        PROVE  FALSE
    <3>1. job[p].pick \in Guids /\ job[p].group \in Groups
      BY <2>1 DEF EncodePayload, StoreInv, StoreTypeOK, SaveInv, Jobs, Locked
    <3> QED
      BY <2>1, <3>1, SavedFacts DEF EncodePayload
  <2> QED
    BY <1>1, <1>4, <2>1 DEF EncodeStep, EditRead, EncodeBegin, EncodePublish, EncodeSelect
<1>5. ASSUME NEW p \in Actors, UnlockedStep(p)
      PROVE  x \in asked'
  <2>1. ASSUME RemovePayload(p) \/ GroupDrop(p)
        PROVE  x \in asked'
    <3>1. Stored' = Stored \ job[p].batch
      BY <2>1, WithoutFacts DEF RemovePayload, GroupDrop
    <3>2. job[p].batch \subseteq asked'
      BY <2>1 DEF RemovePayload, GroupDrop, StoreInv, RemoveInv
    <3> QED
      BY <3>1, <3>2
  <2>2. ASSUME AllDrop(p)
        PROVE  x \in asked'
    BY <2>2 DEF AllDrop
  <2> QED
    BY <1>1, <1>5, <2>1, <2>2 DEF UnlockedStep, OrderRead, OrderWrite, RemoveRead, RemoveWrite,
       RemoveSelected, GroupRead, GroupEmpty, AllEmpty
<1>6. ASSUME NEW p \in Actors, SelectServer(p) \/ Abort(p)
      PROVE  FALSE
  BY <1>1, <1>6 DEF SelectServer, Abort
<1> QED
  BY <1>2, <1>3, <1>4, <1>5, <1>6 DEF Next

\* The payload of the selected profile is spared (MmkvManager.kt:371-379,
\* ProfileReplacement.kt:58-70): while a batch replaces its list nobody but the
\* batch selects, and what it has selected, or found selected, it does not remove.
THEOREM SelectionIsSparedHolds == Spec => SelectionIsSpared
<1>1. ASSUME StoreInv, [Next]_vars
      PROVE  [(selected \in Stored \ Stored') => selected \in asked']_vars
  <2> SUFFICES ASSUME selected \in Stored \ Stored'
               PROVE  selected \in asked'
    OBVIOUS
  <2>1. ASSUME NEW p \in Actors, SaveClean(p)
        PROVE  FALSE
    <3>1. selected # None
      BY StoredIsGuids, NoneIsNobody
    <3>2. selected = IF job[p].pick # None THEN job[p].pick ELSE job[p].prev
      BY <1>1, <2>1, <3>1 DEF SaveClean, StoreInv, SaveInv
    <3>3. selected \notin Gone(p)
      BY <3>2 DEF Gone
    <3> QED
      BY <1>1, <2>1, <3>3, Replacing, SameStored, WithoutFacts
  <2>2. ASSUME NEW p \in Actors, CleanOrphans(p)
        PROVE  FALSE
    BY <1>1, <2>2, WithoutFacts DEF CleanOrphans, Orphans
  <2> QED
    BY <1>1, <2>1, <2>2, WhoRemoves
<1> QED
  BY <1>1, StoreInvariance, PTL DEF Spec, SelectionIsSpared

\* What cannot be read is not held against a payload (MmkvManager.kt:572-574).
THEOREM DamageKeepsPayloadsHolds == Spec => DamageKeepsPayloads
<1>1. ASSUME StoreInv, [Next]_vars, NEW x \in Stored \ Stored'
      PROVE  \/ x \in asked'
             \/ /\ \A g \in Groups : key[g] # "damaged"
                /\ \E g \in Groups : key[g] = "readable" /\ (g = payload[x] \/ ReplacedIn(g, x))
  <2>1. ASSUME NEW p \in Actors, SaveClean(p)
        PROVE  /\ \A g \in Groups : key[g] # "damaged"
               /\ \E g \in Groups : key[g] = "readable" /\ (g = payload[x] \/ ReplacedIn(g, x))
    <3>1. job[p].at = "clean" /\ job[p].group \in Groups /\ key[job[p].group] = "readable"
      BY <1>1, <2>1 DEF SaveClean, StoreInv, StoreTypeOK, SaveInv, Locked
    <3>2. payload' # payload
      BY SameStored
    <3>3. /\ \A h \in Groups \ {job[p].group} : key[h] # "damaged"
          /\ Stored' = Stored \ Gone(p)
      BY <1>1, <2>1, <3>2, Replacing, WithoutFacts
    <3>4. ReplacedIn(job[p].group, x)
      BY <3>1, <3>3 DEF ReplacedIn, Gone
    <3> QED
      BY <3>1, <3>3, <3>4
  <2>2. ASSUME NEW p \in Actors, CleanOrphans(p)
        PROVE  /\ \A g \in Groups : key[g] # "damaged"
               /\ \E g \in Groups : key[g] = "readable" /\ g = payload[x]
    <3>1. x \in Orphans
      BY <1>1, <2>2, WithoutFacts DEF CleanOrphans
    <3>2. payload[x] \in Groups /\ key[payload[x]] # "absent"
      BY <3>1, <1>1 DEF Orphans, Stored, StoreInv, StoreTypeOK
    <3> QED
      BY <1>1, <2>2, <3>2 DEF CleanOrphans, StoreInv, StoreTypeOK
  <2> QED
    BY <1>1, <2>1, <2>2, WhoRemoves
<1>2. StoreInv /\ [Next]_vars =>
        [\A x \in Stored \ Stored' : x \in asked' \/
           /\ \A g \in Groups : key[g] # "damaged"
           /\ \E g \in Groups : key[g] = "readable" /\ (g = payload[x] \/ ReplacedIn(g, x))]_vars
  BY <1>1
<1> QED
  BY <1>2, StoreInvariance, PTL DEF Spec, DamageKeepsPayloads
=============================================================================
