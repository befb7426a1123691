-------------------------- MODULE ControllerProofs --------------------------
(***************************************************************************)
(* Proofs about Controller for every set of repositories, register         *)
(* snapshots and controllers, every way of cutting a manifest into chunks, *)
(* and every number of crashes, removed Jobs and failing reads.            *)
(*                                                                         *)
(* What is stored follows from one inductive invariant, IInv.  Its idea:   *)
(* what is stored never changes and grows from the last chunk of a round   *)
(* down to the first, so a controller that verified chunk i knows all of   *)
(* the chunks above i are its own.                                         *)
(***************************************************************************)
EXTENDS Controller, SequenceTheorems, FiniteSetTheorems, TLAPS

\* A list the repositories of round n may be: for round 0 what the register
\* returned, later a proper part of the round before.
GoodList(n, list) ==
  /\ list # {} /\ list \subseteq Repositories
  /\ n = 0 => list \in Snapshots
  /\ n > 0 => /\ IsStored(n - 1)
              /\ list \subseteq Manifest(n - 1)
              /\ list # Manifest(n - 1)

\* Every chunk of a round whose first chunk is stored is stored.
Whole(n) ==
  \A i \in 1..configMaps[<<n, 1>>].count :
    /\ <<n, i>> \in DOMAIN configMaps
    /\ configMaps[<<n, i>>].count = configMaps[<<n, 1>>].count

StoreOK ==
  \A n \in Nat : IsStored(n) =>
    /\ Whole(n)
    /\ GoodList(n, Manifest(n))
    /\ StoredChunks(n) = Groups[Manifest(n)]

\* Locations at which chunks[c] is the list of the round c is about to run.
HasList(c) ==
  \/ pc[c] \in {"rules", "chunk"} \cup Adopted
  \/ pc[c] = "load" /\ round[c] > 0

ListOK(c) ==
  HasList(c) =>
    /\ GoodList(round[c], Listed(chunks[c]))
    /\ chunks[c] = Groups[Listed(chunks[c])]

\* The chunks a controller has already created or verified.
Verified(c) ==
  {i \in DOMAIN chunks[c] : pc[c] \in Adopted \/ (pc[c] = "chunk" /\ i > todo[c])}

ProgressOK(c) ==
  /\ pc[c] = "chunk" => todo[c] \in 1..Len(chunks[c])
  /\ \A i \in Verified(c) :
       /\ <<round[c], i>> \in DOMAIN configMaps
       /\ configMaps[<<round[c], i>>] = ChunkMap(c, i)

RulesOK(c) ==
  /\ pc[c] \notin {"down", "refused", "report", "done"} => rules[c] \in RuleVersions
  /\ pc[c] \in {"chunk"} \cup Adopted => rules[c] = rulesMap

FreshOK(c) == pc[c] = "down" => round[c] = 0

Attempt(c) == ListOK(c) /\ ProgressOK(c) /\ RulesOK(c) /\ FreshOK(c)

AttemptsOK == \A c \in Controllers : Attempt(c)

JobsOK ==
  \A n \in DOMAIN jobs : IsStored(n) /\ jobs[n].chunks = StoredChunks(n)

\* The inductive invariant. A type invariant alone is not inductive: the
\* chunks an attempt reads back exist only because of StoreOK.
IInv == TypeOK /\ StoreOK /\ AttemptsOK /\ JobsOK

-----------------------------------------------------------------------------
(* Lemmas about the operators of the model. *)

\* The list of a cut manifest is a set of repositories.
LEMMA ListedType ==
  ASSUME NEW cut \in Chunks
  PROVE  Listed(cut) \in SUBSET Repositories
BY DEF Listed, Chunks

\* A list that is cut into chunks gives at least one chunk, and all of it.
LEMMA GroupsFacts ==
  ASSUME NEW list, list \subseteq Repositories, list # {}
  PROVE  /\ Groups[list] \in Chunks
         /\ Len(Groups[list]) \in Nat \ {0}
         /\ Listed(Groups[list]) = list
<1>1. list \in (SUBSET Repositories) \ {{}}
  OBVIOUS
<1>2. Groups[list] \in Seq((SUBSET Repositories) \ {{}})
  BY <1>1, GroupsAssumption
<1>3. Groups[list] \in Seq(SUBSET Repositories)
  BY <1>2, SeqMonotonic
<1>4. QED
  BY <1>1, <1>3, GroupsAssumption, LenProperties DEF Chunks

\* The chunks read back of a whole round are a sequence of chunks.
LEMMA StoredChunksType ==
  ASSUME TypeOK, StoreOK, NEW n \in Nat, IsStored(n)
  PROVE  /\ StoredChunks(n) \in Chunks
         /\ Len(StoredChunks(n)) = configMaps[<<n, 1>>].count
         /\ Manifest(n) \in SUBSET Repositories
<1> DEFINE count == configMaps[<<n, 1>>].count
<1>1. count \in Nat \ {0}
  BY DEF TypeOK, IsStored
<1>2. \A i \in 1..count : configMaps[<<n, i>>].group \in SUBSET Repositories
  BY DEF TypeOK, StoreOK, Whole
<1>3. StoredChunks(n) \in [1..count -> SUBSET Repositories]
  BY <1>2 DEF StoredChunks
<1>4. StoredChunks(n) \in Chunks
  BY <1>1, <1>3, SeqDef DEF Chunks
<1>5. Len(StoredChunks(n)) = count
  BY <1>1, <1>3, <1>4, LenProperties DEF Chunks
<1>6. QED
  BY <1>4, <1>5, ListedType DEF Manifest

-----------------------------------------------------------------------------
(* What is stored stays. *)

StoreGrows ==
  /\ \A key \in DOMAIN configMaps :
       key \in DOMAIN configMaps' /\ configMaps'[key] = configMaps[key]
  /\ rulesMap # NoRules => rulesMap' = rulesMap

\* A stored round stays as it is.
LEMMA StoredStays ==
  ASSUME TypeOK, StoreOK, StoreGrows, NEW n \in Nat, IsStored(n)
  PROVE  /\ IsStored(n)'
         /\ configMaps'[<<n, 1>>].count = configMaps[<<n, 1>>].count
         /\ StoredChunks(n)' = StoredChunks(n)
         /\ Manifest(n)' = Manifest(n)
         /\ Whole(n)'
<1>1. IsStored(n)' /\ configMaps'[<<n, 1>>] = configMaps[<<n, 1>>]
  BY DEF IsStored, StoreGrows
<1>2. \A i \in 1..configMaps[<<n, 1>>].count :
        /\ <<n, i>> \in DOMAIN configMaps'
        /\ configMaps'[<<n, i>>] = configMaps[<<n, i>>]
  BY DEF StoreOK, Whole, StoreGrows
<1>3. StoredChunks(n)' = StoredChunks(n)
  BY <1>1, <1>2 DEF StoredChunks
<1>4. Whole(n)'
  BY <1>1, <1>2 DEF StoreOK, Whole
<1>5. QED
  BY <1>1, <1>3, <1>4 DEF Manifest, Listed

\* A list that is good for a round stays good for it.
LEMMA GoodListStays ==
  ASSUME TypeOK, StoreOK, StoreGrows, NEW n \in Nat, NEW list, GoodList(n, list)
  PROVE  GoodList(n, list)'
<1>1. CASE n = 0
  BY <1>1 DEF GoodList
<1>2. CASE n > 0
  <2>1. n - 1 \in Nat /\ IsStored(n - 1)
    BY <1>2 DEF GoodList
  <2>2. IsStored(n - 1)' /\ Manifest(n - 1)' = Manifest(n - 1)
    BY <2>1, StoredStays
  <2>3. QED
    BY <1>2, <2>2 DEF GoodList
<1>3. QED
  BY <1>1, <1>2

\* A controller that keeps its list keeps a good one.
LEMMA ListStays ==
  ASSUME TypeOK, StoreOK, StoreGrows, NEW c \in Controllers, HasList(c), ListOK(c),
         round'[c] = round[c], chunks'[c] = chunks[c]
  PROVE  ListOK(c)'
<1>1. Listed(chunks[c])' = Listed(chunks[c])
  BY DEF Listed
<1>2. round[c] \in Nat /\ GoodList(round[c], Listed(chunks[c]))
  BY DEF TypeOK, ListOK
<1>3. GoodList(round[c], Listed(chunks[c]))'
  BY <1>1, <1>2, GoodListStays DEF GoodList
<1>4. QED
  BY <1>1, <1>3 DEF ListOK

\* A controller that takes up a good list for a round has one.
LEMMA ListTaken ==
  ASSUME TypeOK, StoreOK, StoreGrows, NEW c \in Controllers,
         NEW n \in Nat, NEW list, GoodList(n, list),
         round'[c] = n, chunks'[c] = Groups[list]
  PROVE  ListOK(c)'
<1>1. GoodList(n, list)'
  BY GoodListStays
<1>2. Listed(Groups[list]) = list
  BY GroupsFacts DEF GoodList
<1>3. Listed(chunks[c])' = list
  BY <1>2 DEF Listed
<1>4. QED
  BY <1>1, <1>3 DEF ListOK, GoodList

\* What holds of an attempt is not disturbed by what others store.
LEMMA AttemptStays ==
  ASSUME TypeOK, StoreOK, StoreGrows, NEW c \in Controllers, Attempt(c),
         pc'[c] = pc[c], round'[c] = round[c], chunks'[c] = chunks[c],
         rules'[c] = rules[c], todo'[c] = todo[c]
  PROVE  Attempt(c)'
<1>1. ListOK(c)'
  <2>1. HasList(c)' <=> HasList(c)
    BY DEF HasList
  <2>2. QED
    BY <2>1, ListStays DEF Attempt, ListOK
<1>2. ProgressOK(c)'
  BY DEF Attempt, ProgressOK, Verified, ChunkMap, StoreGrows
<1>3. RulesOK(c)' /\ FreshOK(c)'
  BY ClusterAssumption DEF Attempt, RulesOK, FreshOK, StoreGrows, Adopted
<1>4. QED
  BY <1>1, <1>2, <1>3 DEF Attempt

\* A step of c that only lets the store grow keeps what holds of the others.
LEMMA AttemptsStep ==
  ASSUME TypeOK, StoreOK, AttemptsOK, StoreGrows, NEW c \in Controllers, Attempt(c)',
         \A d \in Controllers \ {c} :
           /\ pc'[d] = pc[d] /\ round'[d] = round[d] /\ chunks'[d] = chunks[d]
           /\ rules'[d] = rules[d] /\ todo'[d] = todo[d]
  PROVE  AttemptsOK'
<1>1. ASSUME NEW d \in Controllers \ {c} PROVE Attempt(d)'
  <2>1. Attempt(d)
    BY DEF AttemptsOK
  <2>2. QED
    BY <2>1, AttemptStays
<1>2. QED
  BY <1>1 DEF AttemptsOK

\* Nothing in StoreOK is about anything but the stored chunks.
LEMMA StoreUnchanged ==
  ASSUME StoreOK, UNCHANGED configMaps
  PROVE  StoreOK'
<1>1. ASSUME NEW n \in Nat PROVE IsStored(n)' <=> IsStored(n)
  BY DEF IsStored
<1>2. ASSUME NEW n \in Nat
      PROVE  /\ Whole(n)' <=> Whole(n)
             /\ StoredChunks(n)' = StoredChunks(n)
             /\ Manifest(n)' = Manifest(n)
  BY DEF Whole, StoredChunks, Manifest, Listed
<1>3. ASSUME NEW n \in Nat, NEW list, GoodList(n, list) PROVE GoodList(n, list)'
  <2>1. n > 0 => n - 1 \in Nat
    OBVIOUS
  <2>2. n > 0 => IsStored(n - 1)' /\ Manifest(n - 1)' = Manifest(n - 1)
    BY <1>1, <1>2, <1>3, <2>1 DEF GoodList
  <2>3. QED
    BY <1>3, <2>2 DEF GoodList
<1>4. QED
  BY <1>1, <1>2, <1>3 DEF StoreOK

\* Jobs that keep their chunks keep agreeing with what is stored.
LEMMA JobsStay ==
  ASSUME TypeOK, StoreOK, JobsOK, StoreGrows,
         \A n \in DOMAIN jobs' : n \in DOMAIN jobs /\ jobs'[n].chunks = jobs[n].chunks
  PROVE  JobsOK'
<1>1. ASSUME NEW n \in DOMAIN jobs'
      PROVE  IsStored(n)' /\ jobs'[n].chunks = StoredChunks(n)'
  <2>1. n \in Nat /\ IsStored(n) /\ jobs[n].chunks = StoredChunks(n)
    BY DEF TypeOK, JobsOK
  <2>2. QED
    BY <2>1, StoredStays
<1>2. QED
  BY <1>1 DEF JobsOK

\* A controller that verified all ConfigMaps works on what is stored.
LEMMA AdoptedIsStored ==
  ASSUME TypeOK, StoreOK, NEW c \in Controllers, Attempt(c), pc[c] \in Adopted
  PROVE  /\ round[c] \in Nat
         /\ IsStored(round[c])
         /\ StoredChunks(round[c]) = chunks[c]
<1> DEFINE n == round[c]
<1>1. n \in Nat /\ chunks[c] \in Chunks
  BY DEF TypeOK
<1>2. Len(chunks[c]) \in Nat \ {0} /\ chunks[c] \in [1..Len(chunks[c]) -> SUBSET Repositories]
  <2>1. Listed(chunks[c]) # {} /\ chunks[c] = Groups[Listed(chunks[c])]
    BY DEF Attempt, ListOK, HasList, GoodList
  <2>2. Listed(chunks[c]) \subseteq Repositories
    BY <1>1, ListedType
  <2>3. QED
    BY <1>1, <2>1, <2>2, GroupsFacts, LenProperties DEF Chunks
<1>3. \A i \in 1..Len(chunks[c]) :
        /\ <<n, i>> \in DOMAIN configMaps
        /\ configMaps[<<n, i>>].count = Len(chunks[c])
        /\ configMaps[<<n, i>>].group = chunks[c][i]
  <2>1. Verified(c) = 1..Len(chunks[c])
    BY <1>2 DEF Verified
  <2>2. \A i \in Verified(c) :
          /\ <<n, i>> \in DOMAIN configMaps
          /\ configMaps[<<n, i>>] = ChunkMap(c, i)
    BY DEF Attempt, ProgressOK
  <2>3. \A i \in 1..Len(chunks[c]) :
          /\ ChunkMap(c, i).count = Len(chunks[c])
          /\ ChunkMap(c, i).group = chunks[c][i]
    BY DEF ChunkMap
  <2>4. QED
    BY <2>1, <2>2, <2>3
<1>4. IsStored(n) /\ configMaps[<<n, 1>>].count = Len(chunks[c])
  <2>1. 1 \in 1..Len(chunks[c])
    BY <1>2
  <2>2. QED
    BY <2>1, <1>3 DEF IsStored
<1>5. StoredChunks(n) = [i \in 1..Len(chunks[c]) |-> chunks[c][i]]
  BY <1>3, <1>4 DEF StoredChunks
<1>6. QED
  BY <1>1, <1>2, <1>4, <1>5

-----------------------------------------------------------------------------
(* The invariant holds initially. *)

LEMMA InitIInv == Init => IInv
<1> SUFFICES ASSUME Init PROVE IInv
  OBVIOUS
<1> USE DEF Init, ClusterInit, Empty
<1>1. TypeOK
  <2>1. <<>> \in Chunks
    BY EmptySeq DEF Chunks
  <2>2. pc \in [Controllers -> Locations]
    BY DEF Locations
  <2>3. QED
    BY <2>1, <2>2 DEF TypeOK
<1>2. StoreOK
  BY DEF StoreOK, IsStored
<1>3. AttemptsOK
  <2> SUFFICES ASSUME NEW c \in Controllers PROVE Attempt(c)
    BY DEF AttemptsOK
  <2>1. pc[c] = "down"
    OBVIOUS
  <2>2. ~HasList(c) /\ Verified(c) = {}
    BY <2>1 DEF HasList, Verified, Adopted
  <2>3. QED
    BY <2>1, <2>2 DEF Attempt, ListOK, ProgressOK, RulesOK, FreshOK, Adopted
<1>4. JobsOK
  BY DEF JobsOK
<1>5. QED
  BY <1>1, <1>2, <1>3, <1>4 DEF IInv

-----------------------------------------------------------------------------
(* Steps that leave ConfigMaps and Jobs alone. *)

LEMMA LocalStep ==
  ASSUME IInv, NEW c \in Controllers, TypeOK', Attempt(c)',
         UNCHANGED <<configMaps, rulesMap, jobs>>,
         \A d \in Controllers \ {c} :
           /\ pc'[d] = pc[d] /\ round'[d] = round[d] /\ chunks'[d] = chunks[d]
           /\ rules'[d] = rules[d] /\ todo'[d] = todo[d]
  PROVE  IInv'
<1>1. StoreGrows
  BY DEF StoreGrows
<1>2. StoreOK'
  BY StoreUnchanged DEF IInv
<1>3. AttemptsOK'
  BY <1>1, AttemptsStep DEF IInv
<1>4. JobsOK'
  BY <1>1, JobsStay DEF IInv
<1>5. QED
  BY <1>2, <1>3, <1>4 DEF IInv

\* An attempt that ended has nothing in hand.
LEMMA IdleAttempt ==
  ASSUME NEW c \in Controllers, pc'[c] \in {"down", "refused", "report", "done"},
         pc'[c] = "down" => round'[c] = 0
  PROVE  Attempt(c)'
<1>1. ~HasList(c)' /\ Verified(c)' = {}
  BY DEF HasList, Verified, Adopted
<1>2. QED
  BY <1>1 DEF Attempt, ListOK, ProgressOK, RulesOK, FreshOK, Adopted

LEMMA StartStep ==
  ASSUME IInv, NEW c \in Controllers, Start(c)
  PROVE  IInv'
<1> USE DEF Start, Goto, batchVars, clusterVars
<1>1. TypeOK'
  BY DEF IInv, TypeOK, Locations
<1>2. Attempt(c)'
  <2>1. pc[c] = "down" /\ pc'[c] = "load" /\ rules'[c] \in RuleVersions /\ round'[c] = 0
    BY DEF IInv, TypeOK, AttemptsOK, Attempt, FreshOK
  <2>2. ~HasList(c)' /\ Verified(c)' = {}
    BY <2>1 DEF HasList, Verified, Adopted
  <2>3. QED
    BY <2>1, <2>2 DEF Attempt, ListOK, ProgressOK, RulesOK, FreshOK, Adopted
<1>3. QED
  BY <1>1, <1>2, LocalStep DEF IInv, TypeOK

\* Whatever the list of a round comes from, it is a good one.
LEMMA BeginRoundStep ==
  ASSUME IInv, NEW c \in Controllers, pc[c] = "load", NEW list, BeginRound(c, list),
         GoodList(round[c], Listed(list)), list = Groups[Listed(list)]
  PROVE  IInv'
<1> USE DEF BeginRound, Goto, batchVars, clusterVars
<1>1. round[c] \in Nat /\ list \in Chunks
  <2>1. Listed(list) \subseteq Repositories /\ Listed(list) # {}
    BY DEF GoodList
  <2>2. Groups[Listed(list)] \in Chunks
    BY <2>1, GroupsFacts
  <2>3. QED
    BY <2>2 DEF IInv, TypeOK
<1>2. TimeLeft(c) \in Nat
  BY ControllerAssumption DEF IInv, TypeOK, TimeLeft
<1>3. TypeOK'
  BY <1>1, <1>2 DEF IInv, TypeOK, Locations
<1>4. pc'[c] = "rules" /\ chunks'[c] = list /\ round'[c] = round[c] /\ rules'[c] = rules[c]
  BY DEF IInv, TypeOK
<1>5. ListOK(c)'
  <2>1. GoodList(round[c], Listed(list))'
    BY <1>1, GoodListStays DEF IInv, StoreGrows, Listed
  <2>2. QED
    BY <1>4, <2>1 DEF ListOK, GoodList, Listed
<1>6. Verified(c)' = {}
  BY <1>4 DEF Verified, Adopted
<1>7. rules[c] \in RuleVersions
  BY DEF IInv, AttemptsOK, Attempt, RulesOK
<1>8. Attempt(c)'
  BY <1>4, <1>5, <1>6, <1>7 DEF Attempt, ProgressOK, RulesOK, FreshOK, Adopted
<1>9. QED
  BY <1>3, <1>8, LocalStep DEF IInv, TypeOK

LEMMA LoadStep ==
  ASSUME IInv, NEW c \in Controllers,
         LoadStored(c) \/ LoadFromRegister(c) \/ LoadNothing(c) \/ LoadComputed(c)
  PROVE  IInv'
<1>0. round[c] \in Nat /\ Attempt(c)
  BY DEF IInv, TypeOK, AttemptsOK
<1>1. CASE LoadStored(c)
  <2>1. /\ GoodList(round[c], Manifest(round[c]))
        /\ StoredChunks(round[c]) = Groups[Manifest(round[c])]
    BY <1>0, <1>1 DEF LoadStored, IInv, StoreOK
  <2>2. QED
    BY <1>1, <2>1, BeginRoundStep DEF LoadStored, Manifest
<1>2. CASE LoadFromRegister(c)
  <2>1. PICK list \in Snapshots \ {{}} : BeginRound(c, Groups[list])
    BY <1>2 DEF LoadFromRegister
  <2>2. Listed(Groups[list]) = list /\ list \subseteq Repositories
    BY GroupsFacts, ControllerAssumption
  <2>3. GoodList(round[c], list)
    BY <1>2, <2>2 DEF LoadFromRegister, GoodList
  <2>4. QED
    BY <1>2, <2>1, <2>2, <2>3, BeginRoundStep DEF LoadFromRegister
<1>3. CASE LoadNothing(c)
  <2> USE <1>3 DEF LoadNothing, Goto, roundVars, batchVars, clusterVars
  <2>1. TypeOK'
    BY DEF IInv, TypeOK, Locations
  <2>2. Attempt(c)'
    BY IdleAttempt DEF IInv, TypeOK
  <2>3. QED
    BY <2>1, <2>2, LocalStep DEF IInv, TypeOK
<1>4. CASE LoadComputed(c)
  <2>1. GoodList(round[c], Listed(chunks[c])) /\ chunks[c] = Groups[Listed(chunks[c])]
    BY <1>0, <1>4 DEF LoadComputed, Attempt, ListOK, HasList
  <2>2. QED
    BY <1>4, <2>1, BeginRoundStep DEF LoadComputed
<1>5. QED
  BY <1>1, <1>2, <1>3, <1>4

LEMMA GuardStep ==
  ASSUME IInv, NEW c \in Controllers, GuardJob(c) \/ CheckLater(c) \/ JobGone(c)
  PROVE  IInv'
<1> USE DEF GuardJob, CheckLater, JobGone, Goto, roundVars, batchVars, clusterVars
<1>1. TypeOK'
  BY DEF IInv, TypeOK, Locations, Adopted
<1>2. Attempt(c)
  BY DEF IInv, AttemptsOK
<1>3. CASE pc'[c] = "refused"
  <2>1. Attempt(c)'
    BY <1>3, IdleAttempt
  <2>2. QED
    BY <1>1, <2>1, LocalStep DEF IInv, TypeOK
<1>4. CASE pc'[c] # "refused"
  <2>1. pc[c] \in Adopted /\ pc'[c] \in Adopted /\ pc'[c] # "down"
    BY <1>4 DEF IInv, TypeOK, Adopted
  <2>2. ListOK(c)'
    <3>1. StoreGrows /\ HasList(c) /\ ListOK(c)
      BY <1>2, <2>1 DEF StoreGrows, HasList, Attempt
    <3>2. QED
      BY <3>1, ListStays DEF IInv, TypeOK
  <2>3. ProgressOK(c)'
    BY <1>2, <2>1 DEF Attempt, ProgressOK, Verified, ChunkMap, Adopted
  <2>4. RulesOK(c)' /\ FreshOK(c)'
    BY <1>2, <2>1 DEF Attempt, RulesOK, FreshOK, Adopted
  <2>5. Attempt(c)'
    BY <2>2, <2>3, <2>4 DEF Attempt
  <2>6. QED
    BY <1>1, <2>5, LocalStep DEF IInv, TypeOK
<1>5. QED
  BY <1>3, <1>4

LEMMA ReportStep ==
  ASSUME IInv, NEW c \in Controllers, ReportOne(c) \/ FinishReport(c)
  PROVE  IInv'
<1> USE DEF ReportOne, FinishReport, Reported, Goto, roundVars, batchVars, clusterVars
<1>1. TypeOK'
  <2>1. unreported[c] \subseteq Repositories
    BY DEF IInv, TypeOK
  <2>2. /\ received' \subseteq Submissions
        /\ unreported' \in [Controllers -> SUBSET Repositories]
        /\ pc' \in [Controllers -> Locations]
    BY <2>1 DEF IInv, TypeOK, Locations, Submissions, Failure
  <2>3. UNCHANGED <<configMaps, rulesMap, jobs, now, finished, removals, exits>>
    OBVIOUS
  <2>4. UNCHANGED <<round, chunks, rules, left, todo, batchEnd, completed, failed>>
    OBVIOUS
  <2>5. QED
    BY <2>2, <2>3, <2>4 DEF IInv, TypeOK, JobType
<1>2. Attempt(c)'
  BY IdleAttempt DEF IInv, TypeOK
<1>3. QED
  BY <1>1, <1>2, LocalStep DEF IInv, TypeOK

LEMMA ExitStep ==
  ASSUME IInv, NEW c \in Controllers, Exit(c) \/ ReportUnacknowledged(c)
  PROVE  IInv'
<1>1. Forget(c) /\ UNCHANGED <<configMaps, rulesMap, jobs, now, finished, removals>>
  BY DEF Exit, ReportUnacknowledged, clusterVars
<1>2. received' \subseteq Submissions
  <2>1. unreported[c] \subseteq Repositories /\ received \subseteq Submissions
    BY DEF IInv, TypeOK
  <2>2. CASE Exit(c)
    BY <2>1, <2>2 DEF Exit, clusterVars
  <2>3. CASE ReportUnacknowledged(c)
    BY <2>1, <2>3 DEF ReportUnacknowledged, Reported, Submissions, Failure
  <2>4. QED
    BY <2>2, <2>3
<1>3. <<>> \in Chunks
  BY EmptySeq DEF Chunks
<1>4. TypeOK'
  BY <1>1, <1>2, <1>3 DEF IInv, TypeOK, JobType, Forget, Goto, Locations
<1>5. Attempt(c)'
  BY <1>1, IdleAttempt DEF Forget, Goto, IInv, TypeOK
<1>6. QED
  BY <1>1, <1>4, <1>5, LocalStep DEF Forget, Goto, IInv, TypeOK

-----------------------------------------------------------------------------
(* A finished round leaves a proper part of its list to the next one. *)

LEMMA UnfinishedIsGood ==
  ASSUME IInv, NEW n \in DOMAIN jobs, NEW end, Retry(Outcome(n), end)
  PROVE  GoodList(n + 1, Outcome(n).unfinished)
<1> DEFINE rest == Outcome(n).unfinished
           done == Outcome(n).completed \cup Outcome(n).failed
<1>1. /\ n \in Nat /\ IsStored(n)
      /\ DOMAIN jobs[n].pods = Manifest(n)
  BY DEF IInv, TypeOK, JobType, JobsOK, Manifest
<1>2. rest # {} /\ done # {}
  BY DEF Retry
<1>3. rest \subseteq Manifest(n) /\ done \subseteq Manifest(n) /\ rest \cap done = {}
  BY <1>1 DEF Outcome, Unfinished, InState
<1>4. Manifest(n) \subseteq Repositories
  BY <1>1, StoredChunksType DEF IInv
<1>5. n + 1 > 0 /\ n + 1 # 0 /\ n + 1 - 1 = n
  BY <1>1
<1>6. QED
  BY <1>1, <1>2, <1>3, <1>4, <1>5 DEF GoodList

LEMMA FinishRoundStep ==
  ASSUME IInv, NEW c \in Controllers, FinishRound(c)
  PROVE  IInv'
<1> DEFINE n == round[c]
           outcome == Outcome(n)
           retry == Retry(outcome, BatchEnd(c))
           failures == failed[c] \cup NewFailures(outcome, retry)
<1>1. pc[c] = "wait" /\ n \in DOMAIN jobs /\ n \in Nat /\ Attempt(c)
  BY DEF FinishRound, Terminal, IInv, TypeOK, AttemptsOK
<1>2. /\ outcome.completed \subseteq Repositories
      /\ outcome.failed \subseteq Repositories
      /\ outcome.unfinished \subseteq Repositories
  <2>1. DOMAIN jobs[n].pods \subseteq Repositories
    BY <1>1, ListedType DEF IInv, TypeOK, JobType
  <2>2. QED
    BY <2>1 DEF Outcome, Unfinished, InState
<1>3. BatchEnd(c) \in Nat
  BY <1>1, ControllerAssumption DEF IInv, TypeOK, JobType, BatchEnd
<1>4. failures \subseteq Repositories
  BY <1>2 DEF NewFailures, IInv, TypeOK
<1>5. /\ batchEnd' = [batchEnd EXCEPT ![c] = BatchEnd(c)]
      /\ completed' = [completed EXCEPT ![c] = @ \cup outcome.completed]
      /\ failed' = [failed EXCEPT ![c] = failures]
      /\ UNCHANGED <<clusterVars, rules, left, todo, exits>>
  BY DEF FinishRound
<1>6. CASE retry
  <2>1. /\ round' = [round EXCEPT ![c] = @ + 1]
        /\ chunks' = [chunks EXCEPT ![c] = Groups[outcome.unfinished]]
        /\ pc' = [pc EXCEPT ![c] = "load"]
        /\ UNCHANGED unreported
    BY <1>6 DEF FinishRound, Goto
  <2>2. GoodList(n + 1, outcome.unfinished)
    BY <1>1, <1>6, UnfinishedIsGood
  <2>3. /\ Groups[outcome.unfinished] \in Chunks
        /\ Listed(Groups[outcome.unfinished]) = outcome.unfinished
    BY <1>2, <2>2, GroupsFacts DEF GoodList
  <2>4. TypeOK'
    BY <1>1, <1>2, <1>3, <1>4, <1>5, <2>1, <2>3 DEF IInv, TypeOK, Locations, clusterVars
  <2>5. pc'[c] = "load" /\ round'[c] = n + 1 /\ chunks'[c] = Groups[outcome.unfinished] /\ rules'[c] = rules[c]
    BY <1>5, <2>1 DEF IInv, TypeOK
  <2>6. ListOK(c)'
    <3>1. StoreGrows
      BY <1>5 DEF StoreGrows, clusterVars
    <3>2. n + 1 \in Nat
      BY <1>1
    <3>3. QED
      BY <2>2, <2>5, <3>1, <3>2, ListTaken DEF IInv
  <2>7. Verified(c)' = {}
    BY <2>5 DEF Verified, Adopted
  <2>8. rules[c] \in RuleVersions
    BY <1>1 DEF Attempt, RulesOK
  <2>9. Attempt(c)'
    BY <2>5, <2>6, <2>7, <2>8 DEF Attempt, ProgressOK, RulesOK, FreshOK, Adopted
  <2>10. QED
    BY <1>5, <2>1, <2>4, <2>9, LocalStep DEF IInv, TypeOK, clusterVars
<1>7. CASE ~retry
  <2>1. /\ unreported' = [unreported EXCEPT ![c] = ToReport(failures)]
        /\ pc' = [pc EXCEPT ![c] = "report"]
        /\ UNCHANGED <<round, chunks>>
    BY <1>7 DEF FinishRound, Goto
  <2>2. ToReport(failures) \subseteq Repositories
    BY <1>4 DEF ToReport
  <2>3. TypeOK'
    BY <1>2, <1>3, <1>4, <1>5, <2>1, <2>2 DEF IInv, TypeOK, Locations, clusterVars
  <2>4. Attempt(c)'
    BY <2>1, IdleAttempt DEF IInv, TypeOK
  <2>5. QED
    BY <1>5, <2>1, <2>3, <2>4, LocalStep DEF IInv, TypeOK, clusterVars
<1>8. QED
  BY <1>6, <1>7

-----------------------------------------------------------------------------
(* Steps that create resources. *)

LEMMA CreateRulesStep ==
  ASSUME IInv, NEW c \in Controllers, CreateRules(c)
  PROVE  IInv'
<1> USE DEF CreateRules, Goto, roundVars, batchVars
<1>1. /\ Attempt(c) /\ pc[c] = "rules" /\ HasList(c) /\ ListOK(c)
      /\ rules[c] \in RuleVersions
  BY DEF IInv, AttemptsOK, Attempt, HasList, RulesOK, Adopted
<1>2. StoreGrows /\ UNCHANGED <<configMaps, jobs>>
  BY DEF StoreGrows, Accepts
<1>3. StoreOK' /\ JobsOK'
  BY <1>2, StoreUnchanged, JobsStay DEF IInv
<1>4. chunks[c] \in Chunks /\ Len(chunks[c]) \in Nat \ {0}
  BY <1>1, ListedType, GroupsFacts DEF ListOK, GoodList, IInv, TypeOK
<1>5. TypeOK'
  <2>1. /\ rulesMap' \in RuleVersions \cup {NoRules}
        /\ todo' \in [Controllers -> Nat]
        /\ pc' \in [Controllers -> Locations]
    <3>1. \/ /\ rulesMap' = rules[c]
             /\ todo' = [todo EXCEPT ![c] = Len(chunks[c])]
             /\ pc' = [pc EXCEPT ![c] = "chunk"]
          \/ UNCHANGED <<rulesMap, todo>> /\ pc' = [pc EXCEPT ![c] = "refused"]
      OBVIOUS
    <3>2. Len(chunks[c]) \in Nat /\ todo \in [Controllers -> Nat]
      BY <1>4 DEF IInv, TypeOK
    <3>3. todo' \in [Controllers -> Nat]
      BY <3>1, <3>2
    <3>4. rulesMap' \in RuleVersions \cup {NoRules} /\ pc' \in [Controllers -> Locations]
      BY <1>1, <3>1 DEF IInv, TypeOK, Locations
    <3>5. QED
      BY <3>3, <3>4
  <2>2. UNCHANGED <<configMaps, jobs, received, now, finished, removals, exits>>
    OBVIOUS
  <2>3. UNCHANGED <<round, chunks, rules, left, batchEnd, completed, failed, unreported>>
    OBVIOUS
  <2>4. QED
    BY <2>1, <2>2, <2>3 DEF IInv, TypeOK, JobType
<1>6. Attempt(c)'
  <2>1. CASE pc'[c] = "refused"
    BY <2>1, IdleAttempt
  <2>2. CASE pc'[c] # "refused"
    <3>1. /\ pc'[c] = "chunk" /\ todo'[c] = Len(chunks[c]) /\ rulesMap' = rules[c]
          /\ UNCHANGED <<round, chunks, rules>>
      BY <2>2 DEF IInv, TypeOK
    <3>2. ListOK(c)'
      BY <1>1, <1>2, <3>1, ListStays DEF IInv
    <3>3. DOMAIN chunks[c] = 1..Len(chunks[c])
      BY <1>4, LenProperties DEF Chunks
    <3>4. Verified(c)' = {}
      BY <1>4, <3>1, <3>3 DEF Verified, Adopted
    <3>5. ProgressOK(c)'
      BY <1>4, <3>1, <3>4 DEF ProgressOK
    <3>6. QED
      BY <1>1, <3>1, <3>2, <3>5 DEF Attempt, RulesOK, FreshOK
  <2>3. QED
    BY <2>1, <2>2
<1>7. AttemptsOK'
  BY <1>2, <1>6, AttemptsStep DEF IInv, TypeOK
<1>8. QED
  BY <1>3, <1>5, <1>7 DEF IInv

\* What a controller knows while it creates chunk todo[c]: that chunk is one
\* of its list, and all chunks above are stored as it wants them.
LEMMA ChunkFacts ==
  ASSUME IInv, NEW c \in Controllers, pc[c] = "chunk"
  PROVE  /\ round[c] \in Nat
         /\ chunks[c] \in [1..Len(chunks[c]) -> SUBSET Repositories]
         /\ Len(chunks[c]) \in Nat \ {0}
         /\ todo[c] \in 1..Len(chunks[c])
         /\ HasList(c) /\ ListOK(c)
         /\ \A i \in 1..Len(chunks[c]) : i > todo[c] =>
              /\ <<round[c], i>> \in DOMAIN configMaps
              /\ configMaps[<<round[c], i>>] = ChunkMap(c, i)
<1>1. Attempt(c) /\ HasList(c) /\ ListOK(c) /\ chunks[c] \in Chunks /\ round[c] \in Nat
  BY DEF IInv, TypeOK, AttemptsOK, Attempt, HasList
<1>2. chunks[c] \in [1..Len(chunks[c]) -> SUBSET Repositories] /\ Len(chunks[c]) \in Nat
  BY <1>1, LenProperties DEF Chunks
<1>3. todo[c] \in 1..Len(chunks[c])
  BY DEF IInv, AttemptsOK, Attempt, ProgressOK
<1>4. Verified(c) = {i \in 1..Len(chunks[c]) : i > todo[c]}
  BY <1>2 DEF Verified, Adopted
<1>5. QED
  BY <1>1, <1>2, <1>3, <1>4 DEF Attempt, ProgressOK

\* A chunk that was accepted is in the store, which otherwise stays as it is.
LEMMA ChunkCreated ==
  ASSUME IInv, NEW c \in Controllers, CreateChunk(c), pc'[c] # "refused"
  PROVE  LET key == <<round[c], todo[c]>> IN
         /\ StoreGrows
         /\ DOMAIN configMaps' = DOMAIN configMaps \cup {key}
         /\ configMaps'[key] = ChunkMap(c, todo[c])
         /\ pc'[c] = IF todo[c] = 1 THEN "guard" ELSE "chunk"
         /\ todo'[c] = todo[c] - 1
         /\ UNCHANGED <<round, chunks, rules, rulesMap, jobs>>
<1> DEFINE key == <<round[c], todo[c]>>
           desired == ChunkMap(c, todo[c])
<1>1. /\ Accepts(key \in DOMAIN configMaps, configMaps[key] = desired)
      /\ configMaps' = Put(configMaps, key, desired)
      /\ pc'[c] = AfterChunk(c) /\ todo'[c] = todo[c] - 1
      /\ UNCHANGED <<round, chunks, rules, rulesMap, jobs>>
  BY DEF CreateChunk, NextChunk, Goto, roundVars, IInv, TypeOK
<1>2. /\ DOMAIN configMaps' = DOMAIN configMaps \cup {key}
      /\ configMaps'[key] = desired
      /\ \A k \in DOMAIN configMaps : k # key => configMaps'[k] = configMaps[k]
  BY <1>1 DEF Put
<1>3. StoreGrows
  BY <1>1, <1>2 DEF StoreGrows, Accepts
<1>4. QED
  BY <1>1, <1>2, <1>3 DEF AfterChunk

\* Creating the first chunk completes the manifest of the round: the other
\* chunks have been verified. Creating another one leaves every stored round
\* as it is.
LEMMA ChunkCompletes ==
  ASSUME IInv, NEW c \in Controllers, CreateChunk(c), pc'[c] # "refused",
         NEW n \in Nat, IsStored(n)', ~IsStored(n)
  PROVE  /\ n = round[c]
         /\ Whole(n)'
         /\ StoredChunks(n)' = chunks[c]
<1> DEFINE count == Len(chunks[c])
<1>1. pc[c] = "chunk"
  BY DEF CreateChunk
<1>2. n = round[c] /\ todo[c] = 1
  <2>1. <<n, 1>> = <<round[c], todo[c]>>
    BY ChunkCreated DEF IsStored
  <2>2. QED
    BY <2>1
<1>3. 1 \in 1..count /\ chunks[c] \in [1..count -> SUBSET Repositories]
  BY <1>1, ChunkFacts
<1>4. \A i \in 1..count : <<n, i>> \in DOMAIN configMaps' /\ configMaps'[<<n, i>>] = ChunkMap(c, i)
  <2>1. ASSUME NEW i \in 1..count, i > 1
        PROVE  <<n, i>> \in DOMAIN configMaps' /\ configMaps'[<<n, i>>] = ChunkMap(c, i)
    <3>1. <<n, i>> \in DOMAIN configMaps /\ configMaps[<<n, i>>] = ChunkMap(c, i)
      BY <1>1, <1>2, <2>1, ChunkFacts
    <3>2. QED
      BY <3>1, ChunkCreated DEF StoreGrows
  <2>2. <<n, 1>> \in DOMAIN configMaps' /\ configMaps'[<<n, 1>>] = ChunkMap(c, 1)
    BY <1>2, ChunkCreated
  <2>3. QED
    BY <2>1, <2>2
<1>5. \A i \in 1..count :
        /\ <<n, i>> \in DOMAIN configMaps'
        /\ configMaps'[<<n, i>>].count = count
        /\ configMaps'[<<n, i>>].group = chunks[c][i]
  <2>1. \A i \in 1..count : ChunkMap(c, i).count = count /\ ChunkMap(c, i).group = chunks[c][i]
    BY DEF ChunkMap
  <2>2. QED
    BY <1>4, <2>1
<1>6. Whole(n)'
  BY <1>3, <1>5 DEF Whole
<1>7. StoredChunks(n)' = [i \in 1..count |-> chunks[c][i]]
  BY <1>3, <1>5 DEF StoredChunks
<1>8. QED
  BY <1>2, <1>3, <1>6, <1>7

LEMMA CreateChunkStep ==
  ASSUME IInv, NEW c \in Controllers, CreateChunk(c)
  PROVE  IInv'
<1> DEFINE n == round[c]
           i == todo[c]
<1>1. pc[c] = "chunk" /\ Attempt(c)
  BY DEF CreateChunk, IInv, AttemptsOK
<1>2. \A d \in Controllers \ {c} :
        /\ pc'[d] = pc[d] /\ round'[d] = round[d] /\ chunks'[d] = chunks[d]
        /\ rules'[d] = rules[d] /\ todo'[d] = todo[d]
  BY DEF CreateChunk, Goto, roundVars, IInv, TypeOK
<1>3. CASE pc'[c] = "refused"
  <2>1. UNCHANGED <<configMaps, rulesMap, jobs>>
    BY <1>3 DEF CreateChunk, AfterChunk, Goto, IInv, TypeOK
  <2>2. TypeOK'
    BY <1>3, <2>1 DEF CreateChunk, AfterChunk, Goto, roundVars, batchVars, IInv, TypeOK, JobType,
      Locations
  <2>3. Attempt(c)'
    BY <1>3, IdleAttempt
  <2>4. QED
    BY <1>2, <2>1, <2>2, <2>3, LocalStep
<1>4. CASE pc'[c] # "refused"
  <2>1. StoreGrows /\ UNCHANGED <<round, chunks, rules, rulesMap, jobs>>
    BY <1>4, ChunkCreated
  <2>2. /\ n \in Nat /\ Len(chunks[c]) \in Nat \ {0} /\ i \in 1..Len(chunks[c])
        /\ chunks[c] \in [1..Len(chunks[c]) -> SUBSET Repositories]
        /\ HasList(c) /\ ListOK(c)
    BY <1>1, ChunkFacts
  <2>3. TypeOK'
    <3>1. /\ DOMAIN configMaps' \subseteq Nat \X (Nat \ {0})
          /\ \A key \in DOMAIN configMaps' :
               configMaps'[key] \in [count : Nat \ {0}, group : SUBSET Repositories]
      <4>1. ChunkMap(c, i) \in [count : Nat \ {0}, group : SUBSET Repositories]
        BY <2>2 DEF ChunkMap
      <4>2. <<n, i>> \in Nat \X (Nat \ {0})
        BY <2>2
      <4>3. /\ DOMAIN configMaps' = DOMAIN configMaps \cup {<<n, i>>}
            /\ configMaps'[<<n, i>>] = ChunkMap(c, i)
        BY <1>4, ChunkCreated
      <4>4. ASSUME NEW key \in DOMAIN configMaps
            PROVE  /\ key \in Nat \X (Nat \ {0})
                   /\ configMaps'[key] \in [count : Nat \ {0}, group : SUBSET Repositories]
        BY <2>1 DEF IInv, TypeOK, StoreGrows
      <4>5. QED
        BY <4>1, <4>2, <4>3, <4>4
    <3>2. todo' \in [Controllers -> Nat] /\ pc' \in [Controllers -> Locations]
      <4>1. todo[c] - 1 \in Nat
        BY <2>2
      <4>2. todo' = [todo EXCEPT ![c] = @ - 1] /\ pc' = [pc EXCEPT ![c] = AfterChunk(c)]
        BY <1>4 DEF CreateChunk, Goto, IInv, TypeOK
      <4>3. AfterChunk(c) \in Locations
        BY DEF AfterChunk, Locations, Adopted
      <4>4. QED
        BY <4>1, <4>2, <4>3 DEF IInv, TypeOK
    <3>3. UNCHANGED <<rulesMap, jobs, received, now, finished, removals, exits>>
      BY DEF CreateChunk
    <3>4. UNCHANGED <<round, chunks, rules, left, batchEnd, completed, failed, unreported>>
      BY DEF CreateChunk, roundVars, batchVars
    <3>5. QED
      BY <3>1, <3>2, <3>3, <3>4 DEF IInv, TypeOK, JobType
  <2>4. StoreOK'
    <3> SUFFICES ASSUME NEW m \in Nat, IsStored(m)'
                 PROVE  /\ Whole(m)'
                        /\ GoodList(m, Manifest(m))'
                        /\ StoredChunks(m)' = Groups[Manifest(m)']
      BY DEF StoreOK
    <3>1. CASE IsStored(m)
      <4>1. Whole(m)' /\ StoredChunks(m)' = StoredChunks(m) /\ Manifest(m)' = Manifest(m)
        BY <2>1, <3>1, StoredStays DEF IInv
      <4>2. GoodList(m, Manifest(m)) /\ StoredChunks(m) = Groups[Manifest(m)]
        BY <3>1 DEF IInv, StoreOK
      <4>3. GoodList(m, Manifest(m))'
        BY <2>1, <4>1, <4>2, GoodListStays DEF IInv, GoodList
      <4>4. QED
        BY <4>1, <4>2, <4>3
    <3>2. CASE ~IsStored(m)
      <4>1. m = n /\ Whole(m)' /\ StoredChunks(m)' = chunks[c]
        BY <1>4, <3>2, ChunkCompletes
      <4>2. Manifest(m)' = Listed(chunks[c])
        BY <4>1 DEF Manifest, Listed
      <4>3. GoodList(m, Listed(chunks[c])) /\ chunks[c] = Groups[Listed(chunks[c])]
        BY <2>2, <4>1 DEF ListOK
      <4>4. GoodList(m, Manifest(m))'
        BY <2>1, <4>2, <4>3, GoodListStays DEF IInv, GoodList
      <4>5. QED
        BY <4>1, <4>2, <4>3, <4>4
    <3>3. QED
      BY <3>1, <3>2
  <2>5. Attempt(c)'
    <3>1. /\ pc'[c] = IF i = 1 THEN "guard" ELSE "chunk"
          /\ todo'[c] = i - 1
          /\ <<n, i>> \in DOMAIN configMaps'
          /\ configMaps'[<<n, i>>] = ChunkMap(c, i)
      BY <1>4, ChunkCreated
    <3>2. ListOK(c)'
      BY <2>1, <2>2, ListStays DEF IInv
    <3>3. pc'[c] = "chunk" => todo'[c] \in 1..Len(chunks'[c])
      BY <2>1, <2>2, <3>1
    <3>4. ASSUME NEW j \in 1..Len(chunks[c]), j >= i
          PROVE  <<n, j>> \in DOMAIN configMaps' /\ configMaps'[<<n, j>>] = ChunkMap(c, j)
      <4>1. CASE j = i
        BY <3>1, <4>1
      <4>2. CASE j > i
        BY <1>1, <2>1, <4>2, ChunkFacts DEF StoreGrows
      <4>3. QED
        BY <2>2, <3>4, <4>1, <4>2
    <3>5. Verified(c)' = {j \in 1..Len(chunks[c]) : j >= i}
      BY <2>1, <2>2, <3>1 DEF Verified, Adopted
    <3>6. ProgressOK(c)'
      BY <2>1, <3>3, <3>4, <3>5 DEF ProgressOK, ChunkMap
    <3>7. RulesOK(c)' /\ FreshOK(c)'
      BY <1>1, <2>1, <3>1 DEF Attempt, RulesOK, FreshOK, Adopted
    <3>8. QED
      BY <3>2, <3>6, <3>7 DEF Attempt
  <2>6. AttemptsOK'
    BY <1>2, <2>1, <2>5, AttemptsStep DEF IInv
  <2>7. JobsOK'
    BY <2>1, JobsStay DEF IInv
  <2>8. QED
    BY <2>3, <2>4, <2>6, <2>7 DEF IInv
<1>5. QED
  BY <1>3, <1>4

LEMMA CreateJobStep ==
  ASSUME IInv, NEW c \in Controllers, CreateJob(c)
  PROVE  IInv'
<1> DEFINE n == round[c]
<1>1. /\ pc[c] = "job" /\ Attempt(c) /\ HasList(c) /\ ListOK(c)
      /\ pc[c] \in Adopted
  BY DEF CreateJob, IInv, AttemptsOK, Attempt, HasList, Adopted
<1>2. /\ StoreGrows /\ StoreOK'
      /\ UNCHANGED <<configMaps, rulesMap, round, chunks, rules, todo>>
  BY StoreUnchanged DEF CreateJob, StoreGrows, roundVars, IInv
<1>3. n \in Nat /\ IsStored(n) /\ StoredChunks(n) = chunks[c]
  BY <1>1, AdoptedIsStored DEF IInv
<1>4. \/ jobs' = jobs
      \/ jobs' = Put(jobs, n, NewJob(c)) /\ n \notin DOMAIN jobs
  BY DEF CreateJob, JobExists
<1>5. JobType(NewJob(c)) /\ NewJob(c).chunks = chunks[c]
  <2>1. chunks[c] \in Chunks /\ now \in Nat /\ left[c] \in Nat
    BY DEF IInv, TypeOK
  <2>2. [repo \in Listed(chunks[c]) |-> "waiting"] \in [Listed(chunks[c]) -> PodStates]
    BY DEF PodStates
  <2>3. QED
    BY <2>1, <2>2 DEF NewJob, JobType, Reasons
<1>6. \A m \in DOMAIN jobs' :
        \/ m \in DOMAIN jobs /\ jobs'[m] = jobs[m]
        \/ m = n /\ jobs'[m] = NewJob(c)
  BY <1>4 DEF Put
<1>7. TypeOK'
  <2>1. \A m \in DOMAIN jobs' : m \in Nat /\ JobType(jobs'[m])
    BY <1>3, <1>5, <1>6 DEF IInv, TypeOK
  <2>2. pc' \in [Controllers -> Locations]
    BY DEF CreateJob, Goto, IInv, TypeOK, Locations, Adopted
  <2>3. UNCHANGED <<received, now, finished, removals, exits, left, batchEnd, completed, failed, unreported>>
    BY DEF CreateJob, roundVars, batchVars
  <2>4. QED
    BY <1>2, <2>1, <2>2, <2>3 DEF IInv, TypeOK, JobType
<1>8. JobsOK'
  <2>1. ASSUME NEW m \in DOMAIN jobs'
        PROVE  IsStored(m)' /\ jobs'[m].chunks = StoredChunks(m)'
    <3>1. m \in Nat /\ IsStored(m) /\ jobs'[m].chunks = StoredChunks(m)
      BY <1>3, <1>5, <1>6 DEF IInv, TypeOK, JobsOK
    <3>2. QED
      BY <1>2, <3>1, StoredStays DEF IInv
  <2>2. QED
    BY <2>1 DEF JobsOK
<1>9. Attempt(c)'
  <2>1. CASE pc'[c] = "refused"
    BY <2>1, IdleAttempt
  <2>2. CASE pc'[c] # "refused"
    <3>1. pc'[c] = "wait"
      BY <2>2 DEF CreateJob, Goto, IInv, TypeOK
    <3>2. ListOK(c)'
      BY <1>1, <1>2, ListStays DEF IInv
    <3>3. ProgressOK(c)' /\ RulesOK(c)' /\ FreshOK(c)'
      BY <1>1, <1>2, <3>1
         DEF Attempt, ProgressOK, Verified, ChunkMap, RulesOK, FreshOK, Adopted
    <3>4. QED
      BY <3>2, <3>3 DEF Attempt
  <2>3. QED
    BY <2>1, <2>2
<1>10. \A d \in Controllers \ {c} : pc'[d] = pc[d]
  BY DEF CreateJob, Goto, IInv, TypeOK
<1>11. AttemptsOK'
  BY <1>2, <1>9, <1>10, AttemptsStep DEF IInv
<1>12. QED
  BY <1>2, <1>7, <1>8, <1>11 DEF IInv

-----------------------------------------------------------------------------
(* Steps of the cluster. *)

LEMMA ClusterTypes ==
  ASSUME IInv, ClusterStep \/ \E n \in DOMAIN jobs : RemoveJob(n)
  PROVE  /\ \A n \in DOMAIN jobs' :
              n \in DOMAIN jobs /\ jobs'[n].chunks = jobs[n].chunks /\ JobType(jobs'[n])
         /\ received' \subseteq Submissions
         /\ now' \in Nat /\ finished' \subseteq Nat /\ removals' \in Nat
         /\ UNCHANGED <<configMaps, rulesMap>>
<1>1. ASSUME NEW n \in DOMAIN jobs
      PROVE  /\ n \in Nat /\ JobType(jobs[n])
             /\ DOMAIN jobs[n].pods \subseteq Repositories
  BY ListedType DEF IInv, TypeOK, JobType
<1>2. /\ received \subseteq Submissions
      /\ now \in Nat /\ finished \subseteq Nat /\ removals \in Nat
  BY DEF IInv, TypeOK
<1>3. ASSUME NEW n \in DOMAIN jobs, NEW repo \in DOMAIN jobs[n].pods,
             NEW state \in PodStates, SetPod(n, repo, state)
      PROVE  \A m \in DOMAIN jobs' :
               m \in DOMAIN jobs /\ jobs'[m].chunks = jobs[m].chunks /\ JobType(jobs'[m])
  BY <1>1, <1>3 DEF SetPod, JobType
<1>4. ASSUME NEW n \in DOMAIN jobs, NEW repo \in DOMAIN jobs[n].pods, PodPosts(n, repo)
      PROVE  /\ SetPod(n, repo, "posted")
             /\ received' \subseteq Submissions
             /\ UNCHANGED <<configMaps, rulesMap, now, finished, removals>>
  BY <1>1, <1>2, <1>4 DEF PodPosts, Result, Submissions
<1>5. ASSUME NEW n \in DOMAIN jobs, JobStops(n)
      PROVE  \A m \in DOMAIN jobs' :
               m \in DOMAIN jobs /\ jobs'[m].chunks = jobs[m].chunks /\ JobType(jobs'[m])
  <2>1. PICK reason \in Reasons : jobs' = [jobs EXCEPT ![n].reason = reason]
    BY <1>5 DEF JobStops, StopReason, Reasons, FailedReasons
  <2>2. QED
    BY <1>1, <2>1 DEF JobType
<1>6. CASE \E n \in DOMAIN jobs : \E repo \in DOMAIN jobs[n].pods : PodPosts(n, repo)
  BY <1>2, <1>3, <1>4, <1>6 DEF PodStates
<1>7. CASE \E n \in DOMAIN jobs : \E repo \in DOMAIN jobs[n].pods : PodPostsLate(n, repo)
  BY <1>1, <1>2, <1>7 DEF PodPostsLate, Result, Submissions
<1>8. CASE \E n \in DOMAIN jobs : \E repo \in DOMAIN jobs[n].pods :
             PodSucceeds(n, repo) \/ PodFails(n, repo)
  BY <1>2, <1>3, <1>8 DEF PodSucceeds, PodFails, PodStates
<1>9. CASE \E n \in DOMAIN jobs : JobStops(n)
  <2>1. PICK n \in DOMAIN jobs : JobStops(n)
    BY <1>9
  <2>2. finished' \subseteq Nat /\ UNCHANGED <<configMaps, rulesMap, received, now, removals>>
    BY <1>1, <1>2, <2>1 DEF JobStops
  <2>3. QED
    BY <1>2, <1>5, <2>1, <2>2
<1>10. CASE Tick
  BY <1>1, <1>2, <1>10 DEF Tick
<1>11. CASE \E n \in DOMAIN jobs : RemoveJob(n)
  BY <1>1, <1>2, <1>11 DEF RemoveJob, JobRemoved
<1>12. QED
  BY <1>6, <1>8, <1>9, <1>10, <1>11, <1>7 DEF ClusterStep

LEMMA EnvironmentStep ==
  ASSUME IInv, ClusterStep \/ \E n \in DOMAIN jobs : RemoveJob(n),
         UNCHANGED <<localVars, exits>>
  PROVE  IInv'
<1>1. UNCHANGED <<configMaps, rulesMap>> /\ StoreGrows
  BY ClusterTypes DEF StoreGrows
<1>2. UNCHANGED <<pc, round, chunks, rules, left, todo, batchEnd, completed, failed, unreported, exits>>
  BY DEF localVars, roundVars, batchVars
<1>3. TypeOK'
  BY <1>1, <1>2, ClusterTypes DEF IInv, TypeOK
<1>4. StoreOK'
  BY <1>1, StoreUnchanged DEF IInv
<1>5. AttemptsOK'
  <2>1. ASSUME NEW c \in Controllers PROVE Attempt(c)'
    BY <1>1, <1>2, AttemptStays DEF IInv, AttemptsOK
  <2>2. QED
    BY <2>1 DEF AttemptsOK
<1>6. JobsOK'
  BY <1>1, ClusterTypes, JobsStay DEF IInv
<1>7. QED
  BY <1>3, <1>4, <1>5, <1>6 DEF IInv

LEMMA StutterStep ==
  ASSUME IInv, UNCHANGED vars
  PROVE  IInv'
<1>1. UNCHANGED <<configMaps, rulesMap, jobs>> /\ StoreGrows
  BY DEF vars, clusterVars, StoreGrows
<1>2. UNCHANGED <<pc, round, chunks, rules, left, todo, batchEnd, completed, failed, unreported, exits>>
  BY DEF vars, localVars, roundVars, batchVars
<1>3. UNCHANGED <<received, now, finished, removals>>
  BY DEF vars, clusterVars
<1>4. TypeOK'
  BY <1>1, <1>2, <1>3 DEF IInv, TypeOK, JobType
<1>5. StoreOK' /\ JobsOK'
  BY <1>1, StoreUnchanged, JobsStay DEF IInv
<1>6. AttemptsOK'
  <2>1. ASSUME NEW c \in Controllers PROVE Attempt(c)'
    BY <1>1, <1>2, AttemptStays DEF IInv, AttemptsOK
  <2>2. QED
    BY <2>1 DEF AttemptsOK
<1>7. QED
  BY <1>4, <1>5, <1>6 DEF IInv

LEMMA NextIInv == IInv /\ [Next]_vars => IInv'
<1> SUFFICES ASSUME IInv, [Next]_vars PROVE IInv'
  OBVIOUS
<1>1. ASSUME NEW c \in Controllers, Start(c) PROVE IInv'
  BY <1>1, StartStep
<1>2. ASSUME NEW c \in Controllers, Proceed(c) PROVE IInv'
  <2>1. CASE LoadStored(c) \/ LoadFromRegister(c) \/ LoadNothing(c) \/ LoadComputed(c)
    BY <2>1, LoadStep
  <2>2. CASE CreateRules(c)
    BY <2>2, CreateRulesStep
  <2>3. CASE CreateChunk(c)
    BY <2>3, CreateChunkStep
  <2>4. CASE GuardJob(c) \/ CheckLater(c) \/ JobGone(c)
    BY <2>4, GuardStep
  <2>5. CASE CreateJob(c)
    BY <2>5, CreateJobStep
  <2>6. CASE FinishRound(c)
    BY <2>6, FinishRoundStep
  <2>7. CASE ReportOne(c) \/ FinishReport(c)
    BY <2>7, ReportStep
  <2>8. QED
    BY <1>2, <2>1, <2>2, <2>3, <2>4, <2>5, <2>6, <2>7 DEF Proceed
<1>3. ASSUME NEW c \in Controllers, Exit(c) \/ ReportUnacknowledged(c) PROVE IInv'
  BY <1>3, ExitStep
<1>4. CASE /\ ClusterStep \/ \E n \in DOMAIN jobs : RemoveJob(n)
           /\ UNCHANGED <<localVars, exits>>
  BY <1>4, EnvironmentStep
<1>5. CASE UNCHANGED vars
  BY <1>5, StutterStep
<1>6. QED
  BY <1>1, <1>2, <1>3, <1>4, <1>5 DEF Next

\* The strengthened invariant holds in every reachable state.
THEOREM Invariance == Spec => []IInv
BY InitIInv, NextIInv, PTL DEF Spec

-----------------------------------------------------------------------------
(* What the invariant says about the stored batch. *)

\* Every variable keeps its type, in particular the Job of a later round
\* always gets a time it can be created with (BuildIndexedJob).
THEOREM TypeCorrect == Spec => []TypeOK
<1>1. IInv => TypeOK
  BY DEF IInv
<1>2. QED
  BY <1>1, Invariance, PTL

\* A round whose chunk 0 is stored is stored as a whole, and is one manifest,
\* for any number of controllers, crashes and register changes (runRound).
THEOREM ManifestIntact == Spec => []StoredManifestIntact
<1>1. ASSUME IInv PROVE StoredManifestIntact
  <2> SUFFICES ASSUME NEW key \in DOMAIN configMaps, key[2] = 1
               PROVE  /\ \A i \in 1..configMaps[key].count :
                           /\ <<key[1], i>> \in DOMAIN configMaps
                           /\ configMaps[<<key[1], i>>].count = configMaps[key].count
                      /\ StoredChunks(key[1]) = Groups[Manifest(key[1])]
    BY DEF StoredManifestIntact
  <2>1. key[1] \in Nat /\ key = <<key[1], 1>>
    BY <1>1 DEF IInv, TypeOK
  <2>2. IsStored(key[1])
    BY <2>1 DEF IsStored
  <2>3. QED
    BY <1>1, <2>1, <2>2 DEF IInv, StoreOK, Whole
<1>2. QED
  BY <1>1, Invariance, PTL

\* Controllers and Jobs use exactly the manifest and rules that are stored
\* (createOrVerifyConfigMap, createOrVerifyJob).
THEOREM SnapshotAdopted == Spec => []AdoptedSnapshot
<1>1. ASSUME IInv PROVE AdoptedSnapshot
  <2>1. ASSUME NEW c \in Controllers, pc[c] \in Adopted
        PROVE  /\ IsStored(round[c])
               /\ chunks[c] = StoredChunks(round[c])
               /\ rules[c] = rulesMap
    <3>1. Attempt(c)
      BY <1>1 DEF IInv, AttemptsOK
    <3>2. QED
      BY <1>1, <2>1, <3>1, AdoptedIsStored DEF IInv, Attempt, RulesOK
  <2>2. QED
    BY <1>1, <2>1 DEF AdoptedSnapshot, IInv, JobsOK
<1>2. QED
  BY <1>1, Invariance, PTL

-----------------------------------------------------------------------------
(* The controller implements RoundPlan. *)

LEMMA StoredRoundsAre ==
  ASSUME TypeOK
  PROVE  StoredRounds = {n \in Nat : IsStored(n)}
<1>1. ASSUME NEW n \in StoredRounds PROVE n \in Nat /\ IsStored(n)
  <2>1. PICK key \in DOMAIN configMaps : key[2] = 1 /\ n = key[1]
    BY DEF StoredRounds
  <2>2. key[1] \in Nat /\ key = <<key[1], 1>>
    BY <2>1 DEF TypeOK
  <2>3. QED
    BY <2>1, <2>2 DEF IsStored
<1>2. ASSUME NEW n \in Nat, IsStored(n) PROVE n \in StoredRounds
  BY <1>2 DEF StoredRounds, IsStored
<1>3. QED
  BY <1>1, <1>2

LEMMA StoredRoundsThen ==
  ASSUME TypeOK'
  PROVE  StoredRounds' = {n \in Nat : IsStored(n)'}
<1>1. DOMAIN configMaps' \subseteq Nat \X (Nat \ {0})
  BY DEF TypeOK
<1>2. ASSUME NEW n \in StoredRounds' PROVE n \in Nat /\ IsStored(n)'
  <2>1. PICK key \in DOMAIN configMaps' : key[2] = 1 /\ n = key[1]
    BY DEF StoredRounds
  <2>2. key[1] \in Nat /\ key = <<key[1], 1>>
    BY <1>1, <2>1
  <2>3. QED
    BY <2>1, <2>2 DEF IsStored
<1>3. ASSUME NEW n \in Nat, IsStored(n)' PROVE n \in StoredRounds'
  BY <1>3 DEF StoredRounds, IsStored
<1>4. QED
  BY <1>2, <1>3

LEMMA InitPlan == Init => Plan!PlanInit
BY DEF Init, ClusterInit, Empty, Plan!PlanInit, StoredPlan, StoredRounds

\* A step that stores no first chunk decides no round.
LEMMA PlanStays ==
  ASSUME IInv, IInv', StoreGrows, \A n \in Nat : IsStored(n)' => IsStored(n)
  PROVE  StoredPlan' = StoredPlan
<1>1. StoredRounds' = StoredRounds
  <2>1. \A n \in Nat : IsStored(n)' <=> IsStored(n)
    BY StoredStays DEF IInv
  <2>2. StoredRounds = {n \in Nat : IsStored(n)}
    BY StoredRoundsAre DEF IInv
  <2>3. StoredRounds' = {n \in Nat : IsStored(n)'}
    BY StoredRoundsThen DEF IInv
  <2>4. QED
    BY <2>1, <2>2, <2>3
<1>2. \A n \in StoredRounds : Manifest(n)' = Manifest(n)
  BY StoredRoundsAre, StoredStays DEF IInv
<1>3. QED
  BY <1>1, <1>2 DEF StoredPlan

\* Only creating a first chunk decides a round, and it decides it for a list
\* the abstract specification allows.
LEMMA ChunkPlan ==
  ASSUME IInv, IInv', NEW c \in Controllers, CreateChunk(c), pc'[c] # "refused",
         NEW n \in Nat, IsStored(n)', ~IsStored(n)
  PROVE  Plan!PlanNext
<1> DEFINE list == Listed(chunks[c])
<1>1. n = round[c] /\ StoredChunks(n)' = chunks[c] /\ StoreGrows
  BY ChunkCompletes, ChunkCreated
<1>2. \A m \in Nat : IsStored(m)' <=> m = n \/ IsStored(m)
  <2>1. \A m \in Nat : IsStored(m)' /\ ~IsStored(m) => m = n
    BY <1>1, ChunkCompletes
  <2>2. \A m \in Nat : IsStored(m) => IsStored(m)'
    BY <1>1, StoredStays DEF IInv
  <2>3. QED
    BY <2>1, <2>2
<1>3. n \notin StoredRounds /\ StoredRounds' = StoredRounds \cup {n}
  BY <1>2, StoredRoundsAre, StoredRoundsThen DEF IInv
<1>4. Manifest(n)' = list
  BY <1>1 DEF Manifest, Listed
<1>5. \A m \in StoredRounds : Manifest(m)' = Manifest(m)
  BY <1>1, StoredRoundsAre, StoredStays DEF IInv
<1>6. Plan!Decide(n, list)
  <2>1. StoredPlan' = [m \in StoredRounds \cup {n} |-> IF m = n THEN list ELSE Manifest(m)]
    BY <1>3, <1>4, <1>5 DEF StoredPlan
  <2>2. DOMAIN StoredPlan = StoredRounds /\ \A m \in StoredRounds : StoredPlan[m] = Manifest(m)
    BY DEF StoredPlan
  <2>3. [m \in StoredRounds \cup {n} |-> IF m = n THEN list ELSE Manifest(m)]
          = [m \in DOMAIN StoredPlan \cup {n} |-> IF m = n THEN list ELSE StoredPlan[m]]
    BY <2>2
  <2>4. QED
    BY <1>3, <2>1, <2>2, <2>3 DEF Plan!Decide
<1>7. GoodList(n, list)
  BY <1>1, ChunkFacts DEF CreateChunk, ListOK
<1>8. CASE n = 0
  <2>1. list \in Snapshots \ {{}}
    BY <1>7, <1>8 DEF GoodList
  <2>2. QED
    BY <1>6, <1>8, <2>1 DEF Plan!PlanNext, Plan!First
<1>9. CASE n > 0
  <2>1. n - 1 \in StoredRounds /\ StoredPlan[n - 1] = Manifest(n - 1)
    BY <1>7, <1>9, StoredRoundsAre DEF IInv, GoodList, StoredPlan
  <2>2. list \in (SUBSET StoredPlan[n - 1]) \ {{}, StoredPlan[n - 1]}
    BY <1>7, <1>9, <2>1 DEF GoodList
  <2>3. n - 1 \in DOMAIN StoredPlan /\ n = (n - 1) + 1
    BY <2>1 DEF StoredPlan
  <2>4. Plan!Decide((n - 1) + 1, list)
    BY <1>6, <2>3
  <2>5. Plan!Continue
    BY <2>2, <2>3, <2>4 DEF Plan!Continue
  <2>6. QED
    BY <2>5 DEF Plan!PlanNext
<1>10. QED
  BY <1>8, <1>9

LEMMA NextPlan == IInv /\ IInv' /\ [Next]_vars => [Plan!PlanNext]_StoredPlan
<1> SUFFICES ASSUME IInv, IInv', [Next]_vars PROVE Plan!PlanNext \/ StoredPlan' = StoredPlan
  OBVIOUS
<1>1. CASE UNCHANGED configMaps
  BY <1>1 DEF StoredPlan, StoredRounds, Manifest, StoredChunks, Listed
<1>2. ASSUME NEW c \in Controllers, CreateChunk(c), pc'[c] # "refused"
      PROVE  Plan!PlanNext \/ StoredPlan' = StoredPlan
  <2>1. CASE \E n \in Nat : IsStored(n)' /\ ~IsStored(n)
    BY <1>2, <2>1, ChunkPlan
  <2>2. CASE \A n \in Nat : IsStored(n)' => IsStored(n)
    BY <1>2, <2>2, ChunkCreated, PlanStays
  <2>3. QED
    BY <2>1, <2>2
<1>3. ASSUME NEW c \in Controllers, CreateChunk(c), pc'[c] = "refused"
      PROVE  UNCHANGED configMaps
  BY <1>3 DEF CreateChunk, AfterChunk, Goto, IInv, TypeOK
<1>4. ASSUME NEW c \in Controllers, Start(c) \/ Exit(c) \/ ReportUnacknowledged(c)
      PROVE  UNCHANGED configMaps
  BY <1>4 DEF Start, Exit, ReportUnacknowledged, clusterVars
<1>5. ASSUME NEW c \in Controllers, Proceed(c), ~CreateChunk(c)
      PROVE  UNCHANGED configMaps
  <2>1. CASE LoadStored(c) \/ LoadFromRegister(c) \/ LoadNothing(c) \/ LoadComputed(c)
    BY <2>1 DEF LoadStored, LoadFromRegister, LoadNothing, LoadComputed, BeginRound, clusterVars
  <2>2. CASE CreateRules(c) \/ CreateJob(c)
    BY <2>2 DEF CreateRules, CreateJob
  <2>3. CASE GuardJob(c) \/ CheckLater(c) \/ JobGone(c) \/ FinishRound(c)
    BY <2>3 DEF GuardJob, CheckLater, JobGone, FinishRound, clusterVars
  <2>4. CASE ReportOne(c) \/ FinishReport(c)
    BY <2>4 DEF ReportOne, FinishReport, clusterVars
  <2>5. QED
    BY <1>5, <2>1, <2>2, <2>3, <2>4 DEF Proceed
<1>6. CASE ClusterStep \/ \E n \in DOMAIN jobs : RemoveJob(n)
  BY <1>1, <1>6, ClusterTypes
<1>7. CASE UNCHANGED vars
  BY <1>7, <1>1 DEF vars, clusterVars
<1>8. QED
  BY <1>1, <1>2, <1>3, <1>4, <1>5, <1>6, <1>7 DEF Next

\* The controller implements RoundPlan: in every execution the list of each
\* round is decided at most once, for a register list or for a proper part
\* of the round before it (roundManifest, createOrVerifyConfigMap).
THEOREM RefinesPlan == Spec => RoundsFollowPlan
<1>1. Init => Plan!PlanInit
  BY InitPlan
<1>2. IInv /\ IInv' /\ [Next]_vars => [Plan!PlanNext]_StoredPlan
  BY NextPlan
<1>3. QED
  BY <1>1, <1>2, Invariance, PTL DEF Spec, RoundsFollowPlan, Plan!PlanSpec

-----------------------------------------------------------------------------
(* How the rounds of a batch follow each other as long as nobody deletes a   *)
(* Job, what the endpoint has got when a controller is done, and what holds  *)
(* as long as there is one controller.                                       *)
(*                                                                           *)
(* The idea: a round is only stored when the round before it is over, and    *)
(* a Job that is over never changes.  So whatever a controller takes for     *)
(* the unfinished repositories of the previous round, from the store or      *)
(* from the Job, is the same set, also for another controller or a later     *)
(* attempt.                                                                  *)

\* The Job of round n exists and is terminal.
Over(n) == n \in DOMAIN jobs /\ ~Running(n)

\* list is what the round before round n left unfinished.
Follows(n, list) == Over(n - 1) /\ list = Unfinished(n - 1)

\* Before a round is stored, all rounds before it are over.
Past(m) ==
  /\ m > 0 => Follows(m, Manifest(m))
  /\ \A n \in 0..(m - 1) :
       IsStored(n) /\ Over(n) /\ Manifest(m) \subseteq Unfinished(n)

PastOK == \A m \in Nat : IsStored(m) => Past(m)

\* So it is for a controller that is about to store one.
Ready(c) == HasList(c) /\ round[c] > 0 => Follows(round[c], Listed(chunks[c]))

\* Controllers EveryRepositoryCountedOnce is about.
Counts(c) == round[c] > 0 \/ pc[c] \in Adopted \cup {"report"}

Partitioned(c) ==
  /\ completed[c] \cup failed[c] \cup Current(c) = Manifest(0)
  /\ completed[c] \cap failed[c] = {}
  /\ (completed[c] \cup failed[c]) \cap Current(c) = {}

Counted(c) ==
  IF Counts(c)
  THEN IsStored(0) /\ Partitioned(c)
  ELSE pc[c] \in {"down", "load", "rules", "chunk"} => completed[c] = {} /\ failed[c] = {}

RoundsOK == PastOK /\ \A c \in Controllers : Ready(c) /\ Counted(c)

\* The inductive invariant, together with IInv.
RoundInv == removals = 0 => RoundsOK

-----------------------------------------------------------------------------
(* What a step keeps. *)

\* A Job that is over stays as it is.
JobsKept == \A n \in DOMAIN jobs : ~Running(n) => n \in DOMAIN jobs' /\ jobs'[n] = jobs[n]

\* The variables of controller d these proofs are about.
LocalsKept(d) ==
  /\ pc'[d] = pc[d] /\ round'[d] = round[d] /\ chunks'[d] = chunks[d]
  /\ completed'[d] = completed[d] /\ failed'[d] = failed[d]

LEMMA OverStays ==
  ASSUME JobsKept, NEW n, Over(n)
  PROVE  Over(n)' /\ Unfinished(n)' = Unfinished(n)
BY DEF JobsKept, Over, Running, Unfinished, InState

LEMMA FollowsStays ==
  ASSUME JobsKept, NEW n, NEW list, Follows(n, list)
  PROVE  Over(n - 1)' /\ list = Unfinished(n - 1)'
BY OverStays DEF Follows

\* The past of a stored round is not disturbed.
LEMMA PastStays ==
  ASSUME IInv, StoreGrows, JobsKept, NEW m \in Nat, IsStored(m), Past(m)
  PROVE  Past(m)'
<1>1. Manifest(m)' = Manifest(m)
  BY StoredStays DEF IInv
<1>2. m > 0 => Over(m - 1)' /\ Manifest(m)' = Unfinished(m - 1)'
  BY <1>1, FollowsStays DEF Past
<1>3. ASSUME NEW n \in 0..(m - 1)
      PROVE  (IsStored(n) /\ Over(n) /\ Manifest(m) \subseteq Unfinished(n))'
  <2>1. n \in Nat /\ IsStored(n) /\ Over(n) /\ Manifest(m) \subseteq Unfinished(n)
    BY DEF Past
  <2>2. IsStored(n)' /\ Over(n)' /\ Unfinished(n)' = Unfinished(n)
    BY <2>1, OverStays DEF IsStored, StoreGrows
  <2>3. QED
    BY <1>1, <2>1, <2>2
<1>4. QED
  BY <1>2, <1>3 DEF Past, Follows

LEMMA PastKept ==
  ASSUME IInv, StoreGrows, JobsKept, PastOK, \A n \in Nat : IsStored(n)' => IsStored(n)
  PROVE  PastOK'
<1>1. ASSUME NEW m \in Nat, IsStored(m)' PROVE Past(m)'
  BY <1>1, PastStays DEF PastOK
<1>2. QED
  BY <1>1 DEF PastOK

\* A controller that goes on with the same list.
LEMMA ReadyStays ==
  ASSUME JobsKept, NEW c \in Controllers, Ready(c), HasList(c)' => HasList(c),
         round'[c] = round[c], chunks'[c] = chunks[c]
  PROVE  Ready(c)'
<1> SUFFICES ASSUME HasList(c)', round'[c] > 0
             PROVE  Follows(round[c], Listed(chunks[c]))'
  BY DEF Ready
<1> DEFINE n == round[c]
           list == Listed(chunks[c])
<1>1. Follows(n, list)
  BY DEF Ready
<1>2. list' = list
  BY DEF Listed
<1>3. n - 1 \in DOMAIN jobs' /\ jobs'[n - 1] = jobs[n - 1]
  BY <1>1 DEF JobsKept, Follows, Over
<1>4. QED
  BY <1>1, <1>2, <1>3 DEF Follows, Over, Running, Unfinished, InState

\* A controller that counts on as before.
LEMMA CountedStays ==
  ASSUME IInv, StoreGrows, NEW c \in Controllers, Counted(c), Counts(c), Counts(c)',
         completed'[c] = completed[c], failed'[c] = failed[c], Current(c)' = Current(c)
  PROVE  Counted(c)'
<1>1. IsStored(0)' /\ Manifest(0)' = Manifest(0)
  BY StoredStays DEF Counted, IInv
<1>2. QED
  BY <1>1 DEF Counted, Partitioned

LEMMA BystanderStays ==
  ASSUME IInv, StoreGrows, JobsKept, NEW d \in Controllers, LocalsKept(d), Ready(d), Counted(d)
  PROVE  Ready(d)' /\ Counted(d)'
<1> USE DEF LocalsKept
<1>1. Ready(d)'
  BY ReadyStays DEF HasList
<1>2. Counts(d)' <=> Counts(d)
  BY DEF Counts
<1>3. Current(d)' = Current(d)
  BY DEF Current, Listed
<1>4. Counts(d) => Counted(d)'
  BY <1>2, <1>3, CountedStays
<1>5. ~Counts(d) => Counted(d)'
  BY <1>2 DEF Counted
<1>6. QED
  BY <1>1, <1>4, <1>5

\* A step of c has to be looked at for c only.
LEMMA StepOf ==
  ASSUME IInv, RoundsOK, StoreGrows, JobsKept, NEW c \in Controllers,
         \A d \in Controllers \ {c} : LocalsKept(d),
         PastOK', Ready(c)', Counted(c)'
  PROVE  RoundsOK'
<1>1. ASSUME NEW d \in Controllers PROVE Ready(d)' /\ Counted(d)'
  <2>1. CASE d = c
    BY <2>1
  <2>2. CASE d # c
    BY <2>2, BystanderStays DEF RoundsOK
  <2>3. QED
    BY <2>1, <2>2
<1>2. QED
  BY <1>1 DEF RoundsOK

\* The same for a step that stores nothing and leaves the Jobs alone.
LEMMA QuietStep ==
  ASSUME IInv, RoundsOK, UNCHANGED <<configMaps, jobs>>, rulesMap # NoRules => rulesMap' = rulesMap,
         NEW c \in Controllers, \A d \in Controllers \ {c} : LocalsKept(d),
         Ready(c)', Counted(c)'
  PROVE  RoundsOK'
<1>1. StoreGrows /\ JobsKept /\ \A n \in Nat : IsStored(n)' => IsStored(n)
  BY DEF StoreGrows, JobsKept, IsStored
<1>2. PastOK'
  BY <1>1, PastKept DEF RoundsOK
<1>3. QED
  BY <1>1, <1>2, StepOf

-----------------------------------------------------------------------------
(* Initially. *)

LEMMA InitRounds == Init => RoundInv
<1> SUFFICES ASSUME Init PROVE RoundsOK
  BY DEF RoundInv
<1> USE DEF Init, ClusterInit, Empty
<1>1. PastOK
  BY DEF PastOK, IsStored
<1>2. ASSUME NEW c \in Controllers PROVE Ready(c) /\ Counted(c)
  BY DEF Ready, Counted, Counts, Adopted, HasList
<1>3. QED
  BY <1>1, <1>2 DEF RoundsOK

-----------------------------------------------------------------------------
(* The steps of a controller. *)

LEMMA StartRounds ==
  ASSUME IInv, RoundsOK, NEW c \in Controllers, Start(c)
  PROVE  RoundsOK'
<1> USE DEF Start, Goto, clusterVars, batchVars
<1>1. pc[c] = "down" /\ pc'[c] = "load" /\ round[c] = 0 /\ round'[c] = 0
  BY DEF IInv, TypeOK, AttemptsOK, Attempt, FreshOK
<1>2. completed'[c] = {} /\ failed'[c] = {}
  BY <1>1 DEF RoundsOK, Counted, Counts, Adopted
<1>3. Ready(c)' /\ Counted(c)'
  BY <1>1, <1>2 DEF Ready, Counted, Counts, Adopted
<1>4. \A e \in Controllers \ {c} : LocalsKept(e)
  BY DEF LocalsKept, IInv, TypeOK
<1>5. QED
  BY <1>3, <1>4, QuietStep

\* Taking up a list that follows the round before.
LEMMA BeginRoundRounds ==
  ASSUME IInv, RoundsOK, NEW c \in Controllers, pc[c] = "load",
         NEW list, BeginRound(c, list),
         round[c] > 0 => Follows(round[c], Listed(list))
  PROVE  RoundsOK'
<1> USE DEF BeginRound, Goto, clusterVars, batchVars
<1>1. pc'[c] = "rules" /\ round'[c] = round[c] /\ chunks'[c] = list /\ round[c] \in Nat
  BY DEF IInv, TypeOK
<1>2. Listed(chunks[c])' = Listed(list)
  BY <1>1 DEF Listed
<1>3. Ready(c)'
  BY <1>1, <1>2 DEF Ready, Follows, Over, Running, Unfinished, InState
<1>4. Counted(c)'
  <2>1. CASE round[c] = 0
    BY <1>1, <2>1 DEF RoundsOK, Counted, Counts, Adopted
  <2>2. CASE round[c] > 0
    <3>1. Follows(round[c], Listed(chunks[c])) /\ Counts(c) /\ Counts(c)'
      BY <1>1, <2>2 DEF RoundsOK, Ready, HasList, Counts
    <3>2. Current(c)' = Current(c)
      BY <1>1, <1>2, <2>2, <3>1 DEF Current, Follows
    <3>3. StoreGrows
      BY DEF StoreGrows
    <3>4. QED
      BY <3>1, <3>2, <3>3, CountedStays DEF RoundsOK
  <2>3. QED
    BY <1>1, <2>1, <2>2
<1>5. \A e \in Controllers \ {c} : LocalsKept(e)
  BY DEF LocalsKept, IInv, TypeOK
<1>6. QED
  BY <1>3, <1>4, <1>5, QuietStep

LEMMA LoadRounds ==
  ASSUME IInv, RoundsOK, NEW c \in Controllers,
         LoadStored(c) \/ LoadFromRegister(c) \/ LoadNothing(c) \/ LoadComputed(c)
  PROVE  RoundsOK'
<1>0. round[c] \in Nat
  BY DEF IInv, TypeOK
<1>1. CASE LoadStored(c)
  <2>1. round[c] > 0 => Follows(round[c], Listed(StoredChunks(round[c])))
    BY <1>0, <1>1 DEF LoadStored, RoundsOK, PastOK, Past, Manifest
  <2>2. QED
    BY <1>1, <2>1, BeginRoundRounds DEF LoadStored
<1>2. CASE LoadFromRegister(c)
  BY <1>2, BeginRoundRounds DEF LoadFromRegister
<1>3. CASE LoadComputed(c)
  <2>1. Follows(round[c], Listed(chunks[c]))
    BY <1>3 DEF LoadComputed, RoundsOK, Ready, HasList
  <2>2. QED
    BY <1>3, <2>1, BeginRoundRounds DEF LoadComputed
<1>4. CASE LoadNothing(c)
  <2> USE DEF LoadNothing, Goto, clusterVars, roundVars, batchVars
  <2>1. pc'[c] = "done" /\ round'[c] = 0
    BY <1>4 DEF IInv, TypeOK
  <2>2. Ready(c)' /\ Counted(c)'
    BY <2>1 DEF Ready, Counted, Counts, Adopted
  <2>3. \A e \in Controllers \ {c} : LocalsKept(e)
    BY <1>4 DEF LocalsKept, IInv, TypeOK
  <2>4. QED
    BY <1>4, <2>2, <2>3, QuietStep
<1>5. QED
  BY <1>1, <1>2, <1>3, <1>4

\* A step of a controller to another location, with the same list.
LEMMA MoveRounds ==
  ASSUME IInv, RoundsOK, NEW c \in Controllers,
         UNCHANGED <<configMaps, jobs, round, chunks, completed, failed>>,
         rulesMap # NoRules => rulesMap' = rulesMap,
         \A e \in Controllers \ {c} : pc'[e] = pc[e],
         HasList(c)' => HasList(c), Counts(c)' => Counts(c), Current(c)' = Current(c),
         ~Counts(c)' => pc'[c] \notin {"down", "load"},
         ~Counts(c)' /\ pc'[c] \in {"rules", "chunk"} =>
           ~Counts(c) /\ pc[c] \in {"down", "load", "rules", "chunk"}
  PROVE  RoundsOK'
<1>1. StoreGrows /\ JobsKept
  BY DEF StoreGrows, JobsKept
<1>2. Ready(c)'
  BY <1>1, ReadyStays DEF RoundsOK
<1>3. Counts(c)' => Counted(c)'
  BY <1>1, CountedStays DEF RoundsOK
<1>4. ~Counts(c)' => Counted(c)'
  BY DEF Counted, RoundsOK
<1>5. \A e \in Controllers \ {c} : LocalsKept(e)
  BY DEF LocalsKept
<1>6. QED
  BY <1>2, <1>3, <1>4, <1>5, QuietStep

LEMMA CreateRulesRounds ==
  ASSUME IInv, RoundsOK, NEW c \in Controllers, CreateRules(c)
  PROVE  RoundsOK'
<1> USE DEF CreateRules, Goto, roundVars, batchVars
<1>1. pc[c] = "rules" /\ pc'[c] \in {"chunk", "refused"}
  BY DEF IInv, TypeOK
<1>2. /\ UNCHANGED <<configMaps, jobs, round, chunks, completed, failed>>
      /\ rulesMap # NoRules => rulesMap' = rulesMap
      /\ \A e \in Controllers \ {c} : pc'[e] = pc[e]
  BY DEF Accepts, IInv, TypeOK
<1>3. Current(c)' = Current(c) /\ HasList(c) /\ (Counts(c)' <=> Counts(c))
  BY <1>1, <1>2 DEF Current, Listed, HasList, Counts, Adopted
<1>4. QED
  BY <1>1, <1>2, <1>3, MoveRounds

LEMMA GuardRounds ==
  ASSUME IInv, RoundsOK, NEW c \in Controllers, GuardJob(c) \/ CheckLater(c) \/ JobGone(c)
  PROVE  RoundsOK'
<1> USE DEF GuardJob, CheckLater, JobGone, Goto, clusterVars, roundVars, batchVars
<1>1. pc[c] \in Adopted /\ pc'[c] \in {"job", "later", "refused"}
  BY DEF IInv, TypeOK, Adopted
<1>2. /\ UNCHANGED <<configMaps, jobs, rulesMap, round, chunks, completed, failed>>
      /\ \A e \in Controllers \ {c} : pc'[e] = pc[e]
  BY DEF IInv, TypeOK
<1>3. Current(c)' = Current(c)
  BY <1>1, <1>2 DEF Current, Listed, Adopted
<1>4. HasList(c) /\ Counts(c) /\ (~Counts(c)' => pc'[c] = "refused")
  BY <1>1 DEF HasList, Counts, Adopted
<1>5. QED
  BY <1>2, <1>3, <1>4, MoveRounds

LEMMA ReportRounds ==
  ASSUME IInv, RoundsOK, NEW c \in Controllers, ReportOne(c) \/ FinishReport(c)
  PROVE  RoundsOK'
<1> USE DEF ReportOne, FinishReport, Goto, clusterVars, roundVars, batchVars
<1>1. pc[c] = "report" /\ pc'[c] \in {"report", "done"}
  BY DEF IInv, TypeOK
<1>2. /\ UNCHANGED <<configMaps, jobs, rulesMap, round, chunks, completed, failed>>
      /\ \A e \in Controllers \ {c} : pc'[e] = pc[e]
  BY DEF IInv, TypeOK
<1>3. Current(c)' = Current(c)
  BY <1>1 DEF Current
<1>4. ~HasList(c)' /\ Counts(c)
  BY <1>1 DEF HasList, Counts, Adopted
<1>5. QED
  BY <1>1, <1>2, <1>3, <1>4, MoveRounds

LEMMA ExitRounds ==
  ASSUME IInv, RoundsOK, NEW c \in Controllers, Exit(c) \/ ReportUnacknowledged(c)
  PROVE  RoundsOK'
<1>1. Forget(c) /\ UNCHANGED <<configMaps, rulesMap, jobs>>
  BY DEF Exit, ReportUnacknowledged, clusterVars
<1>2. pc'[c] = "down" /\ round'[c] = 0 /\ completed'[c] = {} /\ failed'[c] = {}
  BY <1>1 DEF Forget, Goto, IInv, TypeOK
<1>3. Ready(c)' /\ Counted(c)'
  BY <1>2 DEF Ready, Counted, Counts, Adopted
<1>4. \A e \in Controllers \ {c} : LocalsKept(e)
  BY <1>1 DEF LocalsKept, Forget, Goto, IInv, TypeOK
<1>5. QED
  BY <1>1, <1>3, <1>4, QuietStep

\* An adopted list is the stored manifest of its round, and what its Job runs.
LEMMA AdoptedManifest ==
  IInv => \A c \in Controllers :
            pc[c] \in Adopted => IsStored(round[c]) /\ Manifest(round[c]) = Listed(chunks[c])
BY AdoptedIsStored DEF IInv, AttemptsOK, Manifest

LEMMA AdoptedManifestThen ==
  IInv' => (\A c \in Controllers :
              pc[c] \in Adopted => IsStored(round[c]) /\ Manifest(round[c]) = Listed(chunks[c]))'
BY AdoptedManifest, PTL

\* The Pods of a Job are completed, failed or unfinished.
LEMMA PodsPartitioned ==
  ASSUME IInv, NEW n \in DOMAIN jobs
  PROVE  /\ InState(n, "completed") \cup InState(n, "failed") \cup Unfinished(n) = Manifest(n)
         /\ InState(n, "completed") \cap InState(n, "failed") = {}
         /\ (InState(n, "completed") \cup InState(n, "failed")) \cap Unfinished(n) = {}
<1>1. jobs[n].pods \in [Listed(jobs[n].chunks) -> PodStates]
  BY DEF IInv, TypeOK, JobType
<1>2. Listed(jobs[n].chunks) = Manifest(n)
  BY DEF IInv, JobsOK, Manifest
<1>3. \A repo \in Manifest(n) : jobs[n].pods[repo] \in {"waiting", "posted", "completed", "failed"}
  BY <1>1, <1>2 DEF PodStates
<1>4. QED
  BY <1>1, <1>2, <1>3 DEF InState, Unfinished

\* The repositories of the round move to where its Job left them.
LEMMA FinishRoundRounds ==
  ASSUME IInv, RoundsOK, NEW c \in Controllers, FinishRound(c)
  PROVE  RoundsOK'
<1> DEFINE n == round[c]
           done == InState(n, "completed")
           lost == InState(n, "failed")
           rest == Unfinished(n)
           outcome == Outcome(n)
           retry == Retry(outcome, BatchEnd(c))
<1>1. pc[c] = "wait" /\ n \in Nat /\ Over(n)
  BY DEF FinishRound, Terminal, Over, IInv, TypeOK
<1>2. outcome.completed = done /\ outcome.failed = lost /\ outcome.unfinished = rest
  BY DEF Outcome
<1>3. /\ UNCHANGED <<configMaps, rulesMap, jobs>>
      /\ completed'[c] = completed[c] \cup done
      /\ failed'[c] = failed[c] \cup lost \cup (IF retry THEN {} ELSE rest)
      /\ \A e \in Controllers \ {c} : completed'[e] = completed[e] /\ failed'[e] = failed[e]
  BY <1>2 DEF FinishRound, NewFailures, clusterVars, IInv, TypeOK
<1>4. IF retry
      THEN pc'[c] = "load" /\ round'[c] = n + 1 /\ chunks'[c] = Groups[rest]
      ELSE pc'[c] = "report" /\ round'[c] = n /\ chunks'[c] = chunks[c]
  BY <1>2 DEF FinishRound, Goto, IInv, TypeOK
<1>5. \A e \in Controllers \ {c} : LocalsKept(e)
  BY <1>3 DEF FinishRound, Goto, LocalsKept, IInv, TypeOK
<1>6. retry => Listed(chunks[c])' = rest
  <2>1. ~retry \/ (rest # {} /\ rest \subseteq Repositories)
    BY <1>1, <1>2, UnfinishedIsGood DEF GoodList, Over
  <2>2. retry => Listed(Groups[rest]) = rest
    BY <2>1, GroupsFacts
  <2>3. QED
    BY <1>4, <2>2 DEF Listed
<1>7. Ready(c)'
  <2>1. CASE retry
    <3>1. round'[c] - 1 = n
      BY <1>1, <1>4, <2>1
    <3>2. QED
      BY <1>1, <1>3, <1>6, <2>1, <3>1 DEF Ready, Follows, Over, Running, Unfinished, InState
  <2>2. CASE ~retry
    BY <1>4, <2>2 DEF Ready, HasList, Adopted
  <2>3. QED
    BY <2>1, <2>2
<1>8. Counted(c)'
  <2>1. IsStored(0) /\ Partitioned(c)
    BY <1>1 DEF RoundsOK, Counted, Counts, Adopted
  <2>2. Current(c) = Manifest(n)
    BY <1>1, AdoptedManifest DEF Current, Adopted
  <2>3. /\ done \cup lost \cup rest = Current(c)
        /\ done \cap lost = {} /\ (done \cup lost) \cap rest = {}
    BY <1>1, <2>2, PodsPartitioned DEF Over
  <2>4. Current(c)' = IF retry THEN rest ELSE {}
    BY <1>4, <1>6 DEF Current
  <2>5. IsStored(0)' /\ Manifest(0)' = Manifest(0)
    BY <1>3, <2>1, StoredStays DEF IInv, StoreGrows
  <2>6. Partitioned(c)'
    BY <1>3, <2>1, <2>3, <2>4, <2>5 DEF Partitioned
  <2>7. Counts(c)'
    BY <1>1, <1>4 DEF Counts
  <2>8. QED
    BY <2>5, <2>6, <2>7 DEF Counted
<1>9. QED
  BY <1>3, <1>5, <1>7, <1>8, QuietStep

\* A round that is completed in the store follows the one before it, and so
\* all the earlier ones.
LEMMA NewPast ==
  ASSUME IInv, RoundsOK, StoreGrows, JobsKept, NEW n \in Nat, NEW list,
         n > 0 => Follows(n, list), Manifest(n)' = list
  PROVE  Past(n)'
<1>1. CASE n = 0
  BY <1>1 DEF Past
<1>2. CASE n > 0
  <2>1. n - 1 \in Nat /\ Over(n - 1) /\ list = Unfinished(n - 1)
    BY <1>2 DEF Follows
  <2>2. IsStored(n - 1) /\ Past(n - 1)
    BY <2>1 DEF Over, IInv, JobsOK, RoundsOK, PastOK
  <2>3. list \subseteq Manifest(n - 1)
    BY <2>1, PodsPartitioned DEF Over
  <2>4. ASSUME NEW m \in 0..(n - 1)
        PROVE  IsStored(m) /\ Over(m) /\ list \subseteq Unfinished(m)
    <3>1. CASE m = n - 1
      BY <2>1, <2>2, <3>1
    <3>2. CASE m # n - 1
      <4>1. m \in 0..((n - 1) - 1)
        BY <2>1, <3>2
      <4>2. QED
        BY <2>2, <2>3, <4>1 DEF Past
    <3>3. QED
      BY <3>1, <3>2
  <2>5. ASSUME NEW m \in 0..(n - 1)
        PROVE  (IsStored(m) /\ Over(m) /\ Manifest(n) \subseteq Unfinished(m))'
    <3>1. IsStored(m)' /\ Over(m)' /\ Unfinished(m)' = Unfinished(m)
      BY <2>4, OverStays DEF IsStored, StoreGrows
    <3>2. QED
      BY <2>4, <3>1
  <2>6. Follows(n, Manifest(n))'
    <3>1. Over(n - 1)' /\ list = Unfinished(n - 1)'
      BY <1>2, FollowsStays
    <3>2. QED
      BY <3>1 DEF Follows
  <2>7. QED
    BY <2>5, <2>6 DEF Past
<1>3. QED
  BY <1>1, <1>2

LEMMA CreateChunkRounds ==
  ASSUME IInv, IInv', RoundsOK, NEW c \in Controllers, CreateChunk(c)
  PROVE  RoundsOK'
<1> DEFINE n == round[c]
<1>1. pc[c] = "chunk" /\ n \in Nat /\ HasList(c)
  BY DEF CreateChunk, HasList, IInv, TypeOK
<1>2. /\ UNCHANGED <<jobs, round, chunks, completed, failed>>
      /\ \A e \in Controllers \ {c} : LocalsKept(e)
  BY DEF CreateChunk, Goto, roundVars, batchVars, LocalsKept, IInv, TypeOK
<1>3. CASE pc'[c] = "refused"
  <2>1. UNCHANGED <<configMaps, rulesMap>> /\ \A e \in Controllers \ {c} : pc'[e] = pc[e]
    BY <1>3 DEF CreateChunk, AfterChunk, Goto, IInv, TypeOK
  <2>2. Current(c)' = Current(c) /\ (Counts(c)' => Counts(c))
    BY <1>1, <1>2, <1>3 DEF Current, Listed, Counts, Adopted
  <2>3. QED
    BY <1>1, <1>2, <1>3, <2>1, <2>2, MoveRounds
<1>4. CASE pc'[c] # "refused"
  <2>1. StoreGrows /\ JobsKept /\ pc'[c] \in {"guard", "chunk"}
    BY <1>2, <1>4, ChunkCreated DEF JobsKept
  <2>2. ASSUME NEW m \in Nat, IsStored(m)' PROVE Past(m)'
    <3>1. CASE IsStored(m)
      BY <2>1, <3>1, PastStays DEF RoundsOK, PastOK
    <3>2. CASE ~IsStored(m)
      <4>1. m = n /\ Manifest(m)' = Listed(chunks[c])
        BY <1>4, <2>2, <3>2, ChunkCompletes DEF Manifest, Listed
      <4>2. n > 0 => Follows(n, Listed(chunks[c]))
        BY <1>1 DEF RoundsOK, Ready
      <4>3. QED
        BY <1>1, <2>1, <4>1, <4>2, NewPast
    <3>3. QED
      BY <3>1, <3>2
  <2>3. PastOK'
    BY <2>2 DEF PastOK
  <2>4. Ready(c)'
    BY <1>1, <1>2, <2>1, ReadyStays DEF RoundsOK
  <2>5. Counted(c)'
    <3>1. Current(c)' = Current(c) /\ Current(c)' = Listed(chunks[c])'
      BY <1>1, <1>2, <2>1 DEF Current, Listed
    <3>2. CASE Counts(c)
      <4>1. Counts(c)'
        BY <1>1, <1>2, <3>2 DEF Counts, Adopted
      <4>2. QED
        BY <1>2, <2>1, <3>1, <3>2, <4>1, CountedStays DEF RoundsOK
    <3>3. CASE ~Counts(c)
      <4>1. round'[c] = 0 /\ completed'[c] = {} /\ failed'[c] = {}
        BY <1>1, <1>2, <3>3 DEF RoundsOK, Counted, Counts
      <4>2. CASE pc'[c] = "chunk"
        BY <4>1, <4>2 DEF Counted, Counts, Adopted
      <4>3. CASE pc'[c] = "guard"
        <5>1. IsStored(0)' /\ Manifest(0)' = Listed(chunks[c])'
          BY <4>1, <4>3, AdoptedManifestThen DEF Adopted
        <5>2. QED
          BY <3>1, <4>1, <4>3, <5>1 DEF Counted, Counts, Partitioned, Adopted
      <4>4. QED
        BY <2>1, <4>2, <4>3
    <3>4. QED
      BY <3>2, <3>3
  <2>6. QED
    BY <1>2, <2>1, <2>3, <2>4, <2>5, StepOf
<1>5. QED
  BY <1>3, <1>4

LEMMA CreateJobRounds ==
  ASSUME IInv, RoundsOK, NEW c \in Controllers, CreateJob(c)
  PROVE  RoundsOK'
<1> USE DEF CreateJob, Goto, roundVars, batchVars
<1>1. pc[c] = "job" /\ pc'[c] \in {"wait", "refused"}
  BY DEF IInv, TypeOK
<1>2. /\ UNCHANGED <<configMaps, rulesMap, round, chunks, completed, failed>>
      /\ \A e \in Controllers \ {c} : LocalsKept(e)
  BY DEF LocalsKept, IInv, TypeOK
<1>3. StoreGrows /\ \A n \in Nat : IsStored(n)' => IsStored(n)
  BY <1>2 DEF StoreGrows, IsStored
<1>4. JobsKept
  BY DEF JobsKept, Put, JobExists
<1>5. PastOK'
  BY <1>3, <1>4, PastKept DEF RoundsOK
<1>6. Ready(c)'
  BY <1>1, <1>2, <1>4, ReadyStays DEF RoundsOK, HasList, Adopted
<1>7. Counted(c)'
  <2>1. Current(c)' = Current(c) /\ Counts(c)
    BY <1>1, <1>2 DEF Current, Listed, Counts, Adopted
  <2>2. CASE Counts(c)'
    BY <1>2, <1>3, <2>1, <2>2, CountedStays DEF RoundsOK
  <2>3. CASE ~Counts(c)'
    BY <1>1, <2>3 DEF Counted, Counts, Adopted
  <2>4. QED
    BY <2>2, <2>3
<1>8. QED
  BY <1>2, <1>3, <1>4, <1>5, <1>6, <1>7, StepOf

-----------------------------------------------------------------------------
(* The steps of the cluster. *)

LEMMA ClusterJobsKept ==
  ASSUME IInv, ClusterStep
  PROVE  JobsKept /\ UNCHANGED <<configMaps, rulesMap, removals>>
<1> USE DEF ClusterStep, PodPosts, PodPostsLate, PodSucceeds, PodFails, JobStops, Tick
<1>1. UNCHANGED <<configMaps, rulesMap, removals>>
  OBVIOUS
<1>2. \/ jobs' = jobs
      \/ \E n \in DOMAIN jobs : Running(n) /\ \E job : jobs' = [jobs EXCEPT ![n] = job]
  BY DEF SetPod
<1>3. JobsKept
  BY <1>2 DEF JobsKept
<1>4. QED
  BY <1>1, <1>3

LEMMA AllStay ==
  ASSUME IInv, RoundsOK, JobsKept, UNCHANGED <<configMaps, rulesMap>>,
         \A d \in Controllers : LocalsKept(d)
  PROVE  RoundsOK'
<1>1. StoreGrows /\ \A n \in Nat : IsStored(n)' => IsStored(n)
  BY DEF StoreGrows, IsStored
<1>2. PastOK'
  BY <1>1, PastKept DEF RoundsOK
<1>3. ASSUME NEW d \in Controllers PROVE Ready(d)' /\ Counted(d)'
  BY <1>1, BystanderStays DEF RoundsOK
<1>4. QED
  BY <1>2, <1>3 DEF RoundsOK

-----------------------------------------------------------------------------
(* The invariant. *)

LEMMA NextRounds == IInv /\ IInv' /\ RoundInv /\ [Next]_vars => RoundInv'
<1> SUFFICES ASSUME IInv, IInv', RoundInv, [Next]_vars, removals' = 0 PROVE RoundsOK'
  BY DEF RoundInv
<1>0. ASSUME removals = 0 PROVE RoundsOK
  BY <1>0 DEF RoundInv
<1>1. ASSUME NEW c \in Controllers, Start(c) PROVE RoundsOK'
  <2>1. RoundsOK
    BY <1>0, <1>1 DEF Start, clusterVars
  <2>2. QED
    BY <1>1, <2>1, StartRounds
<1>2. ASSUME NEW c \in Controllers, Proceed(c) PROVE RoundsOK'
  <2>1. CASE LoadStored(c) \/ LoadFromRegister(c) \/ LoadNothing(c) \/ LoadComputed(c)
    <3>1. RoundsOK
      BY <1>0, <2>1
      DEF LoadStored, LoadFromRegister, LoadNothing, LoadComputed, BeginRound, clusterVars
    <3>2. QED
      BY <2>1, <3>1, LoadRounds
  <2>2. CASE CreateRules(c)
    BY <1>0, <2>2, CreateRulesRounds DEF CreateRules
  <2>3. CASE CreateChunk(c)
    BY <1>0, <2>3, CreateChunkRounds DEF CreateChunk
  <2>4. CASE GuardJob(c) \/ CheckLater(c) \/ JobGone(c)
    BY <1>0, <2>4, GuardRounds DEF GuardJob, CheckLater, JobGone, clusterVars
  <2>5. CASE CreateJob(c)
    BY <1>0, <2>5, CreateJobRounds DEF CreateJob
  <2>6. CASE FinishRound(c)
    BY <1>0, <2>6, FinishRoundRounds DEF FinishRound, clusterVars
  <2>7. CASE ReportOne(c) \/ FinishReport(c)
    BY <1>0, <2>7, ReportRounds DEF ReportOne, FinishReport, clusterVars
  <2>8. QED
    BY <1>2, <2>1, <2>2, <2>3, <2>4, <2>5, <2>6, <2>7 DEF Proceed
<1>3. ASSUME NEW c \in Controllers, Exit(c) \/ ReportUnacknowledged(c) PROVE RoundsOK'
  BY <1>0, <1>3, ExitRounds DEF Exit, ReportUnacknowledged, clusterVars
<1>4. ASSUME ClusterStep, UNCHANGED <<localVars, exits>> PROVE RoundsOK'
  <2>1. \A d \in Controllers : LocalsKept(d)
    BY <1>4 DEF LocalsKept, localVars, roundVars, batchVars
  <2>2. QED
    BY <1>0, <1>4, <2>1, ClusterJobsKept, AllStay
<1>5. ASSUME NEW n \in DOMAIN jobs, RemoveJob(n) PROVE FALSE
  BY <1>5 DEF RemoveJob, JobRemoved, IInv, TypeOK
<1>6. ASSUME UNCHANGED vars PROVE RoundsOK'
  <2>1. UNCHANGED <<configMaps, rulesMap, jobs, removals>> /\ \A d \in Controllers : LocalsKept(d)
    BY <1>6 DEF vars, clusterVars, localVars, roundVars, batchVars, LocalsKept
  <2>2. JobsKept
    BY <2>1 DEF JobsKept
  <2>3. QED
    BY <1>0, <2>1, <2>2, AllStay
<1>7. QED
  BY <1>1, <1>2, <1>3, <1>4, <1>5, <1>6 DEF Next

\* The strengthened invariant holds in every reachable state.
THEOREM RoundsInvariant == Spec => [](IInv /\ RoundInv)
BY InitRounds, NextRounds, Invariance, PTL DEF Spec

\* Until somebody deletes a Job, two worker Jobs of a batch never run at the
\* same time, for any number of controllers, crashes and failing reads.
THEOREM OneRoundAtATime == Spec => []OneRoundRunning
<1>1. ASSUME IInv, RoundInv, removals = 0 PROVE Cardinality(RunningRounds) <= 1
  <2>1. ASSUME NEW n \in RunningRounds, NEW m \in RunningRounds PROVE ~(n < m)
    <3>1. n \in Nat /\ m \in Nat /\ Running(n) /\ IsStored(m)
      BY <1>1 DEF RunningRounds, IInv, TypeOK, JobsOK
    <3>2. SUFFICES ASSUME n < m PROVE FALSE
      OBVIOUS
    <3>3. Past(m) /\ n \in 0..(m - 1)
      BY <1>1, <3>1, <3>2 DEF RoundInv, RoundsOK, PastOK
    <3>4. QED
      BY <3>1, <3>3 DEF Past, Over
  <2>2. \A n, m \in RunningRounds : n = m
    BY <1>1, <2>1 DEF RunningRounds, IInv, TypeOK
  <2>3. RunningRounds = {} \/ \E n : RunningRounds = {n}
    BY <2>2
  <2>4. Cardinality({}) = 0 /\ \A n : Cardinality({n}) = 1
    BY FS_EmptySet, FS_Singleton
  <2>5. QED
    BY <2>3, <2>4
<1>2. QED
  BY <1>1, RoundsInvariant, PTL DEF OneRoundRunning

\* Until somebody deletes a Job, a repository that is completed or failed is in
\* no later round, however the rounds were resumed (roundOutcome, runRound).
THEOREM SettledStaysSettled == Spec => []SettledNeverRescanned
<1>1. ASSUME IInv, RoundInv, removals = 0, NEW n \in DOMAIN jobs, NEW m \in DOMAIN jobs, n < m
      PROVE  Listed(jobs[m].chunks) \cap (InState(n, "completed") \cup InState(n, "failed")) = {}
  <2>1. n \in Nat /\ m \in Nat /\ IsStored(m) /\ Listed(jobs[m].chunks) = Manifest(m)
    BY <1>1 DEF IInv, TypeOK, JobsOK, Manifest
  <2>2. Past(m) /\ n \in 0..(m - 1)
    BY <1>1, <2>1 DEF RoundInv, RoundsOK, PastOK
  <2>3. Manifest(m) \subseteq Unfinished(n)
    BY <2>2 DEF Past
  <2>4. QED
    BY <1>1, <2>1, <2>3, PodsPartitioned
<1>2. IInv /\ RoundInv => SettledNeverRescanned
  BY <1>1 DEF SettledNeverRescanned
<1>3. QED
  BY <1>2, RoundsInvariant, PTL

\* Until somebody deletes a Job, no repository of a batch is lost or counted
\* twice by any controller (RunController's loop, roundOutcome).
THEOREM CountedOnce == Spec => []EveryRepositoryCountedOnce
<1>1. IInv /\ RoundInv => EveryRepositoryCountedOnce
  BY DEF RoundInv, RoundsOK, Counted, Counts, Partitioned, EveryRepositoryCountedOnce
<1>2. QED
  BY <1>1, RoundsInvariant, PTL

-----------------------------------------------------------------------------
(* The end of a batch. A Pod that completed was accepted first, so the      *)
(* repositories a controller counts as completed have a result at the       *)
(* endpoint. The failed ones are reported before it is done, and there are  *)
(* no others.                                                               *)

\* The endpoint has something of a repository.
Known(repo) == {Result(repo), Failure(repo)} \cap received # {}

\* A Pod is only completed after its result was accepted.
PodsDelivered ==
  \A n \in DOMAIN jobs : \A repo \in DOMAIN jobs[n].pods :
    jobs[n].pods[repo] \in {"posted", "completed"} => Result(repo) \in received

CompletedDelivered(c) == \A repo \in completed[c] : Result(repo) \in received

\* A failed repository was reported, or will be.
FailuresKept(c) ==
  pc[c] = "report" => \A repo \in failed[c] : repo \in unreported[c] \/ Failure(repo) \in received

\* A controller that is done: all were reported, or there was nothing to do.
DoneOK(c) ==
  (pc[c] = "done" /\ removals = 0) =>
    IF IsStored(0) THEN \A repo \in Manifest(0) : Known(repo) ELSE {} \in Snapshots

\* The inductive invariant, together with IInv and RoundInv.
ReportInv ==
  ResultsConfigured =>
    /\ PodsDelivered
    /\ \A c \in Controllers : CompletedDelivered(c) /\ FailuresKept(c) /\ DoneOK(c)

\* Nobody finds an empty register while another controller has a list: the
\* register is never empty, or there is one controller.
OneView == {} \notin Snapshots \/ \A c, d \in Controllers : c = d

-----------------------------------------------------------------------------
(* What the conjuncts need of a step. *)

LEMMA PodsDeliveredStays ==
  ASSUME PodsDelivered, jobs' = jobs, received \subseteq received'
  PROVE  PodsDelivered'
BY DEF PodsDelivered, Result

\* A controller the step does not concern.
LEMMA OthersReport ==
  ASSUME NEW d \in Controllers, received \subseteq received',
         pc'[d] = pc[d], completed'[d] = completed[d], failed'[d] = failed[d],
         unreported'[d] = unreported[d],
         CompletedDelivered(d), FailuresKept(d)
  PROVE  CompletedDelivered(d)' /\ FailuresKept(d)'
BY DEF CompletedDelivered, FailuresKept, Result, Failure

\* A controller that stays done, while nothing is stored.
LEMMA DoneStays ==
  ASSUME NEW d \in Controllers, received \subseteq received', configMaps' = configMaps,
         pc'[d] = "done" => pc[d] = "done", removals' = 0 => removals = 0, DoneOK(d)
  PROVE  DoneOK(d)'
<1>1. IsStored(0)' = IsStored(0) /\ Manifest(0)' = Manifest(0)
  BY DEF IsStored, Manifest, StoredChunks, Listed
<1>2. \A repo : Known(repo) => Known(repo)'
  BY DEF Known, Result, Failure
<1>3. QED
  BY <1>1, <1>2 DEF DoneOK

\* A step of c that changes neither Pods nor store nor what c counts, and after
\* which c is neither reporting nor done.
LEMMA OnTheWay ==
  ASSUME ReportInv, NEW c \in Controllers,
         UNCHANGED <<configMaps, received, removals, completed, failed, unreported>>,
         PodsDelivered => PodsDelivered',
         \A d \in Controllers \ {c} : pc'[d] = pc[d],
         pc'[c] \notin {"report", "done"}
  PROVE  ReportInv'
<1> SUFFICES ASSUME ResultsConfigured
             PROVE  /\ PodsDelivered'
                    /\ \A d \in Controllers :
                         CompletedDelivered(d)' /\ FailuresKept(d)' /\ DoneOK(d)'
  BY DEF ReportInv
<1>1. PodsDelivered'
  BY DEF ReportInv
<1>2. ASSUME NEW d \in Controllers
      PROVE  CompletedDelivered(d)' /\ FailuresKept(d)' /\ DoneOK(d)'
  <2>1. CompletedDelivered(d) /\ FailuresKept(d) /\ DoneOK(d)
    BY DEF ReportInv
  <2>2. CASE d = c
    BY <2>1, <2>2 DEF CompletedDelivered, FailuresKept, DoneOK, Result
  <2>3. CASE d # c
    BY <2>1, <2>3, OthersReport, DoneStays
  <2>4. QED
    BY <2>2, <2>3
<1>3. QED
  BY <1>1, <1>2

-----------------------------------------------------------------------------
(* The steps of a controller. *)

LEMMA InitReport == Init => ReportInv
<1> SUFFICES ASSUME Init
             PROVE  PodsDelivered /\ \A c \in Controllers :
                      CompletedDelivered(c) /\ FailuresKept(c) /\ DoneOK(c)
  BY DEF ReportInv
<1>1. QED
  BY DEF Init, ClusterInit, Empty, PodsDelivered, CompletedDelivered, FailuresKept, DoneOK

LEMMA EarlyReport ==
  ASSUME IInv, ReportInv, NEW c \in Controllers,
         \/ Start(c) \/ LoadStored(c) \/ LoadFromRegister(c) \/ LoadComputed(c)
         \/ CreateRules(c) \/ GuardJob(c) \/ CheckLater(c) \/ JobGone(c)
  PROVE  ReportInv'
<1> USE DEF Start, LoadStored, LoadFromRegister, LoadComputed, BeginRound, CreateRules,
            GuardJob, CheckLater, JobGone, Goto, clusterVars, roundVars, batchVars
<1>1. UNCHANGED <<configMaps, jobs, received, removals, completed, failed, unreported>>
  OBVIOUS
<1>2. pc'[c] \notin {"report", "done"} /\ \A d \in Controllers \ {c} : pc'[d] = pc[d]
  BY DEF IInv, TypeOK
<1>3. QED
  BY <1>1, <1>2, PodsDeliveredStays, OnTheWay

\* Nothing is stored when a register is found empty.
LEMMA NothingReport ==
  ASSUME IInv, ReportInv, NEW c \in Controllers, LoadNothing(c)
  PROVE  ReportInv'
<1> SUFFICES ASSUME ResultsConfigured
             PROVE  /\ PodsDelivered'
                    /\ \A d \in Controllers :
                         CompletedDelivered(d)' /\ FailuresKept(d)' /\ DoneOK(d)'
  BY DEF ReportInv
<1> USE DEF LoadNothing, Goto, clusterVars, roundVars, batchVars
<1>1. UNCHANGED <<configMaps, jobs, received, removals, completed, failed, unreported>>
  OBVIOUS
<1>2. ASSUME NEW d \in Controllers
      PROVE  CompletedDelivered(d)' /\ FailuresKept(d)' /\ DoneOK(d)'
  <2>1. CompletedDelivered(d) /\ FailuresKept(d) /\ DoneOK(d)
    BY DEF ReportInv
  <2>2. CASE d = c
    <3>1. ~IsStored(0) /\ {} \in Snapshots /\ pc'[c] = "done"
      BY DEF IInv, TypeOK
    <3>2. QED
      BY <1>1, <2>1, <2>2, <3>1
      DEF CompletedDelivered, FailuresKept, DoneOK, IsStored, Result
  <2>3. CASE d # c
    <3>1. pc'[d] = pc[d]
      BY <2>3 DEF IInv, TypeOK
    <3>2. QED
      BY <1>1, <2>1, <3>1, OthersReport, DoneStays
  <2>4. QED
    BY <2>2, <2>3
<1>3. PodsDelivered'
  BY <1>1, PodsDeliveredStays DEF ReportInv
<1>4. QED
  BY <1>2, <1>3

\* The list of the batch is only decided while nobody is done: this is where
\* an empty register for one controller, and a list for another, would matter.
LEMMA CreateChunkReport ==
  ASSUME IInv, ReportInv, OneView, NEW c \in Controllers, CreateChunk(c)
  PROVE  ReportInv'
<1>1. /\ pc[c] = "chunk"
      /\ UNCHANGED <<jobs, received, removals, completed, failed, unreported>>
      /\ \A d \in Controllers \ {c} : pc'[d] = pc[d]
      /\ pc'[c] \in {"guard", "chunk", "refused"}
  BY DEF CreateChunk, AfterChunk, Goto, batchVars, IInv, TypeOK
<1>2. CASE pc'[c] = "refused"
  <2>1. configMaps' = configMaps
    BY <1>2 DEF CreateChunk, AfterChunk, Goto, IInv, TypeOK
  <2>2. QED
    BY <1>1, <1>2, <2>1, PodsDeliveredStays, OnTheWay
<1>3. CASE pc'[c] # "refused"
  <2> SUFFICES ASSUME ResultsConfigured
               PROVE  /\ PodsDelivered'
                      /\ \A d \in Controllers :
                           CompletedDelivered(d)' /\ FailuresKept(d)' /\ DoneOK(d)'
    BY DEF ReportInv
  <2>1. PodsDelivered'
    BY <1>1, PodsDeliveredStays DEF ReportInv
  <2>2. ASSUME NEW d \in Controllers PROVE CompletedDelivered(d)' /\ FailuresKept(d)'
    BY <1>1 DEF ReportInv, CompletedDelivered, FailuresKept, Result, Failure
  <2>3. ASSUME NEW d \in Controllers, pc'[d] = "done", removals' = 0
        PROVE  IF IsStored(0)' THEN \A repo \in Manifest(0)' : Known(repo)' ELSE {} \in Snapshots
    <3>1. d # c /\ pc[d] = "done" /\ removals = 0 /\ DoneOK(d)
      BY <1>1, <2>3 DEF ReportInv
    <3>2. CASE IsStored(0)
      <4>1. IsStored(0)' /\ Manifest(0)' = Manifest(0)
        BY <1>3, <3>2, ChunkCreated, StoredStays DEF IInv
      <4>2. QED
        BY <1>1, <3>1, <3>2, <4>1 DEF DoneOK, Known, Result, Failure
    <3>3. CASE ~IsStored(0)
      BY <3>1, <3>3 DEF DoneOK, OneView
    <3>4. QED
      BY <3>2, <3>3
  <2>4. QED
    BY <2>1, <2>2, <2>3 DEF DoneOK
<1>4. QED
  BY <1>2, <1>3

LEMMA CreateJobReport ==
  ASSUME IInv, ReportInv, NEW c \in Controllers, CreateJob(c)
  PROVE  ReportInv'
<1> USE DEF CreateJob, Goto, roundVars, batchVars
<1>1. UNCHANGED <<configMaps, received, removals, completed, failed, unreported>>
  OBVIOUS
<1>2. pc'[c] \notin {"report", "done"} /\ \A d \in Controllers \ {c} : pc'[d] = pc[d]
  BY DEF IInv, TypeOK
<1>3. ASSUME PodsDelivered, NEW n \in DOMAIN jobs', NEW repo \in DOMAIN jobs'[n].pods,
             jobs'[n].pods[repo] \in {"posted", "completed"}
      PROVE  Result(repo) \in received
  <2>1. CASE n \in DOMAIN jobs /\ jobs'[n] = jobs[n]
    BY <1>3, <2>1 DEF PodsDelivered
  <2>2. CASE ~(n \in DOMAIN jobs /\ jobs'[n] = jobs[n])
    <3>1. jobs'[n] = NewJob(c)
      BY <2>2 DEF Put, JobExists
    <3>2. QED
      BY <1>3, <3>1 DEF NewJob
  <2>3. QED
    BY <2>1, <2>2
<1>4. PodsDelivered => PodsDelivered'
  BY <1>1, <1>3 DEF PodsDelivered, Result
<1>5. QED
  BY <1>1, <1>2, <1>4, OnTheWay

\* What the Job says is completed has a result; all else that is left is to be
\* reported.
LEMMA FinishRoundReport ==
  ASSUME IInv, ReportInv, NEW c \in Controllers, FinishRound(c)
  PROVE  ReportInv'
<1> DEFINE n == round[c]
           outcome == Outcome(n)
           retry == Retry(outcome, BatchEnd(c))
<1> SUFFICES ASSUME ResultsConfigured
             PROVE  /\ PodsDelivered'
                    /\ \A d \in Controllers :
                         CompletedDelivered(d)' /\ FailuresKept(d)' /\ DoneOK(d)'
  BY DEF ReportInv
<1>1. UNCHANGED <<configMaps, jobs, received, removals>> /\ n \in DOMAIN jobs
  BY DEF FinishRound, Terminal, clusterVars
<1>2. PodsDelivered'
  BY <1>1, PodsDeliveredStays DEF ReportInv
<1>3. CompletedDelivered(c)'
  <2>1. completed'[c] = completed[c] \cup InState(n, "completed")
    BY DEF FinishRound, Outcome, IInv, TypeOK
  <2>2. \A repo \in InState(n, "completed") : Result(repo) \in received
    BY <1>1 DEF ReportInv, PodsDelivered, InState
  <2>3. QED
    BY <1>1, <2>1, <2>2 DEF ReportInv, CompletedDelivered, Result
<1>4. FailuresKept(c)'
  <2>1. pc'[c] = IF retry THEN "load" ELSE "report"
    BY DEF FinishRound, Goto, IInv, TypeOK
  <2>2. ~retry => unreported'[c] = failed'[c]
    BY DEF FinishRound, ToReport, IInv, TypeOK
  <2>3. QED
    BY <2>1, <2>2 DEF FailuresKept
<1>5. pc'[c] # "done"
  BY DEF FinishRound, Goto, IInv, TypeOK
<1>6. ASSUME NEW d \in Controllers \ {c}
      PROVE  CompletedDelivered(d)' /\ FailuresKept(d)' /\ DoneOK(d)'
  <2>1. /\ pc'[d] = pc[d] /\ completed'[d] = completed[d]
        /\ failed'[d] = failed[d] /\ unreported'[d] = unreported[d]
    BY DEF FinishRound, Goto, IInv, TypeOK
  <2>2. QED
    BY <1>1, <2>1, OthersReport, DoneStays DEF ReportInv
<1>7. QED
  BY <1>2, <1>3, <1>4, <1>5, <1>6 DEF DoneOK

LEMMA ReportOneReport ==
  ASSUME IInv, ReportInv, NEW c \in Controllers, ReportOne(c)
  PROVE  ReportInv'
<1> SUFFICES ASSUME ResultsConfigured
             PROVE  /\ PodsDelivered'
                    /\ \A d \in Controllers :
                         CompletedDelivered(d)' /\ FailuresKept(d)' /\ DoneOK(d)'
  BY DEF ReportInv
<1> USE DEF ReportOne, roundVars, batchVars
<1>1. PICK repo \in unreported[c] :
        /\ received' = received \cup {Failure(repo)}
        /\ unreported' = [unreported EXCEPT ![c] = @ \ {repo}]
  BY DEF Reported
<1>2. UNCHANGED <<configMaps, jobs, removals, pc, completed, failed>>
  OBVIOUS
<1>3. PodsDelivered'
  BY <1>1, <1>2, PodsDeliveredStays DEF ReportInv
<1>4. CompletedDelivered(c)' /\ FailuresKept(c)'
  <2>1. unreported'[c] = unreported[c] \ {repo}
    BY <1>1 DEF IInv, TypeOK
  <2>2. CompletedDelivered(c)'
    BY <1>1, <1>2 DEF ReportInv, CompletedDelivered, Result
  <2>3. FailuresKept(c)'
    BY <1>1, <1>2, <2>1 DEF ReportInv, FailuresKept, Failure
  <2>4. QED
    BY <2>2, <2>3
<1>5. ASSUME NEW d \in Controllers \ {c} PROVE CompletedDelivered(d)' /\ FailuresKept(d)'
  <2>1. unreported'[d] = unreported[d]
    BY <1>1 DEF IInv, TypeOK
  <2>2. QED
    BY <1>1, <1>2, <2>1, OthersReport DEF ReportInv
<1>6. ASSUME NEW d \in Controllers PROVE DoneOK(d)'
  BY <1>1, <1>2, DoneStays DEF ReportInv
<1>7. QED
  BY <1>3, <1>4, <1>5, <1>6

\* When nothing is left to report, completed and failed are the whole list.
LEMMA FinishReportReport ==
  ASSUME IInv, RoundInv, ReportInv, NEW c \in Controllers, FinishReport(c)
  PROVE  ReportInv'
<1> SUFFICES ASSUME ResultsConfigured
             PROVE  /\ PodsDelivered'
                    /\ \A d \in Controllers :
                         CompletedDelivered(d)' /\ FailuresKept(d)' /\ DoneOK(d)'
  BY DEF ReportInv
<1> USE DEF FinishReport, Goto, clusterVars, roundVars, batchVars
<1>1. UNCHANGED <<configMaps, jobs, received, removals, completed, failed, unreported>>
  OBVIOUS
<1>2. PodsDelivered'
  BY <1>1, PodsDeliveredStays DEF ReportInv
<1>3. pc[c] = "report" /\ unreported[c] = {} /\ pc'[c] = "done"
  BY DEF IInv, TypeOK
<1>4. ASSUME removals = 0
      PROVE  IsStored(0) /\ \A repo \in Manifest(0) : Known(repo)
  <2>1. IsStored(0) /\ completed[c] \cup failed[c] = Manifest(0)
    BY <1>3, <1>4 DEF RoundInv, RoundsOK, Counted, Counts, Partitioned, Current
  <2>2. \A repo \in completed[c] : Result(repo) \in received
    BY DEF ReportInv, CompletedDelivered
  <2>3. \A repo \in failed[c] : Failure(repo) \in received
    BY <1>3 DEF ReportInv, FailuresKept
  <2>4. QED
    BY <2>1, <2>2, <2>3 DEF Known
<1>5. DoneOK(c)'
  <2>1. IsStored(0)' = IsStored(0) /\ Manifest(0)' = Manifest(0)
    BY <1>1 DEF IsStored, Manifest, StoredChunks, Listed
  <2>2. \A repo : Known(repo)' = Known(repo)
    BY <1>1 DEF Known, Result, Failure
  <2>3. QED
    BY <1>1, <1>4, <2>1, <2>2 DEF DoneOK
<1>6. CompletedDelivered(c)' /\ FailuresKept(c)'
  BY <1>1, <1>3 DEF ReportInv, CompletedDelivered, FailuresKept, Result
<1>7. ASSUME NEW d \in Controllers \ {c}
      PROVE  CompletedDelivered(d)' /\ FailuresKept(d)' /\ DoneOK(d)'
  <2>1. pc'[d] = pc[d]
    BY DEF IInv, TypeOK
  <2>2. QED
    BY <1>1, <2>1, OthersReport, DoneStays DEF ReportInv
<1>8. QED
  BY <1>2, <1>5, <1>6, <1>7

LEMMA ExitReport ==
  ASSUME IInv, ReportInv, NEW c \in Controllers, Exit(c) \/ ReportUnacknowledged(c)
  PROVE  ReportInv'
<1> SUFFICES ASSUME ResultsConfigured
             PROVE  /\ PodsDelivered'
                    /\ \A d \in Controllers :
                         CompletedDelivered(d)' /\ FailuresKept(d)' /\ DoneOK(d)'
  BY DEF ReportInv
<1>1. Forget(c) /\ UNCHANGED <<configMaps, jobs, removals>> /\ received \subseteq received'
  BY DEF Exit, ReportUnacknowledged, Reported, clusterVars
<1>2. PodsDelivered'
  BY <1>1, PodsDeliveredStays DEF ReportInv
<1>3. pc'[c] = "down" /\ completed'[c] = {}
  BY <1>1 DEF Forget, Goto, IInv, TypeOK
<1>4. CompletedDelivered(c)' /\ FailuresKept(c)' /\ DoneOK(c)'
  BY <1>3 DEF CompletedDelivered, FailuresKept, DoneOK
<1>5. ASSUME NEW d \in Controllers \ {c}
      PROVE  CompletedDelivered(d)' /\ FailuresKept(d)' /\ DoneOK(d)'
  <2>1. /\ pc'[d] = pc[d] /\ completed'[d] = completed[d]
        /\ failed'[d] = failed[d] /\ unreported'[d] = unreported[d]
    BY <1>1 DEF Forget, Goto, IInv, TypeOK
  <2>2. QED
    BY <1>1, <2>1, OthersReport, DoneStays DEF ReportInv
<1>6. QED
  BY <1>2, <1>4, <1>5

-----------------------------------------------------------------------------
(* The steps of the cluster. *)

\* A Pod that posts, and one that completes after it did.
LEMMA ClusterDelivers ==
  ASSUME IInv, ResultsConfigured, PodsDelivered, ClusterStep
  PROVE  /\ PodsDelivered' /\ received \subseteq received'
         /\ UNCHANGED <<configMaps, removals>>
<1> USE DEF ClusterStep, PodPosts, PodPostsLate, PodSucceeds, PodFails, JobStops, Tick
<1>1. UNCHANGED <<configMaps, removals>> /\ received \subseteq received'
  OBVIOUS
<1>2. ASSUME NEW n \in DOMAIN jobs, NEW repo \in DOMAIN jobs[n].pods,
             PodPosts(n, repo) \/ PodSucceeds(n, repo) \/ PodFails(n, repo)
      PROVE  PodsDelivered'
  <2>1. PICK state \in {"posted", "completed", "failed"} :
          /\ jobs' = [jobs EXCEPT ![n].pods[repo] = state]
          /\ state \in {"posted", "completed"} => Result(repo) \in received'
    BY <1>2 DEF SetPod, PodsDelivered
  <2>2. /\ DOMAIN jobs' = DOMAIN jobs
        /\ \A m \in DOMAIN jobs :
             /\ DOMAIN jobs'[m].pods = DOMAIN jobs[m].pods
             /\ \A r \in DOMAIN jobs[m].pods :
                  jobs'[m].pods[r] = IF m = n /\ r = repo THEN state ELSE jobs[m].pods[r]
    BY <2>1 DEF IInv, TypeOK, JobType
  <2>3. QED
    BY <1>1, <2>1, <2>2 DEF PodsDelivered, Result
<1>3. ASSUME NEW n \in DOMAIN jobs, JobStops(n) PROVE PodsDelivered'
  <2>1. \E reason : jobs' = [jobs EXCEPT ![n].reason = reason]
    BY <1>3
  <2>2. /\ DOMAIN jobs' = DOMAIN jobs
        /\ \A m \in DOMAIN jobs : jobs'[m].pods = jobs[m].pods
    BY <2>1 DEF IInv, TypeOK, JobType
  <2>3. QED
    BY <1>1, <2>2 DEF PodsDelivered, Result
<1>4. ASSUME UNCHANGED jobs PROVE PodsDelivered'
  BY <1>1, <1>4, PodsDeliveredStays
<1>5. QED
  BY <1>1, <1>2, <1>3, <1>4

\* A step of the cluster leaves all controllers as they are.
LEMMA WorldReport ==
  ASSUME ReportInv, UNCHANGED <<configMaps, localVars>>, received \subseteq received',
         removals' = 0 => removals = 0,
         ResultsConfigured => PodsDelivered'
  PROVE  ReportInv'
<1>1. ASSUME ResultsConfigured, NEW d \in Controllers
      PROVE  CompletedDelivered(d)' /\ FailuresKept(d)' /\ DoneOK(d)'
  BY <1>1, OthersReport, DoneStays DEF ReportInv, localVars, batchVars
<1>2. QED
  BY <1>1 DEF ReportInv

-----------------------------------------------------------------------------
(* The invariant. *)

LEMMA NextReport ==
  ASSUME OneView
  PROVE  IInv /\ RoundInv /\ ReportInv /\ [Next]_vars => ReportInv'
<1> SUFFICES ASSUME IInv, RoundInv, ReportInv, [Next]_vars PROVE ReportInv'
  OBVIOUS
<1>1. ASSUME NEW c \in Controllers, Start(c) \/ Proceed(c) PROVE ReportInv'
  BY <1>1, EarlyReport, NothingReport, CreateChunkReport, CreateJobReport, FinishRoundReport,
     ReportOneReport, FinishReportReport
  DEF Proceed
<1>2. ASSUME NEW c \in Controllers, Exit(c) \/ ReportUnacknowledged(c) PROVE ReportInv'
  BY <1>2, ExitReport
<1>3. ASSUME ClusterStep, UNCHANGED <<localVars, exits>> PROVE ReportInv'
  <2>1. ASSUME ResultsConfigured
        PROVE  PodsDelivered' /\ received \subseteq received' /\ UNCHANGED <<configMaps, removals>>
    BY <1>3, <2>1, ClusterDelivers DEF ReportInv
  <2>2. CASE ResultsConfigured
    BY <1>3, <2>1, <2>2, WorldReport
  <2>3. CASE ~ResultsConfigured
    BY <2>3 DEF ReportInv
  <2>4. QED
    BY <2>2, <2>3
<1>4. ASSUME NEW n \in DOMAIN jobs, RemoveJob(n), UNCHANGED <<localVars, exits>> PROVE ReportInv'
  <2>1. UNCHANGED <<configMaps, received>> /\ removals' # 0
    BY <1>4 DEF RemoveJob, JobRemoved, IInv, TypeOK
  <2>2. jobs' = [r \in DOMAIN jobs \ {n} |-> jobs[r]]
    BY <1>4 DEF RemoveJob, JobRemoved
  <2>3. ResultsConfigured => PodsDelivered'
    BY <2>1, <2>2 DEF ReportInv, PodsDelivered, Result
  <2>4. QED
    BY <1>4, <2>1, <2>3, WorldReport
<1>5. ASSUME UNCHANGED vars PROVE ReportInv'
  <2>1. UNCHANGED <<configMaps, jobs, received, removals, localVars>>
    BY <1>5 DEF vars, clusterVars
  <2>2. ResultsConfigured => PodsDelivered'
    BY <2>1, PodsDeliveredStays DEF ReportInv
  <2>3. QED
    BY <2>1, <2>2, WorldReport
<1>6. QED
  BY <1>1, <1>2, <1>3, <1>4, <1>5 DEF Next

\* The strengthened invariant holds in every reachable state.
LEMMA ReportInvariant ==
  ASSUME OneView
  PROVE  Spec => []ReportInv
<1>1. Init => ReportInv
  BY InitReport
<1>2. IInv /\ RoundInv /\ ReportInv /\ [Next]_vars => ReportInv'
  BY NextReport
<1>3. QED
  BY <1>1, <1>2, RoundsInvariant, PTL DEF Spec

\* Until somebody deletes a Job, a controller that is done leaves no repository
\* without a submission, for any number of rounds, crashes, failing POSTs and
\* controllers that agree on whether there is a list (RunController).
THEOREM AllAreReported ==
  ASSUME OneView
  PROVE  Spec => [](removals = 0 => EveryRepositoryReported)
<1>1. IInv /\ ReportInv => (removals = 0 => EveryRepositoryReported)
  BY DEF ReportInv, DoneOK, Known, EveryRepositoryReported
<1>2. QED
  BY <1>1, ReportInvariant, Invariance, PTL

-----------------------------------------------------------------------------
(* The time of a batch.                                                     *)

\* Locations at which the time of the round is known.
Timed(c) == pc[c] \in {"rules", "chunk"} \cup Adopted

\* A time that was left of the batch when the round before round n started.
Shares(time, end, n) == time <= MinDeadline \/ time <= end - jobs[n - 1].created

TimeOK(c) ==
  round[c] > 0 =>
    /\ HasList(c) => 0 \in DOMAIN jobs /\ batchEnd[c] = jobs[0].created + Deadline
    /\ Timed(c) => Shares(left[c], batchEnd[c], round[c])

TimesOK ==
  /\ \A n \in DOMAIN jobs : jobs[n].created <= now
  /\ RoundsShareTheBatchTime
  /\ \A c \in Controllers : TimeOK(c)

\* The inductive invariant, together with IInv and RoundInv.
TimeInv == removals = 0 => TimesOK

\* A Job keeps its time.
TimesKept ==
  \A n \in DOMAIN jobs :
    n \in DOMAIN jobs' /\ jobs'[n].created = jobs[n].created /\ jobs'[n].ends = jobs[n].ends

LEMMA TimeStays ==
  ASSUME NEW c \in Controllers, Ready(c), TimeOK(c), TimesKept,
         round'[c] = round[c], HasList(c)' => HasList(c), Timed(c)' => Timed(c),
         batchEnd'[c] = batchEnd[c], left'[c] = left[c]
  PROVE  TimeOK(c)'
<1> SUFFICES ASSUME round[c] > 0, HasList(c)'
             PROVE  /\ 0 \in DOMAIN jobs' /\ batchEnd[c] = jobs'[0].created + Deadline
                    /\ Timed(c)' => \/ left[c] <= MinDeadline
                                    \/ left[c] <= batchEnd[c] - jobs'[round[c] - 1].created
  BY DEF TimeOK, Shares, HasList, Timed
<1>1. round[c] - 1 \in DOMAIN jobs /\ 0 \in DOMAIN jobs
  BY DEF TimeOK, Ready, Follows, Over
<1>2. jobs'[0].created = jobs[0].created /\ jobs'[round[c] - 1].created = jobs[round[c] - 1].created
      /\ 0 \in DOMAIN jobs'
  BY <1>1 DEF TimesKept
<1>3. QED
  BY <1>2 DEF TimeOK, Shares

\* The variables of controller d these proofs are about.
TimeLocalsKept(d) ==
  pc'[d] = pc[d] /\ round'[d] = round[d] /\ batchEnd'[d] = batchEnd[d] /\ left'[d] = left[d]

\* A step of c that starts no Job has to be looked at for c only.
LEMMA TimesStay ==
  ASSUME IInv, RoundsOK, TimesOK, TimesKept, DOMAIN jobs' = DOMAIN jobs, now' = now,
         NEW c \in Controllers, \A d \in Controllers \ {c} : TimeLocalsKept(d), TimeOK(c)'
  PROVE  TimesOK'
<1>1. (\A n \in DOMAIN jobs : jobs[n].created <= now)'
  BY DEF TimesKept, TimesOK
<1>2. RoundsShareTheBatchTime'
  BY DEF TimesKept, TimesOK, RoundsShareTheBatchTime
<1>3. ASSUME NEW d \in Controllers \ {c} PROVE TimeOK(d)'
  BY TimeStays DEF TimesOK, RoundsOK, TimeLocalsKept, HasList, Timed
<1>4. QED
  BY <1>1, <1>2, <1>3 DEF TimesOK

LEMMA BeginRoundTimes ==
  ASSUME IInv, RoundsOK, TimesOK, NEW c \in Controllers, pc[c] = "load",
         NEW list, BeginRound(c, list),
         round[c] > 0 => HasList(c)
  PROVE  TimesOK'
<1> USE DEF BeginRound, Goto, clusterVars, batchVars
<1>1. /\ pc'[c] = "rules" /\ left'[c] = TimeLeft(c)
      /\ UNCHANGED <<jobs, now, round, batchEnd>>
  BY DEF IInv, TypeOK
<1>2. TimesKept
  BY <1>1 DEF TimesKept
<1>3. \A d \in Controllers \ {c} : TimeLocalsKept(d)
  BY DEF TimeLocalsKept, IInv, TypeOK
<1>4. TimeOK(c)'
  <2> SUFFICES ASSUME round[c] > 0
               PROVE  /\ 0 \in DOMAIN jobs /\ batchEnd[c] = jobs[0].created + Deadline
                      /\ Shares(left'[c], batchEnd[c], round[c])
    BY <1>1 DEF TimeOK, Shares, Timed
  <2>1. 0 \in DOMAIN jobs /\ batchEnd[c] = jobs[0].created + Deadline
    BY DEF TimesOK, TimeOK
  <2>2. round[c] - 1 \in DOMAIN jobs
    BY DEF RoundsOK, Ready, Follows, Over
  <2>3. jobs[round[c] - 1].created <= now /\ jobs[round[c] - 1].created \in Nat
        /\ now \in Nat /\ batchEnd[c] \in Nat /\ MinDeadline \in Nat
    BY <2>2, ControllerAssumption DEF TimesOK, IInv, TypeOK, JobType
  <2>4. left'[c] = IF batchEnd[c] - now > MinDeadline THEN batchEnd[c] - now ELSE MinDeadline
    BY <1>1 DEF TimeLeft, IInv, TypeOK
  <2>5. QED
    BY <2>1, <2>3, <2>4 DEF Shares
<1>5. QED
  BY <1>1, <1>2, <1>3, <1>4, TimesStay

LEMMA LoadTimes ==
  ASSUME IInv, RoundsOK, TimesOK, NEW c \in Controllers,
         LoadStored(c) \/ LoadFromRegister(c) \/ LoadComputed(c)
  PROVE  TimesOK'
<1>1. pc[c] = "load" /\ (round[c] > 0 => HasList(c))
  BY DEF LoadStored, LoadFromRegister, LoadComputed, HasList
<1>2. QED
  BY <1>1, BeginRoundTimes DEF LoadStored, LoadFromRegister, LoadComputed

\* Steps after which c knows no more than before.
LEMMA MoveTimes ==
  ASSUME IInv, RoundsOK, TimesOK, NEW c \in Controllers,
         \/ Start(c) \/ LoadNothing(c) \/ CreateRules(c) \/ CreateChunk(c)
         \/ GuardJob(c) \/ CheckLater(c) \/ JobGone(c) \/ ReportOne(c) \/ FinishReport(c)
  PROVE  TimesOK'
<1> USE DEF Start, LoadNothing, CreateRules, CreateChunk, GuardJob, CheckLater, JobGone,
            ReportOne, FinishReport, Goto, AfterChunk, clusterVars, roundVars, batchVars
<1>1. UNCHANGED <<jobs, now, round, batchEnd, left>>
  OBVIOUS
<1>2. \A d \in Controllers \ {c} : TimeLocalsKept(d)
  BY DEF TimeLocalsKept, IInv, TypeOK
<1>3. (HasList(c)' => HasList(c) \/ round[c] = 0) /\ (Timed(c)' => Timed(c))
  BY DEF HasList, Timed, Adopted, IInv, TypeOK, AttemptsOK, Attempt, FreshOK
<1>4. TimesKept
  BY <1>1 DEF TimesKept
<1>5. TimeOK(c)'
  <2>1. CASE round[c] = 0
    BY <1>1, <2>1 DEF TimeOK
  <2>2. CASE round[c] # 0
    BY <1>1, <1>3, <1>4, <2>2, TimeStays DEF TimesOK, RoundsOK
  <2>3. QED
    BY <2>1, <2>2
<1>6. QED
  BY <1>1, <1>2, <1>4, <1>5, TimesStay

LEMMA ExitTimes ==
  ASSUME IInv, RoundsOK, TimesOK, NEW c \in Controllers, Exit(c) \/ ReportUnacknowledged(c)
  PROVE  TimesOK'
<1>1. Forget(c) /\ UNCHANGED <<jobs, now>>
  BY DEF Exit, ReportUnacknowledged, clusterVars
<1>2. round'[c] = 0 /\ \A d \in Controllers \ {c} : TimeLocalsKept(d)
  BY <1>1 DEF Forget, Goto, TimeLocalsKept, IInv, TypeOK
<1>3. TimesKept /\ TimeOK(c)'
  BY <1>1, <1>2 DEF TimesKept, TimeOK
<1>4. QED
  BY <1>1, <1>2, <1>3, TimesStay

LEMMA FinishRoundTimes ==
  ASSUME IInv, RoundsOK, TimesOK, NEW c \in Controllers, FinishRound(c)
  PROVE  TimesOK'
<1>1. /\ pc[c] = "wait" /\ Terminal(round[c]) /\ UNCHANGED <<jobs, now>>
      /\ batchEnd'[c] = BatchEnd(c) /\ round[c] \in Nat
      /\ \/ pc'[c] = "load" /\ round'[c] = round[c] + 1
         \/ pc'[c] = "report" /\ round'[c] = round[c]
      /\ \A d \in Controllers \ {c} : TimeLocalsKept(d)
  BY DEF FinishRound, Goto, clusterVars, TimeLocalsKept, IInv, TypeOK
<1>2. TimesKept
  BY <1>1 DEF TimesKept
<1>3. TimeOK(c)'
  <2>1. CASE pc'[c] = "report"
    BY <2>1 DEF TimeOK, HasList, Timed, Adopted
  <2>2. CASE pc'[c] = "load"
    <3>1. ~Timed(c)'
      BY <2>2 DEF Timed, Adopted
    <3>2. 0 \in DOMAIN jobs /\ BatchEnd(c) = jobs[0].created + Deadline
      BY <1>1 DEF BatchEnd, Terminal, TimesOK, TimeOK, HasList, Adopted
    <3>3. QED
      BY <1>1, <3>1, <3>2 DEF TimeOK
  <2>3. QED
    BY <1>1, <2>1, <2>2
<1>4. QED
  BY <1>1, <1>2, <1>3, TimesStay

\* The Job of a round gets the time that was computed for it.
LEMMA CreateJobTimes ==
  ASSUME IInv, RoundsOK, TimesOK, NEW c \in Controllers, CreateJob(c)
  PROVE  TimesOK'
<1> DEFINE n == round[c]
<1> USE DEF CreateJob, Goto, roundVars, batchVars
<1>1. /\ pc[c] = "job" /\ pc'[c] \in {"wait", "refused"}
      /\ UNCHANGED <<now, round, batchEnd, left>> /\ n \in Nat
      /\ \A d \in Controllers \ {c} : TimeLocalsKept(d)
  BY DEF TimeLocalsKept, IInv, TypeOK
<1>2. jobs' = jobs \/ (n \notin DOMAIN jobs /\ jobs' = Put(jobs, n, NewJob(c)))
  BY DEF JobExists
<1>3. TimesKept
  BY <1>2 DEF TimesKept, Put
<1>4. TimeOK(c)'
  <2>1. HasList(c) /\ Timed(c)
    BY <1>1 DEF HasList, Timed, Adopted
  <2>2. QED
    BY <1>1, <1>3, <2>1, TimeStays DEF TimesOK, RoundsOK
<1>5. CASE jobs' = jobs
  BY <1>1, <1>3, <1>4, <1>5, TimesStay
<1>6. CASE n \notin DOMAIN jobs /\ jobs' = Put(jobs, n, NewJob(c))
  <2>1. /\ DOMAIN jobs' = DOMAIN jobs \cup {n}
        /\ jobs'[n].created = now /\ jobs'[n].ends = now + left[c]
        /\ \A m \in DOMAIN jobs : m # n /\ jobs'[m] = jobs[m]
    BY <1>6 DEF Put, NewJob
  <2>2. (\A m \in DOMAIN jobs : jobs[m].created <= now)'
    <3>1. now \in Nat
      BY DEF IInv, TypeOK
    <3>2. QED
      BY <1>1, <2>1, <3>1 DEF TimesOK
  <2>3. ASSUME NEW m \in DOMAIN jobs PROVE m \in Nat /\ ~(n < m)
    <3>1. m \in Nat /\ IsStored(m)
      BY DEF IInv, TypeOK, JobsOK
    <3>2. ASSUME n < m PROVE FALSE
      <4>1. n \in 0..(m - 1)
        BY <1>1, <3>1, <3>2
      <4>2. Over(n)
        BY <3>1, <4>1 DEF RoundsOK, PastOK, Past
      <4>3. QED
        BY <1>6, <4>2 DEF Over
    <3>3. QED
      BY <3>1, <3>2
  <2>4. ASSUME NEW m \in DOMAIN jobs', m > 0, 0 \in DOMAIN jobs', m - 1 \in DOMAIN jobs'
        PROVE  \/ jobs'[m].ends - jobs'[m].created <= MinDeadline
               \/ jobs'[m].ends - jobs'[m].created
                    <= jobs'[0].created + Deadline - jobs'[m - 1].created
    <3>1. CASE m # n
      <4>1. m \in DOMAIN jobs /\ m \in Nat /\ m < n /\ m - 1 # n /\ 0 # n
        BY <1>1, <2>1, <2>3, <2>4, <3>1
      <4>2. 0 \in DOMAIN jobs /\ m - 1 \in DOMAIN jobs
        BY <2>1, <2>4, <4>1
      <4>3. jobs'[m] = jobs[m] /\ jobs'[0] = jobs[0] /\ jobs'[m - 1] = jobs[m - 1]
        BY <2>1, <4>1, <4>2
      <4>4. QED
        BY <2>4, <4>1, <4>2, <4>3 DEF TimesOK, RoundsShareTheBatchTime
    <3>2. CASE m = n
      <4>1. 0 \in DOMAIN jobs /\ n - 1 \in DOMAIN jobs
        BY <1>1, <2>1, <2>4, <3>2
      <4>2. jobs'[0] = jobs[0] /\ jobs'[n - 1] = jobs[n - 1]
        BY <2>1, <4>1
      <4>3. batchEnd[c] = jobs[0].created + Deadline /\ Shares(left[c], batchEnd[c], n)
        BY <1>1, <2>4, <3>2 DEF TimesOK, TimeOK, HasList, Timed, Adopted
      <4>4. jobs'[n].ends - jobs'[n].created = left[c]
        BY <2>1 DEF IInv, TypeOK
      <4>5. \/ left[c] <= MinDeadline
            \/ left[c] <= jobs'[0].created + Deadline - jobs'[n - 1].created
        <5>1. left[c] <= MinDeadline \/ left[c] <= batchEnd[c] - jobs[n - 1].created
          BY <4>3 DEF Shares
        <5>2. batchEnd[c] - jobs[n - 1].created = jobs'[0].created + Deadline - jobs'[n - 1].created
          <6>1. jobs[0].created \in Nat /\ jobs[n - 1].created \in Nat /\ Deadline \in Nat
            BY <4>1, ControllerAssumption DEF IInv, TypeOK, JobType
          <6>2. QED
            BY <4>2, <4>3, <6>1
        <5>3. QED
          BY <5>1, <5>2
      <4>6. QED
        BY <3>2, <4>4, <4>5
    <3>3. QED
      BY <3>1, <3>2
  <2>5. RoundsShareTheBatchTime'
    BY <2>4 DEF RoundsShareTheBatchTime
  <2>6. ASSUME NEW d \in Controllers \ {c} PROVE TimeOK(d)'
    BY <1>1, <1>3, TimeStays DEF TimesOK, RoundsOK, TimeLocalsKept, HasList, Timed
  <2>7. QED
    BY <1>4, <2>2, <2>5, <2>6 DEF TimesOK
<1>7. QED
  BY <1>2, <1>5, <1>6

\* Pods and the clock leave the time of a Job alone.
LEMMA ClusterTimes ==
  ASSUME IInv, RoundsOK, TimesOK, UNCHANGED localVars,
         ClusterStep \/ UNCHANGED <<jobs, now>>
  PROVE  TimesOK'
<1> USE DEF ClusterStep, PodPosts, PodPostsLate, PodSucceeds, PodFails, JobStops, Tick
<1>1. now' \in Nat /\ now <= now' /\ now \in Nat
  BY DEF IInv, TypeOK
<1>2. DOMAIN jobs' = DOMAIN jobs /\ TimesKept
  <2>1. CASE jobs' = jobs
    BY <2>1 DEF TimesKept
  <2>2. CASE \E n \in DOMAIN jobs : \E repo, state : jobs' = [jobs EXCEPT ![n].pods[repo] = state]
    BY <2>2 DEF TimesKept, IInv, TypeOK, JobType
  <2>3. CASE \E n \in DOMAIN jobs : \E reason : jobs' = [jobs EXCEPT ![n].reason = reason]
    BY <2>3 DEF TimesKept, IInv, TypeOK, JobType
  <2>4. QED
    BY <2>1, <2>2, <2>3 DEF SetPod
<1>3. (\A n \in DOMAIN jobs : jobs[n].created <= now)'
  BY <1>1, <1>2 DEF TimesKept, TimesOK, IInv, TypeOK, JobType
<1>4. RoundsShareTheBatchTime'
  BY <1>2 DEF TimesKept, TimesOK, RoundsShareTheBatchTime
<1>5. ASSUME NEW d \in Controllers PROVE TimeOK(d)'
  BY <1>2, TimeStays
  DEF TimesOK, RoundsOK, HasList, Timed, localVars, roundVars, batchVars
<1>6. QED
  BY <1>3, <1>4, <1>5 DEF TimesOK

LEMMA NextTimes == IInv /\ RoundInv /\ TimeInv /\ [Next]_vars => TimeInv'
<1> SUFFICES ASSUME IInv, RoundInv, TimeInv, [Next]_vars, removals' = 0 PROVE TimesOK'
  BY DEF TimeInv
<1>0. removals = 0 => RoundsOK /\ TimesOK
  BY DEF RoundInv, TimeInv
<1>1. ASSUME NEW c \in Controllers, Start(c) \/ Proceed(c) \/ Exit(c) \/ ReportUnacknowledged(c)
      PROVE  TimesOK'
  <2>1. removals' = removals
    BY <1>1
    DEF Start, Proceed, LoadStored, LoadFromRegister, LoadNothing, LoadComputed, BeginRound,
        CreateRules, CreateChunk, GuardJob, CheckLater, CreateJob, JobGone, FinishRound,
        ReportOne, FinishReport, Exit, ReportUnacknowledged, clusterVars
  <2>2. QED
    BY <1>0, <1>1, <2>1, LoadTimes, MoveTimes, ExitTimes, FinishRoundTimes, CreateJobTimes
    DEF Proceed
<1>2. ASSUME ClusterStep, UNCHANGED <<localVars, exits>> PROVE TimesOK'
  <2>1. removals' = removals
    BY <1>2, ClusterJobsKept
  <2>2. QED
    BY <1>0, <1>2, <2>1, ClusterTimes
<1>3. ASSUME NEW n \in DOMAIN jobs, RemoveJob(n) PROVE FALSE
  BY <1>3 DEF RemoveJob, JobRemoved, IInv, TypeOK
<1>4. ASSUME UNCHANGED vars PROVE TimesOK'
  BY <1>0, <1>4, ClusterTimes DEF vars, clusterVars
<1>5. QED
  BY <1>1, <1>2, <1>3, <1>4 DEF Next

\* Until somebody deletes a Job, a later round gets no more than was left of the
\* batch when the round before it started, or the minimum, for any number of
\* controllers and restarts (RoundDeadline, RunController).
THEOREM TimeIsShared == Spec => [](removals = 0 => RoundsShareTheBatchTime)
<1>1. Init => TimeInv
  BY DEF Init, ClusterInit, Empty, TimeInv, TimesOK, TimeOK, RoundsShareTheBatchTime
<1>2. TimeInv => (removals = 0 => RoundsShareTheBatchTime)
  BY DEF TimeInv, TimesOK
<1>3. QED
  BY <1>1, <1>2, NextTimes, RoundsInvariant, PTL DEF Spec

-----------------------------------------------------------------------------
(* One controller: as Kubernetes runs it while no node is lost.            *)

OneController == \E c : Controllers = {c}

\* Nobody changes the rules while the batch runs.
OneRules == \A v, w \in RuleVersions : v = w

\* A controller about to create a Job found the old one, or no later round.
JobGuarded == \A c \in Controllers : pc[c] = "job" => JobExists(round[c]) \/ ~IsStored(round[c] + 1)

LEMMA NextGuarded ==
  ASSUME OneController, ~ReadsMayFail, ~RemovalsAnytime, IInv, JobGuarded, [Next]_vars
  PROVE  JobGuarded'
<1> SUFFICES ASSUME NEW c \in Controllers, pc'[c] = "job"
             PROVE  JobExists(round[c])' \/ ~IsStored(round[c] + 1)'
  BY DEF JobGuarded
<1> USE DEF clusterVars, roundVars, batchVars
<1>1. CASE GuardJob(c)
  BY <1>1 DEF GuardJob, Goto, JobExists, IInv, TypeOK
<1>2. CASE CheckLater(c)
  BY <1>2 DEF CheckLater, Goto, Superseded, IsStored, IInv, TypeOK
<1>3. ASSUME NEW d \in Controllers,
             Start(d) \/ Proceed(d) \/ Exit(d) \/ ReportUnacknowledged(d)
      PROVE  GuardJob(c) \/ CheckLater(c)
  <2>1. d = c
    BY DEF OneController
  <2>2. QED
    BY <1>3, <2>1
    DEF Start, Proceed, LoadStored, LoadFromRegister, LoadNothing, LoadComputed, BeginRound,
        CreateRules, CreateChunk, AfterChunk, CreateJob, JobGone, FinishRound, ReportOne,
        FinishReport, Exit, ReportUnacknowledged, Forget, Goto, IInv, TypeOK
<1>4. ASSUME ClusterStep, UNCHANGED localVars
      PROVE  JobExists(round[c])' \/ ~IsStored(round[c] + 1)'
  <2>1. UNCHANGED <<configMaps, pc, round>>
    BY <1>4, ClusterJobsKept DEF localVars
  <2>2. DOMAIN jobs' = DOMAIN jobs
    BY <1>4
    DEF ClusterStep, PodPosts, PodPostsLate, PodSucceeds, PodFails, SetPod, JobStops, Tick
  <2>3. QED
    BY <2>1, <2>2 DEF JobGuarded, JobExists, IsStored
<1>5. ASSUME NEW n \in DOMAIN jobs, RemoveJob(n), UNCHANGED localVars PROVE FALSE
  BY <1>5 DEF RemoveJob, localVars
<1>6. ASSUME UNCHANGED vars
      PROVE  JobExists(round[c])' \/ ~IsStored(round[c] + 1)'
  BY <1>6 DEF vars, localVars, JobGuarded, JobExists, IsStored
<1>7. QED
  BY <1>1, <1>2, <1>3, <1>4, <1>5, <1>6 DEF Next

\* A Job that is new is the one a controller just created.
LEMMA NewJobs ==
  ASSUME IInv, [Next]_vars, NEW n \in DOMAIN jobs' \ DOMAIN jobs
  PROVE  \E c \in Controllers : CreateJob(c) /\ round[c] = n
<1> USE DEF clusterVars, roundVars, batchVars
<1>1. ASSUME NEW c \in Controllers,
             Start(c) \/ Proceed(c) \/ Exit(c) \/ ReportUnacknowledged(c)
      PROVE  CreateJob(c) /\ round[c] = n
  BY <1>1
  DEF Start, Proceed, LoadStored, LoadFromRegister, LoadNothing, LoadComputed, BeginRound,
      CreateRules, CreateChunk, GuardJob, CheckLater, CreateJob, Put, JobExists, JobGone,
      FinishRound, ReportOne, FinishReport, Exit, ReportUnacknowledged
<1>2. ASSUME ClusterStep PROVE FALSE
  BY <1>2
  DEF ClusterStep, PodPosts, PodPostsLate, PodSucceeds, PodFails, SetPod, JobStops, Tick
<1>3. ASSUME NEW m \in DOMAIN jobs, RemoveJob(m) PROVE FALSE
  BY <1>3 DEF RemoveJob, JobRemoved
<1>4. ASSUME UNCHANGED vars PROVE FALSE
  BY <1>4 DEF vars
<1>5. QED
  BY <1>1, <1>2, <1>3, <1>4 DEF Next

\* The check is in force in every reachable state.
LEMMA GuardedInvariant ==
  ASSUME OneController, ~ReadsMayFail, ~RemovalsAnytime
  PROVE  Spec => []JobGuarded
<1>1. Init => JobGuarded
  BY DEF Init, JobGuarded
<1>2. IInv /\ JobGuarded /\ [Next]_vars => JobGuarded'
  BY NextGuarded
<1>3. QED
  BY <1>1, <1>2, Invariance, PTL DEF Spec

\* One controller whose reads of a Job do not fail never creates the Job of a
\* round that was superseded, whatever Jobs are deleted between two attempts
\* (the check of runRound). With failing reads it may: the run failed_read.
THEOREM SupersededStaysSo ==
  ASSUME OneController, ~ReadsMayFail, ~RemovalsAnytime
  PROVE  Spec => SupersededRoundNotRerun
<1>1. ASSUME IInv, JobGuarded, [Next]_vars
      PROVE  [\A n \in DOMAIN jobs' \ DOMAIN jobs : ~IsStored(n + 1)]_vars
  <2>1. ASSUME NEW n \in DOMAIN jobs' \ DOMAIN jobs PROVE ~IsStored(n + 1)
    <3>1. PICK c \in Controllers : CreateJob(c) /\ round[c] = n
      BY <1>1, NewJobs
    <3>2. pc[c] = "job" /\ ~JobExists(round[c])
      BY <3>1 DEF CreateJob, JobExists
    <3>3. QED
      BY <1>1, <3>1, <3>2 DEF JobGuarded
  <2>2. QED
    BY <2>1
<1>2. IInv /\ JobGuarded /\ [Next]_vars
        => [\A n \in DOMAIN jobs' \ DOMAIN jobs : ~IsStored(n + 1)]_vars
  BY <1>1
<1>3. QED
  BY <1>2, GuardedInvariant, Invariance, PTL DEF Spec, SupersededRoundNotRerun

\* Until somebody deletes a Job that is so for any number of controllers and
\* failing reads: the Job of a round before a stored one exists.
THEOREM SupersededWhileKept ==
  Spec => [][removals = 0 => \A n \in DOMAIN jobs' \ DOMAIN jobs : ~IsStored(n + 1)]_vars
<1>1. ASSUME IInv, RoundInv, [Next]_vars
      PROVE  [removals = 0 => \A n \in DOMAIN jobs' \ DOMAIN jobs : ~IsStored(n + 1)]_vars
  <2>1. ASSUME removals = 0, NEW n \in DOMAIN jobs' \ DOMAIN jobs PROVE ~IsStored(n + 1)
    <3>1. n \in Nat
      BY <1>1, <2>1, NewJobs DEF IInv, TypeOK
    <3>2. IsStored(n + 1) => Over(n)
      BY <1>1, <2>1, <3>1 DEF RoundInv, RoundsOK, PastOK, Past, Follows
    <3>3. QED
      BY <2>1, <3>2 DEF Over
  <2>2. QED
    BY <2>1
<1>2. IInv /\ RoundInv /\ [Next]_vars
        => [removals = 0 => \A n \in DOMAIN jobs' \ DOMAIN jobs : ~IsStored(n + 1)]_vars
  BY <1>1
<1>3. QED
  BY <1>2, RoundsInvariant, PTL DEF Spec

-----------------------------------------------------------------------------
(* Jobs that are deleted between two attempts. The Job of a round is then   *)
(* created again, and may end differently, unless the next round is stored: *)
(* so what is stored of a later round is still what the Job of the round    *)
(* before left, if there is one, and a repository that is in no later round *)
(* was counted.                                                             *)

\* A round that is stored is what the Job of the round before left, as long as
\* that Job is kept.
LaterFollow ==
  \A m \in Nat : IsStored(m + 1) /\ m \in DOMAIN jobs =>
    Over(m) /\ Manifest(m + 1) = Unfinished(m)

\* A controller has every repository of the batch among what it counted or is
\* about to run.
Covered(c) ==
  Counts(c) => IsStored(0) /\ Manifest(0) \subseteq completed[c] \cup failed[c] \cup Current(c)

Answered(c) ==
  (pc[c] = "done" /\ ResultsConfigured /\ IsStored(0)) => \A repo \in Manifest(0) : Known(repo)

NothingLost(c) == Ready(c) /\ Covered(c) /\ Answered(c)

\* The inductive invariant, together with IInv, JobGuarded and ReportInv.
RemovalInv == LaterFollow /\ \A c \in Controllers : NothingLost(c)

\* The Jobs that are kept are kept as they are, if they are over.
LEMMA LaterStays ==
  ASSUME IInv, StoreGrows, LaterFollow,
         \A n \in Nat : IsStored(n)' => IsStored(n),
         \A n \in DOMAIN jobs' \cap DOMAIN jobs : ~Running(n) => jobs'[n] = jobs[n],
         \A n \in DOMAIN jobs' \ DOMAIN jobs : ~IsStored(n + 1)
  PROVE  LaterFollow'
<1> SUFFICES ASSUME NEW m \in Nat, IsStored(m + 1)', m \in DOMAIN jobs'
             PROVE  Over(m)' /\ Manifest(m + 1)' = Unfinished(m)'
  BY DEF LaterFollow
<1>1. m + 1 \in Nat /\ IsStored(m + 1)
  OBVIOUS
<1>2. m \in DOMAIN jobs /\ Over(m) /\ Manifest(m + 1) = Unfinished(m)
  BY <1>1 DEF LaterFollow
<1>3. jobs'[m] = jobs[m]
  BY <1>2 DEF Over
<1>4. Over(m)' /\ Unfinished(m)' = Unfinished(m)
  BY <1>2, <1>3 DEF Over, Running, Unfinished, InState
<1>5. Manifest(m + 1)' = Manifest(m + 1)
  BY <1>1, StoredStays DEF IInv
<1>6. QED
  BY <1>2, <1>4, <1>5

\* A controller that counts on as before.
LEMMA CoveredStays ==
  ASSUME IInv, StoreGrows, NEW c \in Controllers, Covered(c), Counts(c)' => Counts(c),
         completed'[c] = completed[c], failed'[c] = failed[c], Current(c)' = Current(c)
  PROVE  Covered(c)'
<1> SUFFICES ASSUME Counts(c)'
             PROVE  /\ IsStored(0)'
                    /\ Manifest(0)' \subseteq completed'[c] \cup failed'[c] \cup Current(c)'
  BY DEF Covered
<1>1. IsStored(0) /\ Manifest(0) \subseteq completed[c] \cup failed[c] \cup Current(c)
  BY DEF Covered
<1>2. IsStored(0)' /\ Manifest(0)' = Manifest(0)
  BY <1>1, StoredStays DEF IInv
<1>3. QED
  BY <1>1, <1>2

\* A controller that stays done, while nothing is stored.
LEMMA AnsweredStays ==
  ASSUME NEW c \in Controllers, Answered(c), configMaps' = configMaps,
         received \subseteq received', pc'[c] = "done" => pc[c] = "done"
  PROVE  Answered(c)'
<1>1. IsStored(0)' = IsStored(0) /\ Manifest(0)' = Manifest(0)
  BY DEF IsStored, Manifest, StoredChunks, Listed
<1>2. \A repo : Known(repo) => Known(repo)'
  BY DEF Known, Result, Failure
<1>3. QED
  BY <1>1, <1>2 DEF Answered

\* A step of the only controller is a step of all.
LEMMA OnlyStep ==
  ASSUME OneController, NEW c \in Controllers, LaterFollow', NothingLost(c)'
  PROVE  RemovalInv'
<1>1. \A d \in Controllers : d = c
  BY DEF OneController
<1>2. \A d \in Controllers : NothingLost(d)'
  BY <1>1
<1>3. QED
  BY <1>2 DEF RemovalInv

\* A step that stores nothing and leaves the Jobs alone.
LEMMA StoreKept ==
  ASSUME IInv, RemovalInv, UNCHANGED <<configMaps, jobs>>, rulesMap # NoRules => rulesMap' = rulesMap
  PROVE  StoreGrows /\ JobsKept /\ LaterFollow'
<1>1. /\ StoreGrows /\ JobsKept
      /\ \A n \in Nat : IsStored(n)' => IsStored(n)
      /\ \A n \in DOMAIN jobs' \cap DOMAIN jobs : jobs'[n] = jobs[n]
      /\ DOMAIN jobs' \ DOMAIN jobs = {}
  BY DEF StoreGrows, JobsKept, IsStored
<1>2. LaterFollow'
  BY <1>1, LaterStays DEF RemovalInv
<1>3. QED
  BY <1>1, <1>2

\* An attempt that begins, and one that ends.
LEMMA OutsideRemoval ==
  ASSUME OneController, IInv, RemovalInv, NEW c \in Controllers,
         Start(c) \/ LoadNothing(c) \/ Exit(c) \/ ReportUnacknowledged(c)
  PROVE  RemovalInv'
<1> USE DEF Goto, clusterVars, roundVars, batchVars
<1>1. UNCHANGED <<configMaps, jobs, rulesMap>>
  BY DEF Start, LoadNothing, Exit, ReportUnacknowledged, Forget
<1>2. LaterFollow'
  BY <1>1, StoreKept
<1>3. /\ round'[c] = 0 /\ pc'[c] \in {"down", "load", "done"}
      /\ pc'[c] = "done" => ~IsStored(0)'
  <2>1. CASE Start(c)
    BY <2>1 DEF Start, IInv, TypeOK, AttemptsOK, Attempt, FreshOK
  <2>2. CASE LoadNothing(c)
    BY <2>2 DEF LoadNothing, IsStored, IInv, TypeOK
  <2>3. CASE Exit(c) \/ ReportUnacknowledged(c)
    BY <2>3 DEF Exit, ReportUnacknowledged, Forget, IInv, TypeOK
  <2>4. QED
    BY <2>1, <2>2, <2>3
<1>4. NothingLost(c)'
  BY <1>3 DEF NothingLost, Ready, HasList, Covered, Counts, Answered, Adopted
<1>5. QED
  BY <1>2, <1>4, OnlyStep

\* Taking up a list: a stored one is what the Job left that it was computed from.
LEMMA LoadRemoval ==
  ASSUME OneController, IInv, RemovalInv, NEW c \in Controllers,
         LoadStored(c) \/ LoadFromRegister(c) \/ LoadComputed(c)
  PROVE  RemovalInv'
<1> DEFINE n == round[c]
<1>1. pc[c] = "load" /\ n \in Nat
  BY DEF LoadStored, LoadFromRegister, LoadComputed, IInv, TypeOK
<1>2. n > 0 => Follows(n, Listed(chunks[c]))
  BY <1>1 DEF RemovalInv, NothingLost, Ready, HasList
<1>3. PICK list : BeginRound(c, list) /\ (n > 0 => Listed(list) = Listed(chunks[c]))
  <2>1. CASE LoadStored(c) /\ n > 0
    <3>1. n - 1 \in Nat /\ (n - 1) + 1 = n
      BY <1>1, <2>1
    <3>2. IsStored(n) /\ n - 1 \in DOMAIN jobs
      BY <1>2, <2>1 DEF LoadStored, Follows, Over
    <3>3. Manifest(n) = Unfinished(n - 1)
      BY <3>1, <3>2 DEF RemovalInv, LaterFollow
    <3>4. Listed(StoredChunks(n)) = Listed(chunks[c])
      BY <1>2, <2>1, <3>3 DEF Manifest, Follows
    <3>5. QED
      BY <2>1, <3>4 DEF LoadStored
  <2>2. CASE LoadStored(c) /\ ~(n > 0)
    BY <2>2 DEF LoadStored
  <2>3. CASE LoadFromRegister(c)
    BY <2>3 DEF LoadFromRegister
  <2>4. CASE LoadComputed(c)
    BY <2>4 DEF LoadComputed
  <2>5. QED
    BY <2>1, <2>2, <2>3, <2>4
<1>4. /\ pc'[c] = "rules" /\ round'[c] = n /\ chunks'[c] = list
      /\ UNCHANGED <<configMaps, jobs, rulesMap, completed, failed>>
  BY <1>3 DEF BeginRound, Goto, clusterVars, batchVars, IInv, TypeOK
<1>5. StoreGrows /\ JobsKept /\ LaterFollow'
  BY <1>4, StoreKept
<1>6. Listed(chunks[c])' = Listed(list)
  BY <1>4 DEF Listed
<1>7. Ready(c)'
  <2>1. n > 0 => Follows(n, Listed(list))
    BY <1>2, <1>3
  <2>2. QED
    BY <1>4, <1>6, <2>1 DEF Ready, Follows, Over, Running, Unfinished, InState
<1>8. Covered(c)'
  <2>1. CASE n = 0
    BY <1>4, <2>1 DEF Covered, Counts, Adopted
  <2>2. CASE n > 0
    <3>1. Current(c)' = Current(c) /\ Counts(c)
      BY <1>1, <1>3, <1>4, <1>6, <2>2 DEF Current, Counts
    <3>2. QED
      BY <1>4, <1>5, <3>1, CoveredStays DEF RemovalInv, NothingLost
  <2>3. QED
    BY <1>1, <2>1, <2>2
<1>9. NothingLost(c)'
  BY <1>4, <1>7, <1>8 DEF NothingLost, Answered
<1>10. QED
  BY <1>5, <1>9, OnlyStep

\* A step to another location, with the same list.
LEMMA MoveRemoval ==
  ASSUME OneController, IInv, RemovalInv, NEW c \in Controllers,
         UNCHANGED <<configMaps, jobs, round, chunks, completed, failed>>,
         rulesMap # NoRules => rulesMap' = rulesMap,
         HasList(c)' => HasList(c), Counts(c)' => Counts(c), Current(c)' = Current(c),
         Answered(c)'
  PROVE  RemovalInv'
<1>1. StoreGrows /\ JobsKept /\ LaterFollow'
  BY StoreKept
<1>2. Ready(c)'
  BY <1>1, ReadyStays DEF RemovalInv, NothingLost
<1>3. Covered(c)'
  BY <1>1, CoveredStays DEF RemovalInv, NothingLost
<1>4. QED
  BY <1>1, <1>2, <1>3, OnlyStep DEF NothingLost

\* The rules, the two reads before a Job is created, and a Job that is gone.
LEMMA RulesAndGuardRemoval ==
  ASSUME OneController, IInv, RemovalInv, NEW c \in Controllers,
         CreateRules(c) \/ GuardJob(c) \/ CheckLater(c) \/ JobGone(c)
  PROVE  RemovalInv'
<1> USE DEF CreateRules, GuardJob, CheckLater, JobGone, Goto, clusterVars, roundVars, batchVars
<1>1. /\ UNCHANGED <<configMaps, jobs, round, chunks, completed, failed>>
      /\ rulesMap # NoRules => rulesMap' = rulesMap
  BY DEF Accepts
<1>2. \/ pc[c] = "rules" /\ pc'[c] \in {"chunk", "refused"}
      \/ pc[c] \in Adopted /\ pc'[c] \in {"job", "later", "refused"}
  BY DEF IInv, TypeOK, Adopted
<1>3. HasList(c) /\ (Counts(c)' => Counts(c))
  BY <1>1, <1>2 DEF HasList, Counts, Adopted
<1>4. Current(c)' = Current(c)
  BY <1>1, <1>2 DEF Current, Listed, Adopted
<1>5. Answered(c)'
  BY <1>2 DEF Answered
<1>6. QED
  BY <1>1, <1>3, <1>4, <1>5, MoveRemoval

\* A round that becomes complete in the store follows the one before it.
LEMMA CreateChunkRemoval ==
  ASSUME OneController, IInv, IInv', RemovalInv, NEW c \in Controllers, CreateChunk(c)
  PROVE  RemovalInv'
<1> DEFINE n == round[c]
<1>1. pc[c] = "chunk" /\ n \in Nat /\ HasList(c)
  BY DEF CreateChunk, HasList, IInv, TypeOK
<1>2. UNCHANGED <<jobs, round, chunks, completed, failed>>
  BY DEF CreateChunk, roundVars, batchVars
<1>3. CASE pc'[c] = "refused"
  <2>1. UNCHANGED <<configMaps, rulesMap>>
    BY <1>3 DEF CreateChunk, AfterChunk, Goto, IInv, TypeOK
  <2>2. Current(c)' = Current(c) /\ (Counts(c)' => Counts(c)) /\ Answered(c)'
    BY <1>1, <1>2, <1>3 DEF Current, Listed, Counts, Adopted, Answered
  <2>3. QED
    BY <1>1, <1>2, <2>1, <2>2, MoveRemoval
<1>4. CASE pc'[c] # "refused"
  <2>1. StoreGrows /\ JobsKept /\ pc'[c] \in {"guard", "chunk"}
    BY <1>2, <1>4, ChunkCreated DEF JobsKept
  <2>2. ASSUME NEW m \in Nat, IsStored(m + 1)', m \in DOMAIN jobs'
        PROVE  Over(m)' /\ Manifest(m + 1)' = Unfinished(m)'
    <3>0. m + 1 \in Nat /\ (m + 1) - 1 = m /\ m + 1 > 0
      OBVIOUS
    <3>1. CASE IsStored(m + 1)
      <4>1. Over(m) /\ Manifest(m + 1) = Unfinished(m)
        BY <1>2, <2>2, <3>1 DEF RemovalInv, LaterFollow
      <4>2. Manifest(m + 1)' = Manifest(m + 1)
        BY <2>1, <3>0, <3>1, StoredStays DEF IInv
      <4>3. Over(m)' /\ Unfinished(m)' = Unfinished(m)
        BY <2>1, <4>1, OverStays
      <4>4. QED
        BY <4>1, <4>2, <4>3
    <3>2. CASE ~IsStored(m + 1)
      <4>1. m + 1 = n /\ Manifest(m + 1)' = Listed(chunks[c])
        BY <1>4, <2>2, <3>0, <3>2, ChunkCompletes DEF Manifest, Listed
      <4>2. Follows(m + 1, Listed(chunks[c]))
        BY <1>1, <3>0, <4>1 DEF RemovalInv, NothingLost, Ready
      <4>3. Over(m)' /\ Listed(chunks[c]) = Unfinished(m)'
        BY <2>1, <3>0, <4>2, FollowsStays
      <4>4. QED
        BY <4>1, <4>3
    <3>3. QED
      BY <3>1, <3>2
  <2>3. LaterFollow'
    BY <2>2 DEF LaterFollow
  <2>4. Ready(c)'
    BY <1>1, <1>2, <2>1, ReadyStays DEF RemovalInv, NothingLost
  <2>5. Covered(c)'
    <3>1. Current(c)' = Current(c) /\ Current(c)' = Listed(chunks[c])'
      BY <1>1, <1>2, <2>1 DEF Current, Listed
    <3>2. CASE Counts(c) \/ ~Counts(c)'
      <4>1. CASE Counts(c)
        BY <1>2, <2>1, <3>1, <4>1, CoveredStays DEF RemovalInv, NothingLost
      <4>2. CASE ~Counts(c)'
        BY <4>2 DEF Covered
      <4>3. QED
        BY <3>2, <4>1, <4>2
    <3>3. CASE ~Counts(c) /\ Counts(c)'
      <4>1. round'[c] = 0 /\ pc'[c] \in Adopted
        BY <1>1, <1>2, <2>1, <3>3 DEF Counts, Adopted
      <4>2. IsStored(0)' /\ Manifest(0)' = Listed(chunks[c])'
        BY <4>1, AdoptedManifestThen
      <4>3. QED
        BY <3>1, <4>2 DEF Covered
    <3>4. QED
      BY <3>2, <3>3
  <2>6. QED
    BY <2>1, <2>3, <2>4, <2>5, OnlyStep DEF NothingLost, Answered
<1>5. QED
  BY <1>3, <1>4

\* A new Job is that of the last round.
LEMMA CreateJobRemoval ==
  ASSUME OneController, IInv, JobGuarded, RemovalInv, NEW c \in Controllers, CreateJob(c)
  PROVE  RemovalInv'
<1> USE DEF CreateJob, Goto, roundVars, batchVars
<1>1. pc[c] = "job" /\ pc'[c] \in {"wait", "refused"}
  BY DEF IInv, TypeOK
<1>2. UNCHANGED <<configMaps, rulesMap, round, chunks, completed, failed>>
  OBVIOUS
<1>3. StoreGrows /\ \A n \in Nat : IsStored(n)' => IsStored(n)
  BY <1>2 DEF StoreGrows, IsStored
<1>4. JobsKept
  BY DEF JobsKept, Put, JobExists
<1>5. \A n \in DOMAIN jobs' \ DOMAIN jobs : n = round[c] /\ ~JobExists(round[c])
  BY DEF Put, JobExists
<1>6. \A n \in DOMAIN jobs' \ DOMAIN jobs : ~IsStored(n + 1)
  BY <1>1, <1>5 DEF JobGuarded
<1>7. LaterFollow'
  BY <1>3, <1>4, <1>6, LaterStays DEF RemovalInv, JobsKept
<1>8. Ready(c)'
  BY <1>1, <1>2, <1>4, ReadyStays DEF RemovalInv, NothingLost, HasList, Adopted
<1>9. Covered(c)'
  <2>1. Current(c)' = Current(c) /\ Counts(c)
    BY <1>1, <1>2 DEF Current, Listed, Counts, Adopted
  <2>2. QED
    BY <1>2, <1>3, <2>1, CoveredStays DEF RemovalInv, NothingLost
<1>10. QED
  BY <1>1, <1>7, <1>8, <1>9, OnlyStep DEF NothingLost, Answered

\* What the Job leaves is what the controller goes on with, or counts as failed.
LEMMA FinishRoundRemoval ==
  ASSUME OneController, IInv, RemovalInv, NEW c \in Controllers, FinishRound(c)
  PROVE  RemovalInv'
<1> DEFINE n == round[c]
           done == InState(n, "completed")
           lost == InState(n, "failed")
           rest == Unfinished(n)
           outcome == Outcome(n)
           retry == Retry(outcome, BatchEnd(c))
<1>1. pc[c] = "wait" /\ n \in Nat /\ Over(n)
  BY DEF FinishRound, Terminal, Over, IInv, TypeOK
<1>2. outcome.completed = done /\ outcome.failed = lost /\ outcome.unfinished = rest
  BY DEF Outcome
<1>3. /\ UNCHANGED <<configMaps, rulesMap, jobs>>
      /\ completed'[c] = completed[c] \cup done
      /\ failed'[c] = failed[c] \cup lost \cup (IF retry THEN {} ELSE rest)
  BY <1>2 DEF FinishRound, NewFailures, clusterVars, IInv, TypeOK
<1>4. IF retry
      THEN pc'[c] = "load" /\ round'[c] = n + 1 /\ chunks'[c] = Groups[rest]
      ELSE pc'[c] = "report" /\ round'[c] = n /\ chunks'[c] = chunks[c]
  BY <1>2 DEF FinishRound, Goto, IInv, TypeOK
<1>5. StoreGrows /\ LaterFollow'
  BY <1>3, StoreKept
<1>6. retry => Listed(chunks[c])' = rest
  <2>1. ~retry \/ (rest # {} /\ rest \subseteq Repositories)
    BY <1>1, <1>2, UnfinishedIsGood DEF GoodList, Over
  <2>2. retry => Listed(Groups[rest]) = rest
    BY <2>1, GroupsFacts
  <2>3. QED
    BY <1>4, <2>2 DEF Listed
<1>7. Ready(c)'
  <2>1. CASE retry
    <3>1. round'[c] - 1 = n
      BY <1>1, <1>4, <2>1
    <3>2. QED
      BY <1>1, <1>3, <1>6, <2>1, <3>1 DEF Ready, Follows, Over, Running, Unfinished, InState
  <2>2. CASE ~retry
    BY <1>4, <2>2 DEF Ready, HasList, Adopted
  <2>3. QED
    BY <2>1, <2>2
<1>8. Covered(c)'
  <2>1. IsStored(0) /\ Manifest(0) \subseteq completed[c] \cup failed[c] \cup Current(c)
    BY <1>1 DEF RemovalInv, NothingLost, Covered, Counts, Adopted
  <2>2. Current(c) = Manifest(n)
    BY <1>1, AdoptedManifest DEF Current, Adopted
  <2>3. done \cup lost \cup rest = Current(c)
    BY <1>1, <2>2, PodsPartitioned DEF Over
  <2>4. Current(c)' = IF retry THEN rest ELSE {}
    BY <1>4, <1>6 DEF Current
  <2>5. IsStored(0)' /\ Manifest(0)' = Manifest(0)
    BY <1>5, <2>1, StoredStays DEF IInv
  <2>6. QED
    BY <1>3, <2>1, <2>3, <2>4, <2>5 DEF Covered
<1>9. pc'[c] # "done"
  BY <1>4
<1>10. QED
  BY <1>5, <1>7, <1>8, <1>9, OnlyStep DEF NothingLost, Answered

\* When nothing is left to report, all that was counted has been submitted.
LEMMA ReportRemoval ==
  ASSUME OneController, IInv, RemovalInv, ReportInv, NEW c \in Controllers,
         ReportOne(c) \/ FinishReport(c)
  PROVE  RemovalInv'
<1> USE DEF ReportOne, FinishReport, Goto, clusterVars, roundVars, batchVars
<1>1. pc[c] = "report" /\ pc'[c] \in {"report", "done"}
  BY DEF IInv, TypeOK
<1>2. UNCHANGED <<configMaps, jobs, rulesMap, round, chunks, completed, failed>>
  OBVIOUS
<1>3. Current(c)' = Current(c) /\ ~HasList(c)' /\ Counts(c)
  BY <1>1 DEF Current, HasList, Counts, Adopted
<1>4. Answered(c)'
  <2>1. CASE ReportOne(c)
    BY <1>1, <2>1 DEF Answered
  <2>2. CASE FinishReport(c) /\ ResultsConfigured
    <3>1. Manifest(0) \subseteq completed[c] \cup failed[c]
      BY <1>1, <1>3 DEF RemovalInv, NothingLost, Covered, Current
    <3>2. \A repo \in completed[c] : Result(repo) \in received
      BY <2>2 DEF ReportInv, CompletedDelivered
    <3>3. \A repo \in failed[c] : Failure(repo) \in received
      BY <1>1, <2>2 DEF ReportInv, FailuresKept
    <3>4. \A repo \in Manifest(0) : Known(repo)
      BY <3>1, <3>2, <3>3 DEF Known
    <3>5. Manifest(0)' = Manifest(0) /\ received' = received
      BY <2>2 DEF Manifest, StoredChunks, Listed
    <3>6. QED
      BY <3>4, <3>5 DEF Answered, Known, Result, Failure
  <2>3. CASE ~ResultsConfigured
    BY <2>3 DEF Answered
  <2>4. QED
    BY <2>1, <2>2, <2>3
<1>5. QED
  BY <1>2, <1>3, <1>4, MoveRemoval

\* What happens without the controller: the Pods go on, or a Job is removed
\* between two of its attempts.
LEMMA WorldRemoval ==
  ASSUME ~RemovalsAnytime, IInv, RemovalInv, UNCHANGED localVars,
         ClusterStep \/ \E n \in DOMAIN jobs : RemoveJob(n)
  PROVE  RemovalInv'
<1>1. UNCHANGED <<configMaps, rulesMap>> /\ received \subseteq received'
  BY DEF ClusterStep, PodPosts, PodPostsLate, PodSucceeds, PodFails, JobStops, Tick,
         RemoveJob, JobRemoved
<1>2. StoreGrows /\ \A n \in Nat : IsStored(n)' => IsStored(n)
  BY <1>1 DEF StoreGrows, IsStored
<1>3. /\ DOMAIN jobs' \subseteq DOMAIN jobs
      /\ \A n \in DOMAIN jobs' \cap DOMAIN jobs : ~Running(n) => jobs'[n] = jobs[n]
  <2>1. CASE ClusterStep
    <3>1. DOMAIN jobs' = DOMAIN jobs
      BY <2>1
      DEF ClusterStep, PodPosts, PodPostsLate, PodSucceeds, PodFails, SetPod, JobStops, Tick
    <3>2. QED
      BY <2>1, <3>1, ClusterJobsKept DEF JobsKept
  <2>2. CASE \E n \in DOMAIN jobs : RemoveJob(n)
    BY <2>2 DEF RemoveJob, JobRemoved
  <2>3. QED
    BY <2>1, <2>2
<1>4. LaterFollow'
  BY <1>2, <1>3, LaterStays DEF RemovalInv
<1>5. ASSUME NEW c \in Controllers PROVE NothingLost(c)'
  <2>1. NothingLost(c) /\ UNCHANGED <<pc, round, chunks, completed, failed>>
    BY DEF RemovalInv, localVars, roundVars, batchVars
  <2>2. Ready(c)'
    <3>1. CASE ClusterStep
      BY <2>1, <3>1, ClusterJobsKept, ReadyStays DEF NothingLost, HasList
    <3>2. CASE \E n \in DOMAIN jobs : RemoveJob(n)
      BY <2>1, <3>2 DEF RemoveJob, Ready, HasList, Adopted
    <3>3. QED
      BY <3>1, <3>2
  <2>3. Covered(c)'
    BY <1>2, <2>1, CoveredStays DEF NothingLost, Counts, Current, Listed
  <2>4. Answered(c)'
    BY <1>1, <2>1, AnsweredStays DEF NothingLost
  <2>5. QED
    BY <2>2, <2>3, <2>4 DEF NothingLost
<1>6. QED
  BY <1>4, <1>5 DEF RemovalInv

\* Every step keeps it.
LEMMA NextRemoval ==
  ASSUME OneController, ~ReadsMayFail, ~RemovalsAnytime
  PROVE  IInv /\ IInv' /\ JobGuarded /\ ReportInv /\ RemovalInv /\ [Next]_vars => RemovalInv'
<1> SUFFICES ASSUME IInv, IInv', JobGuarded, ReportInv, RemovalInv, [Next]_vars
             PROVE  RemovalInv'
  OBVIOUS
<1>1. ASSUME NEW c \in Controllers, Start(c) \/ Proceed(c) \/ Exit(c) \/ ReportUnacknowledged(c)
      PROVE  RemovalInv'
  BY <1>1, OutsideRemoval, LoadRemoval, RulesAndGuardRemoval, CreateChunkRemoval,
     CreateJobRemoval, FinishRoundRemoval, ReportRemoval
  DEF Proceed
<1>2. ASSUME ClusterStep \/ \E n \in DOMAIN jobs : RemoveJob(n), UNCHANGED localVars
      PROVE  RemovalInv'
  BY <1>2, WorldRemoval
<1>3. ASSUME UNCHANGED vars PROVE RemovalInv'
  <2>1. UNCHANGED <<configMaps, jobs, rulesMap, received, pc, round, chunks, completed, failed>>
    BY <1>3 DEF vars, clusterVars, localVars, roundVars, batchVars
  <2>2. StoreGrows /\ JobsKept /\ LaterFollow'
    BY <2>1, StoreKept
  <2>3. ASSUME NEW c \in Controllers PROVE NothingLost(c)'
    <3>1. NothingLost(c)
      BY DEF RemovalInv
    <3>2. Ready(c)'
      BY <2>1, <2>2, <3>1, ReadyStays DEF NothingLost, HasList
    <3>3. Covered(c)'
      BY <2>1, <2>2, <3>1, CoveredStays DEF NothingLost, Counts, Current, Listed
    <3>4. Answered(c)'
      BY <2>1, <3>1, AnsweredStays DEF NothingLost
    <3>5. QED
      BY <3>2, <3>3, <3>4 DEF NothingLost
  <2>4. QED
    BY <2>2, <2>3 DEF RemovalInv
<1>4. QED
  BY <1>1, <1>2, <1>3 DEF Next

\* Nothing is stored and nothing counted.
LEMMA InitRemoval == Init => RemovalInv
<1> SUFFICES ASSUME Init PROVE RemovalInv
  OBVIOUS
<1> USE DEF Init, ClusterInit, Empty
<1>1. LaterFollow
  BY DEF LaterFollow, IsStored
<1>2. ASSUME NEW c \in Controllers PROVE NothingLost(c)
  BY DEF NothingLost, Ready, HasList, Covered, Counts, Answered, Adopted
<1>3. QED
  BY <1>1, <1>2 DEF RemovalInv

\* One controller whose reads of a Job do not fail leaves no repository without
\* a submission when it is done, however often it is restarted and whatever Jobs
\* are deleted between its attempts (RunController, the check of runRound).
THEOREM ReportedDespiteRemovals ==
  ASSUME OneController, ~ReadsMayFail, ~RemovalsAnytime
  PROVE  Spec => []EveryRepositoryReported
<1>1. OneView
  BY DEF OneController, OneView
<1>2. Init => RemovalInv
  BY InitRemoval
<1>3. IInv /\ IInv' /\ JobGuarded /\ ReportInv /\ RemovalInv /\ [Next]_vars => RemovalInv'
  BY NextRemoval
<1>4. RemovalInv => EveryRepositoryReported
  BY DEF RemovalInv, NothingLost, Answered, Known, EveryRepositoryReported
<1>5. Spec => []ReportInv
  BY <1>1, ReportInvariant
<1>6. QED
  BY <1>2, <1>3, <1>4, <1>5, Invariance, GuardedInvariant, PTL DEF Spec

-----------------------------------------------------------------------------
(* Resuming a batch.                                                        *)

\* map is chunk i of what the round before round n left unfinished.
ThisPart(n, i, map) ==
  LET list == Groups[Unfinished(n - 1)]
  IN Over(n - 1) /\ i \in DOMAIN list /\ map = [count |-> Len(list), group |-> list[i]]

\* So is every chunk of a later round, also while the round is not complete.
PartsOK ==
  \A key \in DOMAIN configMaps : key[1] > 0 => ThisPart(key[1], key[2], configMaps[key])

\* What c has in hand agrees with what is stored.
Resumes(c) ==
  /\ HasList(c) /\ IsStored(round[c]) => chunks[c] = StoredChunks(round[c])
  /\ pc[c] = "later" => ~JobExists(round[c])
  /\ pc[c] = "wait" => JobExists(round[c])
  /\ pc[c] = "refused" => ~IsStored(0)

ResumesOK == PartsOK /\ \A c \in Controllers : Resumes(c)

\* The inductive invariant, together with IInv and RoundInv.
ResumeInv == removals = 0 => ResumesOK

LEMMA PartStays ==
  ASSUME JobsKept, NEW n, NEW i, NEW map, ThisPart(n, i, map)
  PROVE  ThisPart(n, i, map)'
<1>1. Over(n - 1)' /\ Unfinished(n - 1)' = Unfinished(n - 1)
  BY OverStays DEF ThisPart
<1>2. QED
  BY <1>1 DEF ThisPart

LEMMA PartsStay ==
  ASSUME JobsKept, PartsOK, configMaps' = configMaps
  PROVE  PartsOK'
<1>1. ASSUME NEW key \in DOMAIN configMaps, key[1] > 0
      PROVE  ThisPart(key[1], key[2], configMaps[key])'
  <2>1. ThisPart(key[1], key[2], configMaps[key])
    BY <1>1 DEF PartsOK
  <2>2. ThisPart(key[1], key[2], configMaps'[key])
    BY <2>1
  <2>3. Over(key[1] - 1)' /\ Unfinished(key[1] - 1)' = Unfinished(key[1] - 1)
    BY <2>1, OverStays DEF ThisPart
  <2>4. QED
    BY <2>2, <2>3 DEF ThisPart
<1>2. QED
  BY <1>1 DEF PartsOK

\* The chunks of a list that follows the round before are its parts.
LEMMA OwnPart ==
  ASSUME IInv, RoundsOK, NEW c \in Controllers, pc[c] = "chunk", round[c] > 0
  PROVE  ThisPart(round[c], todo[c], ChunkMap(c, todo[c]))
<1>1. HasList(c) /\ ListOK(c) /\ todo[c] \in DOMAIN chunks[c]
  BY ChunkFacts
<1>2. Over(round[c] - 1) /\ chunks[c] = Groups[Unfinished(round[c] - 1)]
  BY <1>1 DEF RoundsOK, Ready, Follows, ListOK
<1>3. QED
  BY <1>1, <1>2 DEF ThisPart, ChunkMap

\* A chunk that is there already is the one c wants, once round 0 is stored.
LEMMA ChunkAgrees ==
  ASSUME IInv, RoundsOK, ResumesOK, NEW c \in Controllers, pc[c] = "chunk", IsStored(0),
         <<round[c], todo[c]>> \in DOMAIN configMaps
  PROVE  configMaps[<<round[c], todo[c]>>] = ChunkMap(c, todo[c])
<1> DEFINE n == round[c]
           i == todo[c]
<1>1. CASE n > 0
  <2>1. ThisPart(n, i, configMaps[<<n, i>>]) /\ ThisPart(n, i, ChunkMap(c, i))
    BY <1>1, OwnPart DEF ResumesOK, PartsOK
  <2>2. QED
    BY <2>1 DEF ThisPart
<1>2. CASE n = 0
  <2>1. HasList(c) /\ chunks[c] = StoredChunks(0)
    BY <1>2, ChunkFacts DEF ResumesOK, Resumes
  <2>2. Len(chunks[c]) = configMaps[<<0, 1>>].count /\ i \in 1..Len(chunks[c])
    BY <2>1, ChunkFacts, StoredChunksType DEF IInv
  <2>3. chunks[c][i] = configMaps[<<0, i>>].group
    BY <2>1, <2>2 DEF StoredChunks
  <2>4. configMaps[<<0, i>>].count = Len(chunks[c])
    BY <2>2 DEF IInv, StoreOK, Whole
  <2>5. configMaps[<<0, i>>] \in [count : Nat \ {0}, group : SUBSET Repositories]
    BY <1>2 DEF IInv, TypeOK
  <2>6. QED
    BY <1>2, <2>3, <2>4, <2>5 DEF ChunkMap
<1>3. QED
  BY <1>1, <1>2, ChunkFacts

LEMMA CreateChunkResumes ==
  ASSUME IInv, RoundsOK, ResumesOK, NEW c \in Controllers, CreateChunk(c)
  PROVE  PartsOK' /\ Resumes(c)'
<1> DEFINE n == round[c]
           i == todo[c]
<1>1. pc[c] = "chunk" /\ n \in Nat /\ HasList(c) /\ UNCHANGED <<jobs, round, chunks>>
  BY ChunkFacts DEF CreateChunk, roundVars
<1>2. JobsKept
  BY <1>1 DEF JobsKept
<1>3. CASE pc'[c] = "refused"
  <2>1. configMaps' = configMaps
    BY <1>3 DEF CreateChunk, AfterChunk, Goto, IInv, TypeOK
  <2>2. ~Accepts(<<n, i>> \in DOMAIN configMaps, configMaps[<<n, i>>] = ChunkMap(c, i))
    BY <1>3 DEF CreateChunk, NextChunk, AfterChunk, Goto, IInv, TypeOK
  <2>3. ~IsStored(0)
    BY <1>1, <2>2, ChunkAgrees DEF Accepts
  <2>4. PartsOK'
    BY <1>2, <2>1, PartsStay DEF ResumesOK
  <2>5. QED
    BY <1>3, <2>1, <2>3, <2>4 DEF Resumes, HasList, Adopted, IsStored
<1>4. CASE pc'[c] # "refused"
  <2>1. /\ StoreGrows /\ pc'[c] \in {"guard", "chunk"}
        /\ DOMAIN configMaps' = DOMAIN configMaps \cup {<<n, i>>}
        /\ configMaps'[<<n, i>>] = ChunkMap(c, i)
    BY <1>4, ChunkCreated
  <2>2. ASSUME NEW key \in DOMAIN configMaps', key[1] > 0
        PROVE  ThisPart(key[1], key[2], configMaps'[key])
    <3>1. CASE key \in DOMAIN configMaps
      BY <2>1, <2>2, <3>1 DEF ResumesOK, PartsOK, StoreGrows
    <3>2. CASE key = <<n, i>>
      BY <1>1, <2>1, <2>2, <3>2, OwnPart
    <3>3. QED
      BY <2>1, <3>1, <3>2
  <2>3. PartsOK'
    <3>1. UNCHANGED jobs
      BY <1>1
    <3>2. QED
      BY <2>2, <3>1 DEF PartsOK, ThisPart, Over, Running, Unfinished, InState
  <2>4. ASSUME IsStored(n)' PROVE chunks[c] = StoredChunks(n)'
    <3>1. CASE IsStored(n)
      BY <1>1, <2>1, <3>1, StoredStays DEF IInv, ResumesOK, Resumes
    <3>2. CASE ~IsStored(n)
      BY <1>1, <1>4, <2>4, <3>2, ChunkCompletes
    <3>3. QED
      BY <3>1, <3>2
  <2>5. Resumes(c)'
    BY <1>1, <2>1, <2>4 DEF Resumes, IsStored, StoredChunks
  <2>6. QED
    BY <2>3, <2>5
<1>5. QED
  BY <1>3, <1>4

\* A step that stores nothing and starts no Job.
LEMMA QuietResumes ==
  ASSUME ResumesOK, UNCHANGED <<configMaps, jobs>>, NEW c \in Controllers,
         HasList(c)' /\ IsStored(round'[c]) => chunks'[c] = StoredChunks(round'[c]),
         pc'[c] = "later" => ~JobExists(round'[c]),
         pc'[c] = "wait" => JobExists(round'[c]),
         pc'[c] = "refused" => ~IsStored(0)
  PROVE  PartsOK' /\ Resumes(c)'
<1>1. PartsOK'
  BY PartsStay DEF ResumesOK, JobsKept
<1>2. Resumes(c)'
  BY DEF Resumes, IsStored, StoredChunks, JobExists
<1>3. QED
  BY <1>1, <1>2

LEMMA LoadResumes ==
  ASSUME IInv, ResumesOK, NEW c \in Controllers,
         Start(c) \/ LoadStored(c) \/ LoadFromRegister(c) \/ LoadNothing(c) \/ LoadComputed(c)
  PROVE  PartsOK' /\ Resumes(c)'
<1> USE DEF Start, LoadStored, LoadFromRegister, LoadNothing, LoadComputed, BeginRound, Goto,
            clusterVars, roundVars, batchVars
<1>1. UNCHANGED <<configMaps, jobs>> /\ round' = round /\ pc'[c] \in {"load", "rules", "done"}
  BY DEF IInv, TypeOK
<1>2. HasList(c)' /\ IsStored(round[c]) => chunks'[c] = StoredChunks(round[c])
  BY DEF HasList, Adopted, IInv, TypeOK, AttemptsOK, Attempt, FreshOK
<1>3. QED
  BY <1>1, <1>2, QuietResumes

\* Nobody changed the rules, so they are those stored.
LEMMA CreateRulesResumes ==
  ASSUME OneRules, IInv, ResumesOK, NEW c \in Controllers, CreateRules(c)
  PROVE  PartsOK' /\ Resumes(c)'
<1> USE DEF CreateRules, Goto, roundVars, batchVars
<1>1. pc[c] = "rules" /\ UNCHANGED <<configMaps, jobs, round, chunks>>
  OBVIOUS
<1>2. rules[c] \in RuleVersions /\ rulesMap \in RuleVersions \cup {NoRules}
  BY <1>1 DEF IInv, TypeOK, AttemptsOK, Attempt, RulesOK
<1>3. Accepts(rulesMap # NoRules, rulesMap = rules[c])
  BY <1>2 DEF Accepts, OneRules
<1>4. pc'[c] = "chunk"
  BY <1>3 DEF IInv, TypeOK
<1>5. QED
  BY <1>1, <1>4, QuietResumes DEF ResumesOK, Resumes, HasList

LEMMA GuardResumes ==
  ASSUME IInv, RoundsOK, ResumesOK, NEW c \in Controllers,
         GuardJob(c) \/ CheckLater(c) \/ JobGone(c)
  PROVE  PartsOK' /\ Resumes(c)'
<1> USE DEF Goto, clusterVars, roundVars, batchVars
<1>1. UNCHANGED <<configMaps, jobs, round, chunks>> /\ round[c] \in Nat
  BY DEF GuardJob, CheckLater, JobGone, IInv, TypeOK
<1>2. ~JobGone(c)
  BY DEF JobGone, ResumesOK, Resumes
<1>3. CASE GuardJob(c)
  <2>1. pc[c] = "guard" /\ (pc'[c] = "job" \/ (pc'[c] = "later" /\ ~JobExists(round[c])))
    BY <1>3 DEF GuardJob, IInv, TypeOK
  <2>2. QED
    BY <1>1, <2>1, QuietResumes DEF ResumesOK, Resumes, HasList, Adopted
<1>4. CASE CheckLater(c)
  <2>1. pc[c] = "later" /\ ~JobExists(round[c])
    BY <1>4 DEF CheckLater, ResumesOK, Resumes
  <2>2. ~IsStored(round[c] + 1)
    BY <1>1, <2>1 DEF RoundsOK, PastOK, Past, Follows, Over, JobExists
  <2>3. pc'[c] = "job"
    BY <1>4, <2>2 DEF CheckLater, Superseded, IInv, TypeOK
  <2>4. QED
    BY <1>1, <2>1, <2>3, QuietResumes DEF ResumesOK, Resumes, HasList, Adopted
<1>5. QED
  BY <1>2, <1>3, <1>4

\* A Job that is there already runs the stored list, which is that of c.
LEMMA CreateJobResumes ==
  ASSUME IInv, ResumesOK, NEW c \in Controllers, CreateJob(c)
  PROVE  PartsOK' /\ Resumes(c)'
<1> USE DEF CreateJob, Goto, roundVars, batchVars
<1>1. pc[c] = "job" /\ UNCHANGED <<configMaps, round, chunks>>
  OBVIOUS
<1>2. StoredChunks(round[c]) = chunks[c]
  BY <1>1, AdoptedIsStored DEF IInv, AttemptsOK, Adopted
<1>3. Accepts(JobExists(round[c]), jobs[round[c]].chunks = chunks[c])
  BY <1>2 DEF Accepts, JobExists, IInv, JobsOK
<1>4. pc'[c] = "wait" /\ round[c] \in DOMAIN jobs'
  BY <1>3 DEF JobExists, Put, IInv, TypeOK
<1>5. JobsKept
  BY DEF JobsKept, Put, JobExists
<1>6. PartsOK'
  BY <1>1, <1>5, PartsStay DEF ResumesOK
<1>7. Resumes(c)'
  BY <1>1, <1>2, <1>4 DEF Resumes, JobExists, StoredChunks
<1>8. QED
  BY <1>6, <1>7

\* A next round that is stored already is cut from the same repositories.
LEMMA FinishRoundResumes ==
  ASSUME IInv, RoundsOK, ResumesOK, NEW c \in Controllers, FinishRound(c)
  PROVE  PartsOK' /\ Resumes(c)'
<1> DEFINE n == round[c]
<1>1. UNCHANGED <<configMaps, jobs>> /\ n \in Nat
  BY DEF FinishRound, clusterVars, IInv, TypeOK
<1>2. CASE pc'[c] = "report"
  BY <1>1, <1>2, QuietResumes DEF HasList, Adopted
<1>3. CASE pc'[c] = "load"
  <2>1. round'[c] = n + 1 /\ chunks'[c] = Groups[Unfinished(n)]
    BY <1>3 DEF FinishRound, Goto, Outcome, IInv, TypeOK
  <2>2. ASSUME IsStored(n + 1) PROVE chunks'[c] = StoredChunks(n + 1)
    <3>1. n + 1 \in Nat /\ n + 1 > 0 /\ (n + 1) - 1 = n
      BY <1>1
    <3>2. Manifest(n + 1) = Unfinished(n)
      BY <2>2, <3>1 DEF RoundsOK, PastOK, Past, Follows
    <3>3. StoredChunks(n + 1) = Groups[Manifest(n + 1)]
      BY <2>2, <3>1 DEF IInv, StoreOK
    <3>4. QED
      BY <2>1, <3>2, <3>3
  <2>3. QED
    BY <1>1, <1>3, <2>1, <2>2, QuietResumes
<1>4. QED
  BY <1>2, <1>3 DEF FinishRound, Goto, IInv, TypeOK

LEMMA EndResumes ==
  ASSUME IInv, ResumesOK, NEW c \in Controllers,
         ReportOne(c) \/ FinishReport(c) \/ Exit(c) \/ ReportUnacknowledged(c)
  PROVE  PartsOK' /\ Resumes(c)'
<1> USE DEF ReportOne, FinishReport, Exit, ReportUnacknowledged, Forget, Goto,
            clusterVars, roundVars, batchVars
<1>1. UNCHANGED <<configMaps, jobs>> /\ (pc'[c] \in {"report", "done"} \/ (pc'[c] = "down" /\ round'[c] = 0))
  BY DEF IInv, TypeOK
<1>2. QED
  BY <1>1, QuietResumes DEF HasList, Adopted

LEMMA WorldResumes ==
  ASSUME IInv, ResumesOK, UNCHANGED localVars, ClusterStep \/ UNCHANGED vars
  PROVE  ResumesOK'
<1>1. JobsKept /\ UNCHANGED <<configMaps, pc, round, chunks>>
  BY ClusterJobsKept DEF JobsKept, vars, clusterVars, localVars, roundVars
<1>2. DOMAIN jobs' = DOMAIN jobs
  BY DEF ClusterStep, PodPosts, PodPostsLate, PodSucceeds, PodFails, SetPod, JobStops, Tick,
         vars, clusterVars
<1>3. PartsOK'
  BY <1>1, PartsStay DEF ResumesOK
<1>4. ASSUME NEW c \in Controllers PROVE Resumes(c)'
  <2>1. Resumes(c)
    BY DEF ResumesOK
  <2>2. QED
    BY <1>1, <1>2, <2>1 DEF Resumes, HasList, IsStored, StoredChunks, JobExists
<1>5. QED
  BY <1>3, <1>4 DEF ResumesOK

LEMMA NextResumes ==
  ASSUME OneController, OneRules, IInv, RoundInv, ResumeInv, [Next]_vars
  PROVE  ResumeInv'
<1> SUFFICES ASSUME removals' = 0 PROVE ResumesOK'
  BY DEF ResumeInv
<1>0. removals = 0 => RoundsOK /\ ResumesOK
  BY DEF RoundInv, ResumeInv
<1>1. ASSUME NEW c \in Controllers, Start(c) \/ Proceed(c) \/ Exit(c) \/ ReportUnacknowledged(c)
      PROVE  ResumesOK'
  <2>1. RoundsOK /\ ResumesOK
    BY <1>0, <1>1
    DEF Start, Proceed, LoadStored, LoadFromRegister, LoadNothing, LoadComputed, BeginRound,
        CreateRules, CreateChunk, GuardJob, CheckLater, CreateJob, JobGone, FinishRound,
        ReportOne, FinishReport, Exit, ReportUnacknowledged, clusterVars
  <2>2. PartsOK' /\ Resumes(c)'
    BY <1>1, <2>1, LoadResumes, CreateRulesResumes, CreateChunkResumes, GuardResumes,
       CreateJobResumes, FinishRoundResumes, EndResumes
    DEF Proceed
  <2>3. \A d \in Controllers : d = c
    BY DEF OneController
  <2>4. QED
    BY <2>2, <2>3 DEF ResumesOK
<1>2. ASSUME ClusterStep, UNCHANGED localVars PROVE ResumesOK'
  BY <1>0, <1>2, ClusterJobsKept, WorldResumes
<1>3. ASSUME NEW n \in DOMAIN jobs, RemoveJob(n) PROVE FALSE
  BY <1>3 DEF RemoveJob, JobRemoved, IInv, TypeOK
<1>4. ASSUME UNCHANGED vars PROVE ResumesOK'
  BY <1>0, <1>4, WorldResumes DEF vars, clusterVars
<1>5. QED
  BY <1>1, <1>2, <1>3, <1>4 DEF Next

\* Once round 0 is stored, and until somebody deletes a Job, one controller that
\* always finds the same rules is never refused by what earlier attempts stored,
\* wherever they stopped and however the register changed (roundManifest,
\* createOrVerifyConfigMap, createOrVerifyJob).
THEOREM BatchResumes ==
  ASSUME OneController, OneRules
  PROVE  Spec => []StoredBatchResumes
<1>1. Init => ResumeInv
  BY DEF Init, ClusterInit, Empty, ResumeInv, ResumesOK, PartsOK, Resumes, HasList, Adopted
<1>2. IInv /\ RoundInv /\ ResumeInv /\ [Next]_vars => ResumeInv'
  BY NextResumes
<1>3. ResumeInv => StoredBatchResumes
  BY DEF ResumeInv, ResumesOK, Resumes, StoredBatchResumes
<1>4. QED
  BY <1>1, <1>2, <1>3, RoundsInvariant, PTL DEF Spec

-----------------------------------------------------------------------------
(* One attempt from start to end.                                           *)

\* A Job that is over, with its completed repositories counted by c.
CountedIn(n, c) == Over(n) /\ InState(n, "completed") \subseteq completed[c]

Ending(c) == pc[c] \in {"report", "done"}

\* c has started every Job there is, and counted those that are over.
JobsSettled(c) ==
  /\ pc[c] \in {"down", "load", "rules", "chunk"} => \A n \in DOMAIN jobs : n < round[c]
  /\ pc[c] \in Adopted => \A n \in DOMAIN jobs : n <= round[c]
  /\ pc[c] # "refused" =>
       \A n \in DOMAIN jobs : n < round[c] \/ Ending(c) => CountedIn(n, c)

\* It reports what it counted as failed, and nothing before it is finished.
ReportsSettled(c) ==
  /\ unreported[c] \subseteq failed[c]
  /\ Ending(c) => completed[c] \cap failed[c] = {}
  /\ \A repo : Failure(repo) \in received => Ending(c) /\ repo \in failed[c]

Settles(c) == JobsSettled(c) /\ ReportsSettled(c)

\* The inductive invariant, together with IInv and RoundInv.
SettleInv == removals = 0 /\ exits = 0 => \A c \in Controllers : Settles(c)

LEMMA CountedInStays ==
  ASSUME JobsKept, NEW c \in Controllers, completed[c] \subseteq completed'[c],
         NEW n, CountedIn(n, c)
  PROVE  CountedIn(n, c)'
BY DEF JobsKept, CountedIn, Over, Running, InState

\* A step of c to another location before the end of the attempt.
LEMMA EarlySettles ==
  ASSUME IInv, NEW c \in Controllers, Settles(c),
         \/ Start(c) \/ LoadStored(c) \/ LoadFromRegister(c) \/ LoadComputed(c)
         \/ CreateRules(c) \/ CreateChunk(c) \/ GuardJob(c) \/ CheckLater(c) \/ JobGone(c)
  PROVE  Settles(c)'
<1> USE DEF Start, LoadStored, LoadFromRegister, LoadComputed, BeginRound, CreateRules,
            CreateChunk, AfterChunk, GuardJob, CheckLater, JobGone, Goto,
            clusterVars, roundVars, batchVars
<1>1. UNCHANGED <<jobs, received, round, completed, failed, unreported>> /\ round[c] \in Nat
  BY DEF IInv, TypeOK
<1>2. ~Ending(c) /\ ~Ending(c)' /\ pc[c] # "refused"
  BY DEF Ending, IInv, TypeOK, Adopted
<1>3. \/ pc[c] \in {"down", "load", "rules", "chunk"}
      \/ pc[c] \in Adopted /\ pc'[c] \in {"later", "job", "refused"}
  BY DEF IInv, TypeOK, Adopted
<1>4. \A n \in DOMAIN jobs : n \in Nat
  BY DEF IInv, TypeOK
<1>5. JobsSettled(c)'
  <2>1. pc'[c] \in {"down", "load", "rules", "chunk"} => \A n \in DOMAIN jobs : n < round[c]
    BY <1>3 DEF Settles, JobsSettled, Adopted
  <2>2. pc'[c] \in Adopted => \A n \in DOMAIN jobs : n <= round[c]
    BY <1>1, <1>3, <1>4 DEF Settles, JobsSettled, Adopted
  <2>3. \A n \in DOMAIN jobs : n < round[c] => CountedIn(n, c)
    BY <1>2 DEF Settles, JobsSettled
  <2>4. QED
    BY <1>1, <1>2, <2>1, <2>2, <2>3 DEF JobsSettled, CountedIn, Over, Running, InState
<1>6. ReportsSettled(c)'
  BY <1>1, <1>2 DEF Settles, ReportsSettled, Failure
<1>7. QED
  BY <1>5, <1>6 DEF Settles

\* Without repositories there is no Job and nothing to report.
LEMMA NothingSettles ==
  ASSUME IInv, RoundsOK, NEW c \in Controllers, Settles(c), LoadNothing(c)
  PROVE  Settles(c)'
<1> USE DEF LoadNothing, Goto, clusterVars, roundVars, batchVars
<1>1. /\ pc[c] = "load" /\ round[c] = 0 /\ pc'[c] = "done"
      /\ UNCHANGED <<jobs, received, round, completed, failed, unreported>>
  BY DEF IInv, TypeOK
<1>2. DOMAIN jobs = {}
  <2>1. ASSUME NEW n \in DOMAIN jobs PROVE FALSE
    <3>1. n < 0 /\ n \in Nat
      BY <1>1 DEF Settles, JobsSettled, IInv, TypeOK
    <3>2. QED
      BY <3>1
  <2>2. QED
    BY <2>1
<1>3. completed[c] = {} /\ failed[c] = {}
  BY <1>1 DEF RoundsOK, Counted, Counts, Adopted
<1>4. JobsSettled(c)'
  BY <1>1, <1>2 DEF JobsSettled, Adopted
<1>5. ReportsSettled(c)'
  BY <1>1, <1>3 DEF Settles, ReportsSettled, Ending, Failure
<1>6. QED
  BY <1>4, <1>5 DEF Settles

LEMMA CreateJobSettles ==
  ASSUME IInv, NEW c \in Controllers, Settles(c), CreateJob(c)
  PROVE  Settles(c)'
<1> USE DEF CreateJob, Goto, roundVars, batchVars
<1>1. /\ pc[c] = "job" /\ pc'[c] \in {"wait", "refused"} /\ round[c] \in Nat
      /\ UNCHANGED <<received, round, completed, failed, unreported>>
  BY DEF IInv, TypeOK
<1>2. JobsKept /\ DOMAIN jobs \subseteq DOMAIN jobs' /\ DOMAIN jobs' \subseteq DOMAIN jobs \cup {round[c]}
  BY DEF JobsKept, Put, JobExists
<1>3. ASSUME NEW n \in DOMAIN jobs'
      PROVE  n <= round[c] /\ (n < round[c] => CountedIn(n, c)')
  <2>1. CASE n = round[c]
    BY <1>1, <2>1
  <2>2. CASE n # round[c]
    <3>1. n \in DOMAIN jobs
      BY <1>2, <2>2
    <3>2. n <= round[c] /\ (n < round[c] => CountedIn(n, c))
      BY <1>1, <3>1 DEF Settles, JobsSettled, Adopted
    <3>3. QED
      BY <1>1, <1>2, <3>2, CountedInStays
  <2>3. QED
    BY <2>1, <2>2
<1>4. JobsSettled(c)'
  BY <1>1, <1>3 DEF JobsSettled, Ending, Adopted
<1>5. ReportsSettled(c)'
  BY <1>1 DEF Settles, ReportsSettled, Ending, Failure
<1>6. QED
  BY <1>4, <1>5 DEF Settles

\* The Job of the round is counted before the attempt goes on or ends.
LEMMA FinishRoundSettles ==
  ASSUME IInv, RoundsOK', NEW c \in Controllers, Settles(c), FinishRound(c)
  PROVE  Settles(c)'
<1> DEFINE m == round[c]
<1>1. /\ pc[c] = "wait" /\ Over(m) /\ m \in Nat
      /\ UNCHANGED <<jobs, received>> /\ pc'[c] \in {"load", "report"}
      /\ round'[c] = IF pc'[c] = "load" THEN m + 1 ELSE m
      /\ completed'[c] = completed[c] \cup InState(m, "completed")
      /\ failed[c] \subseteq failed'[c]
      /\ unreported'[c] \subseteq unreported[c] \cup failed'[c]
  BY DEF FinishRound, Goto, Terminal, Over, Outcome, ToReport, clusterVars, IInv, TypeOK
<1>2. JobsKept /\ \A n \in DOMAIN jobs : n \in Nat
  BY <1>1 DEF JobsKept, IInv, TypeOK
<1>3. ASSUME NEW n \in DOMAIN jobs PROVE n <= m /\ CountedIn(n, c)'
  <2>1. n <= m
    BY <1>1 DEF Settles, JobsSettled, Adopted
  <2>2. CASE n = m
    BY <1>1, <2>1, <2>2 DEF CountedIn, Over, Running, InState
  <2>3. CASE n # m
    <3>1. CountedIn(n, c)
      BY <1>1, <1>2, <2>1, <2>3 DEF Settles, JobsSettled
    <3>2. QED
      BY <1>1, <1>2, <2>1, <3>1, CountedInStays
  <2>4. QED
    BY <2>2, <2>3
<1>4. JobsSettled(c)'
  BY <1>1, <1>2, <1>3 DEF JobsSettled, Adopted
<1>5. ReportsSettled(c)'
  <2>1. unreported'[c] \subseteq failed'[c]
    BY <1>1 DEF Settles, ReportsSettled
  <2>2. Ending(c)' => completed'[c] \cap failed'[c] = {}
    BY <1>1 DEF RoundsOK, Counted, Counts, Partitioned, Ending
  <2>3. \A repo : Failure(repo) \notin received'
    BY <1>1 DEF Settles, ReportsSettled, Ending, Failure
  <2>4. QED
    BY <2>1, <2>2, <2>3 DEF ReportsSettled, Failure
<1>6. QED
  BY <1>4, <1>5 DEF Settles

LEMMA ReportSettles ==
  ASSUME IInv, NEW c \in Controllers, Settles(c), ReportOne(c) \/ FinishReport(c)
  PROVE  Settles(c)'
<1> USE DEF ReportOne, FinishReport, Reported, Goto, clusterVars, roundVars, batchVars
<1>1. /\ pc[c] = "report" /\ pc'[c] \in {"report", "done"}
      /\ UNCHANGED <<jobs, round, completed, failed>>
      /\ unreported'[c] \subseteq unreported[c]
      /\ \A repo : Failure(repo) \in received' => Failure(repo) \in received \/ repo \in unreported[c]
  BY DEF Failure, IInv, TypeOK
<1>2. JobsSettled(c)'
  BY <1>1 DEF Settles, JobsSettled, Ending, Adopted, CountedIn, Over, Running, InState
<1>3. ReportsSettled(c)'
  BY <1>1 DEF Settles, ReportsSettled, Ending, Failure
<1>4. QED
  BY <1>2, <1>3 DEF Settles

LEMMA WorldSettles ==
  ASSUME IInv, UNCHANGED localVars, ClusterStep \/ UNCHANGED vars, NEW c \in Controllers, Settles(c)
  PROVE  Settles(c)'
<1>1. JobsKept /\ UNCHANGED <<pc, round, completed, failed, unreported>>
  BY ClusterJobsKept DEF JobsKept, vars, clusterVars, localVars, roundVars, batchVars
<1>2. /\ DOMAIN jobs' = DOMAIN jobs
      /\ \A repo : Failure(repo) \in received' => Failure(repo) \in received
  BY DEF ClusterStep, PodPosts, PodPostsLate, PodSucceeds, PodFails, SetPod, JobStops, Tick,
         Result, Failure, vars, clusterVars
<1>3. ASSUME NEW n \in DOMAIN jobs, CountedIn(n, c) PROVE CountedIn(n, c)'
  BY <1>1, <1>3, CountedInStays
<1>4. JobsSettled(c)'
  BY <1>1, <1>2, <1>3 DEF Settles, JobsSettled, Ending
<1>5. ReportsSettled(c)'
  BY <1>1, <1>2 DEF Settles, ReportsSettled, Ending, Failure
<1>6. QED
  BY <1>4, <1>5 DEF Settles

LEMMA NextSettles ==
  ASSUME OneController, IInv, RoundInv, RoundInv', SettleInv, [Next]_vars
  PROVE  SettleInv'
<1> SUFFICES ASSUME removals' = 0, exits' = 0, NEW c \in Controllers PROVE Settles(c)'
  BY DEF SettleInv
<1>0. RoundsOK' /\ (removals = 0 /\ exits = 0 => RoundsOK /\ Settles(c))
  BY DEF RoundInv, SettleInv
<1>1. ASSUME NEW d \in Controllers, Start(d) \/ Proceed(d) PROVE Settles(c)'
  <2>1. removals = 0 /\ exits = 0 /\ d = c
    BY <1>1
    DEF OneController, Start, Proceed, LoadStored, LoadFromRegister, LoadNothing, LoadComputed,
        BeginRound, CreateRules, CreateChunk, GuardJob, CheckLater, CreateJob, JobGone,
        FinishRound, ReportOne, FinishReport, clusterVars
  <2>2. QED
    BY <1>0, <1>1, <2>1, EarlySettles, NothingSettles, CreateJobSettles, FinishRoundSettles,
       ReportSettles
    DEF Proceed
<1>2. ASSUME NEW d \in Controllers, Exit(d) \/ ReportUnacknowledged(d) PROVE FALSE
  BY <1>2 DEF Exit, ReportUnacknowledged, Forget, IInv, TypeOK
<1>3. ASSUME ClusterStep, UNCHANGED <<localVars, exits>> PROVE Settles(c)'
  BY <1>0, <1>3, ClusterJobsKept, WorldSettles
<1>4. ASSUME NEW n \in DOMAIN jobs, RemoveJob(n) PROVE FALSE
  BY <1>4 DEF RemoveJob, JobRemoved, IInv, TypeOK
<1>5. ASSUME UNCHANGED vars PROVE Settles(c)'
  BY <1>0, <1>5, WorldSettles DEF vars, clusterVars
<1>6. QED
  BY <1>1, <1>2, <1>3, <1>4, <1>5 DEF Next

\* Until an attempt ends early or somebody deletes a Job, one controller never
\* reports a repository as failed whose Pod completed, in whatever round
\* (RunController). After a restart it may: the run late_restart.
THEOREM CompletedStaysCompleted ==
  ASSUME OneController
  PROVE  Spec => [](removals = 0 /\ exits = 0 => CompletedNotReportedFailed)
<1>1. Init => SettleInv
  BY DEF Init, ClusterInit, Empty, SettleInv, Settles, JobsSettled, ReportsSettled, Ending
<1>2. IInv /\ RoundInv /\ RoundInv' /\ SettleInv /\ [Next]_vars => SettleInv'
  BY NextSettles
<1>3. ASSUME IInv, SettleInv, removals = 0, exits = 0 PROVE CompletedNotReportedFailed
  <2>1. PICK c \in Controllers : Settles(c)
    BY <1>3 DEF OneController, SettleInv
  <2>2. ASSUME NEW n \in DOMAIN jobs, NEW repo \in InState(n, "completed"), Failure(repo) \in received
        PROVE  FALSE
    <3>1. Ending(c) /\ repo \in failed[c] /\ completed[c] \cap failed[c] = {}
      BY <2>1, <2>2 DEF Settles, ReportsSettled
    <3>2. CountedIn(n, c)
      BY <2>1, <3>1 DEF Settles, JobsSettled, Ending
    <3>3. QED
      BY <2>2, <3>1, <3>2 DEF CountedIn
  <2>3. QED
    BY <2>2 DEF CompletedNotReportedFailed
<1>4. IInv /\ SettleInv => (removals = 0 /\ exits = 0 => CompletedNotReportedFailed)
  BY <1>3
<1>5. QED
  BY <1>1, <1>2, <1>4, RoundsInvariant, PTL DEF Spec
=============================================================================
