----------------------- MODULE FamilyDeprecationProofs -----------------------
(***************************************************************************)
(* Proofs about FamilyDeprecation, for any number of images and builds.    *)
(* FamilyInv relates what a build has still to do with the images that it  *)
(* owes a deprecation, and keeps what it may ever touch apart from images  *)
(* that are newer than its own.                                            *)
(***************************************************************************)
EXTENDS FamilyDeprecation, TLAPS

\* What was there when an image was made is still there, without that image.
OlderInv ==
  \A b \in Builds :
    /\ older[b] \subseteq Existing \ {b}
    /\ pc[b] \in {"list", "request", "wait", "ok"} => image[b] # "absent"

\* Nothing that is owed is forgotten.
OwedInv ==
  \A b \in Builds :
    /\ pc[b] = "list" =>
         \A i \in older[b] :
           image[i] = "deprecated" \/ i \in todo[b] \/ i \in unread[b]
    /\ pc[b] \in {"request", "wait", "ok"} =>
         \A i \in older[b] :
           image[i] = "deprecated" \/ i \in todo[b] \/ i \in awaiting[b]
    /\ pc[b] \in {"wait", "ok"} => todo[b] = {}
    /\ pc[b] = "ok" => awaiting[b] = {}
    /\ \A i \in Images : ops[b][i] = "done" => image[i] = "deprecated"

\* A build that raced nobody lists, and touches, only older images.
ReachInv ==
  ~raced =>
    \A b \in Builds :
      /\ pc[b] = "list" => Existing \subseteq older[b] \cup {b}
      /\ todo[b] \subseteq older[b]
      /\ \A i \in Images : ops[b][i] # "none" => i \in older[b]

\* No image is newer than the newest.
NewestInv ==
  newest # NoImage =>
    /\ image[newest] # "absent"
    /\ \A b \in Builds : newest \notin older[b]
    /\ ~raced => image[newest] = "live"

FamilyInv == OlderInv /\ OwedInv /\ ReachInv /\ NewestInv

\* The types, whatever the images and the builds: Init.
LEMMA InitTyped == Init => TypeOK
<1> SUFFICES ASSUME Init PROVE TypeOK
  OBVIOUS
<1>1. ops \in [Builds -> [Images -> {"none", "pending", "done", "error"}]]
  BY DEF Init
<1>2. pc \in [Builds -> Active \cup Ended]
  BY DEF Init, Active
<1> QED BY <1>1, <1>2 DEF Init, TypeOK

\* The types are kept by every step: Next.
LEMMA NextTyped == TypeOK /\ [Next]_vars => TypeOK'
<1> SUFFICES ASSUME TypeOK, [Next]_vars PROVE TypeOK'
  OBVIOUS
<1> USE DEF TypeOK
<1>1. ASSUME NEW b \in Builds, ImageMade(b) PROVE TypeOK'
  BY <1>1 DEF ImageMade, Goto, Active, Existing, Images
<1>2. ASSUME NEW b \in Builds, ListPage(b) \/ ListEnds(b) PROVE TypeOK'
  <2>1. CASE ListPage(b)
    <3>1. unread' \in [Builds -> SUBSET Images]
          /\ todo' \in [Builds -> SUBSET Images]
      BY <2>1 DEF ListPage
    <3> QED BY <2>1, <3>1 DEF ListPage, world, history
  <2>2. CASE ListEnds(b)
    BY <2>2 DEF ListEnds, Goto, Active, world, history
  <2> QED BY <1>2, <2>1, <2>2
<1>3. ASSUME NEW b \in Builds, Request(b) PROVE TypeOK'
  <2>1. ops' \in [Builds -> [Images -> {"none", "pending", "done", "error"}]]
    BY <1>3 DEF Request
  <2>2. todo' \in [Builds -> SUBSET Images]
        /\ awaiting' \in [Builds -> SUBSET Images]
    BY <1>3 DEF Request
  <2> QED BY <1>3, <2>1, <2>2 DEF Request, history
<1>4. ASSUME NEW b \in Builds, AllRequested(b) PROVE TypeOK'
  BY <1>4 DEF AllRequested, Goto, Active, world, history
<1>5. ASSUME NEW b \in Builds, DeadlinePasses(b) PROVE TypeOK'
  BY <1>5 DEF DeadlinePasses, world, history
<1>6. ASSUME NEW b \in Builds, WaitForOp(b) PROVE TypeOK'
  <2>1. PICK i \in awaiting[b] : NextOne(b, i) \/ GiveUp(b)
    BY <1>6 DEF WaitForOp
  <2>2. UNCHANGED pc \/ pc' = [pc EXCEPT ![b] = "failed"]
    BY <2>1 DEF NextOne, GiveUp
  <2>3. pc' \in [Builds -> Active \cup Ended]
    BY <2>2 DEF Ended
  <2>4. awaiting' \in [Builds -> SUBSET Images]
    BY <2>1 DEF NextOne, GiveUp
  <2> QED BY <1>6, <2>3, <2>4 DEF WaitForOp, world, history
<1>7. ASSUME NEW b \in Builds, Deprecated(b) PROVE TypeOK'
  BY <1>7 DEF Deprecated, Goto, Ended, world, history
<1>8. ASSUME NEW b \in Builds, Fails(b) PROVE TypeOK'
  BY <1>8 DEF Fails, Goto, Ended, world, history
<1>9. ASSUME NEW b \in Builds, Retry(b) PROVE TypeOK'
  BY <1>9 DEF Retry, Goto, Active, Ended, world, history
<1>10. ASSUME NEW b \in Builds, NEW i \in Images, OperationDone(b, i)
       PROVE TypeOK'
  BY <1>10 DEF OperationDone, builds, history
<1>11. ASSUME NEW b \in Builds, NEW i \in Images, OperationFails(b, i)
       PROVE TypeOK'
  BY <1>11 DEF OperationFails, builds, history
<1>12. CASE UNCHANGED vars
  BY <1>12 DEF vars, builds, world, history
<1> QED
  BY <1>1, <1>2, <1>3, <1>4, <1>5, <1>6, <1>7, <1>8, <1>9, <1>10, <1>11,
     <1>12 DEF Next, Build, Over

\* The types hold in every state of every behaviour (gce.go as a whole).
THEOREM FamilyTypes == Spec => []TypeOK
<1>1. Init => TypeOK
  BY InitTyped
<1>2. TypeOK /\ [Next]_vars => TypeOK'
  BY NextTyped
<1> QED BY <1>1, <1>2, PTL DEF Spec

-----------------------------------------------------------------------------
\* Before the first image is made there is nothing to relate: Init.
LEMMA InitFamily == Init => FamilyInv
BY FamilyAssumption
   DEF Init, FamilyInv, OlderInv, OwedInv, ReachInv, NewestInv, Existing,
       Images

\* Images are never unmade, and never undeprecated: no call of gce.go does.
LEMMA ImagesLast ==
  ASSUME TypeOK, [Next]_vars
  PROVE  /\ Existing \subseteq Existing'
         /\ \A i \in Images :
              image[i] = "deprecated" => image'[i] = "deprecated"
<1> USE DEF TypeOK, Existing
<1>1. ASSUME NEW b \in Builds, ImageMade(b)
      PROVE  \A i \in Images :
               /\ image[i] # "absent" => image'[i] # "absent"
               /\ image[i] = "deprecated" => image'[i] = "deprecated"
  BY <1>1 DEF ImageMade
<1>2. ASSUME NEW b \in Builds, NEW j \in Images, OperationDone(b, j)
      PROVE  \A i \in Images :
               /\ image[i] # "absent" => image'[i] # "absent"
               /\ image[i] = "deprecated" => image'[i] = "deprecated"
  BY <1>2 DEF OperationDone
<1>3. \/ \E b \in Builds : ImageMade(b)
      \/ \E b \in Builds, j \in Images : OperationDone(b, j)
      \/ UNCHANGED image
  BY DEF Next, Build, ListPage, ListEnds, Request, AllRequested,
         DeadlinePasses, WaitForOp, Deprecated, Fails, Retry, OperationFails,
         Over, vars, world
<1> QED BY <1>1, <1>2, <1>3

\* The conjuncts of FamilyInv, one step of the system at a time.
LEMMA NextFamily == TypeOK /\ TypeOK' /\ FamilyInv /\ [Next]_vars => FamilyInv'
<1> SUFFICES ASSUME TypeOK, TypeOK', FamilyInv, [Next]_vars PROVE FamilyInv'
  OBVIOUS
<1> USE DEF TypeOK, FamilyInv
<1>0. /\ Existing \subseteq Existing'
      /\ \A i \in Images : image[i] = "deprecated" => image'[i] = "deprecated"
  BY ImagesLast
<1>1. ASSUME NEW b \in Builds, ImageMade(b) PROVE FamilyInv'
  <2>1. OlderInv'
    BY <1>0, <1>1 DEF ImageMade, Goto, OlderInv, Existing, Images
  <2>2. OwedInv'
    BY <1>0, <1>1 DEF ImageMade, Goto, OwedInv
  <2>3. ReachInv'
    <3>1. SUFFICES ASSUME ~raced' PROVE ReachInv'
      BY DEF ReachInv
    <3>2. ~raced /\ \A c \in Builds : pc[c] # "list"
      BY <1>1, <3>1 DEF ImageMade
    <3>3. Existing' = Existing \cup {b}
      BY <1>1 DEF ImageMade, Existing, Images
    <3> QED BY <1>1, <3>2, <3>3 DEF ImageMade, Goto, OlderInv, ReachInv
  <2>4. NewestInv'
    BY <1>0, <1>1 DEF ImageMade, Goto, OlderInv, NewestInv, Existing, Images
  <2> QED BY <2>1, <2>2, <2>3, <2>4
<1>2. ASSUME NEW b \in Builds, ListPage(b) \/ ListEnds(b) PROVE FamilyInv'
  <2>1. OlderInv'
    BY <1>2 DEF ListPage, ListEnds, Goto, OlderInv, Existing, world, history
  <2>2. CASE ListEnds(b)
    <3>1. OwedInv'
      BY <2>2 DEF ListEnds, Goto, OwedInv, world, history
    <3> QED
      BY <2>1, <2>2, <3>1
         DEF ListEnds, Goto, ReachInv, NewestInv, Existing, world, history
  <2>3. CASE ListPage(b)
    <3>1. PICK i \in unread[b] :
            /\ unread' = [unread EXCEPT ![b] = @ \ {i}]
            /\ todo' = [todo EXCEPT ![b] =
                          IF Listed(b, i) THEN @ \cup {i} ELSE @]
      BY <2>3 DEF ListPage
    <3>2. /\ pc[b] = "list" /\ UNCHANGED <<pc, image, ops, older, newest>>
          /\ UNCHANGED <<raced, awaiting>>
      BY <2>3 DEF ListPage, world, history
    <3>3. i \in older[b] => image[i] = "deprecated" \/ Listed(b, i)
      BY <3>1 DEF Listed, OlderInv, Existing
    <3>4. OwedInv'
      BY <3>1, <3>2, <3>3 DEF OwedInv
    <3>5. ~raced /\ Listed(b, i) => i \in older[b]
      BY <3>1, <3>2 DEF Listed, ReachInv, Existing
    <3>6. ReachInv'
      BY <3>1, <3>2, <3>5 DEF ReachInv, Existing
    <3> QED BY <2>1, <3>2, <3>4, <3>6 DEF NewestInv
  <2> QED BY <1>2, <2>2, <2>3
<1>3. ASSUME NEW b \in Builds, Request(b) PROVE FamilyInv'
  <2>1. OlderInv'
    BY <1>3 DEF Request, OlderInv, Existing, history
  <2>2. OwedInv'
    BY <1>3 DEF Request, OwedInv, history
  <2>3. ReachInv'
    BY <1>3 DEF Request, ReachInv, Existing, history
  <2>4. NewestInv'
    BY <1>3 DEF Request, NewestInv, history
  <2> QED BY <2>1, <2>2, <2>3, <2>4
<1>4. ASSUME NEW b \in Builds, AllRequested(b) PROVE FamilyInv'
  BY <1>4 DEF AllRequested, Goto, OlderInv, OwedInv, ReachInv, NewestInv,
              Existing, world, history
<1>5. ASSUME NEW b \in Builds, DeadlinePasses(b) PROVE FamilyInv'
  BY <1>5 DEF DeadlinePasses, OlderInv, OwedInv, ReachInv, NewestInv,
              Existing, world, history
<1>6. ASSUME NEW b \in Builds, WaitForOp(b) PROVE FamilyInv'
  <2>1. OlderInv'
    BY <1>6 DEF WaitForOp, NextOne, GiveUp, OlderInv, Existing, world, history
  <2>2. OwedInv'
    BY <1>6 DEF WaitForOp, NextOne, GiveUp, OwedInv, world, history
  <2>3. ReachInv'
    <3>1. \A c \in Builds : pc'[c] = "list" => pc[c] = "list"
      BY <1>6 DEF WaitForOp, NextOne, GiveUp
    <3> QED BY <1>6, <3>1 DEF WaitForOp, ReachInv, Existing, world, history
  <2>4. NewestInv'
    BY <1>6 DEF WaitForOp, NewestInv, world, history
  <2> QED BY <2>1, <2>2, <2>3, <2>4
<1>7. ASSUME NEW b \in Builds, Deprecated(b) PROVE FamilyInv'
  BY <1>7 DEF Deprecated, Goto, OlderInv, OwedInv, ReachInv, NewestInv,
              Existing, world, history
<1>8. ASSUME NEW b \in Builds, Fails(b) PROVE FamilyInv'
  <2>1. OlderInv'
    BY <1>8 DEF Fails, Goto, OlderInv, Existing, world, history
  <2>2. OwedInv'
    BY <1>8 DEF Fails, Goto, OwedInv, world, history
  <2>3. ReachInv'
    BY <1>8 DEF Fails, Goto, ReachInv, Existing, world, history
  <2>4. NewestInv'
    BY <1>8 DEF Fails, NewestInv, world, history
  <2> QED BY <2>1, <2>2, <2>3, <2>4
<1>9. ASSUME NEW b \in Builds, Retry(b) PROVE FamilyInv'
  BY <1>9 DEF Retry, Goto, OlderInv, OwedInv, ReachInv, NewestInv,
              Existing, world, history
<1>10. ASSUME NEW b \in Builds, NEW i \in Images, OperationDone(b, i)
       PROVE  FamilyInv'
  <2>1. OlderInv'
    BY <1>0, <1>10 DEF OperationDone, OlderInv, builds, history
  <2>2. OwedInv'
    BY <1>0, <1>10 DEF OperationDone, OwedInv, builds, history
  <2>3. ReachInv'
    <3>1. SUFFICES ASSUME ~raced PROVE ReachInv'
      BY <1>10 DEF OperationDone, ReachInv, history
    <3>2. i \in Existing
      BY <1>10, <3>1 DEF OperationDone, ReachInv, OlderInv
    <3>3. Existing' = Existing
      BY <1>10, <3>2 DEF OperationDone, Existing
    <3> QED BY <1>10, <3>1, <3>3 DEF OperationDone, ReachInv, builds, history
  <2>4. NewestInv'
    <3>1. SUFFICES ASSUME newest # NoImage PROVE NewestInv'
      BY <1>10 DEF OperationDone, NewestInv, history
    <3>2. newest = i => raced
      BY <1>10, <3>1 DEF OperationDone, ReachInv, NewestInv
    <3> QED BY <1>10, <3>1, <3>2
            DEF OperationDone, NewestInv, history, Images
  <2> QED BY <2>1, <2>2, <2>3, <2>4
<1>11. ASSUME NEW b \in Builds, NEW i \in Images, OperationFails(b, i)
       PROVE  FamilyInv'
  BY <1>11 DEF OperationFails, OlderInv, OwedInv, ReachInv, NewestInv,
               Existing, builds, history
<1>12. CASE UNCHANGED vars
  BY <1>12 DEF vars, OlderInv, OwedInv, ReachInv, NewestInv, Existing, builds,
               world, history
<1> QED
  BY <1>1, <1>2, <1>3, <1>4, <1>5, <1>6, <1>7, <1>8, <1>9, <1>10, <1>11,
     <1>12 DEF Next, Build, Over

\* FamilyInv holds throughout.
LEMMA FamilyInvHolds == Spec => [](TypeOK /\ FamilyInv)
<1>1. Init => TypeOK /\ FamilyInv
  BY InitTyped, InitFamily
<1>2. TypeOK /\ FamilyInv /\ [Next]_vars => (TypeOK /\ FamilyInv)'
  BY NextTyped, NextFamily
<1> QED BY <1>1, <1>2, PTL DEF Spec

\* A deprecation that is reported as done is done, for every family and any
\* number of builds (deprecateInFamily, waitForOps).
THEOREM ReportedIsDeprecated == Spec => []SuccessMeansDeprecated
<1>1. FamilyInv => SuccessMeansDeprecated
  BY DEF FamilyInv, OwedInv, SuccessMeansDeprecated
<1> QED BY <1>1, FamilyInvHolds, PTL

\* Builds that do not race keep the newest image usable, whatever fails
\* (the filter of deprecateInFamily).
THEOREM NewestStaysLive == Spec => []NewestIsLive
<1>1. FamilyInv => NewestIsLive
  BY DEF FamilyInv, NewestInv, NewestIsLive
<1> QED BY <1>1, FamilyInvHolds, PTL
=============================================================================
