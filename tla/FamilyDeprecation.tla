-------------------------- MODULE FamilyDeprecation --------------------------
(***************************************************************************)
(* What finish-image-build does to the other images of the image family    *)
(* (src/pkg/gce/gce.go: deprecateInFamily, waitForOps, waitForOp), for     *)
(* several builds into one family at a time.  A build is named after the   *)
(* image it makes.  Requests start operations, which Compute Engine ends   *)
(* in any order, well or not, at any later time or never; a build may fail *)
(* or be killed anywhere and be run again.                                 *)
(*                                                                         *)
(* Images come in the order of the list that Compute Engine gives, which   *)
(* may be any; so may here the order in which operations are waited for,   *)
(* as success needs all of them and one that failed or is late ends it.    *)
(***************************************************************************)
CONSTANTS
  Old,     \* images of the family that were there before
  Builds,  \* bound: the builds, and the images that they make
  NoImage

Images == Old \cup Builds

ASSUME FamilyAssumption == Old \cap Builds = {} /\ NoImage \notin Images

VARIABLES
  image,        \* each image: absent, live or deprecated
  replacement,  \* of a deprecated image
  pc,           \* where each build is
  unread,       \* images that no page of its list has come to
  todo,         \* images that a build has listed and not come to
  awaiting,     \* images whose operations it has not seen end
  late,         \* its deadline has passed
  ops,          \* operations of a build on an image
  older,        \* history: the images there were when an image was made
  newest,       \* history: the image made last, or NoImage
  raced         \* history: an image was made before the end of a list and
                \* after the image for whose sake the list is

builds == <<pc, unread, todo, awaiting, late>>
world  == <<image, replacement, ops>>
history == <<older, newest, raced>>
vars == <<builds, world, history>>

Active == {"build", "list", "request", "wait"}
Ended  == {"ok", "failed", "exists"}

TypeOK ==
  /\ image \in [Images -> {"absent", "live", "deprecated"}]
  /\ replacement \in [Images -> Builds \cup {NoImage}]
  /\ pc \in [Builds -> Active \cup Ended]
  /\ unread \in [Builds -> SUBSET Images]
  /\ todo \in [Builds -> SUBSET Images]
  /\ awaiting \in [Builds -> SUBSET Images]
  /\ late \in [Builds -> BOOLEAN]
  /\ ops \in [Builds -> [Images -> {"none", "pending", "done", "error"}]]
  /\ older \in [Builds -> SUBSET Images]
  /\ newest \in Builds \cup {NoImage}
  /\ raced \in BOOLEAN

Init ==
  /\ image \in [Images -> {"absent", "live", "deprecated"}]
  /\ \A i \in Images : image[i] = "absent" <=> i \in Builds
  /\ replacement = [i \in Images |-> NoImage]
  /\ pc = [b \in Builds |-> "build"]
  /\ unread = [b \in Builds |-> {}]
  /\ todo = [b \in Builds |-> {}]
  /\ awaiting = [b \in Builds |-> {}]
  /\ late = [b \in Builds |-> FALSE]
  /\ ops = [b \in Builds |-> [i \in Images |-> "none"]]
  /\ older = [b \in Builds |-> {}]
  /\ newest = NoImage
  /\ raced = FALSE

-----------------------------------------------------------------------------
Goto(b, from, to) == pc[b] = from /\ pc' = [pc EXCEPT ![b] = to]
Existing == {i \in Images : image[i] # "absent"}

\* BuildImage has made the image.
ImageMade(b) ==
  /\ Goto(b, "build", "list")
  /\ image[b] = "absent"
  /\ image' = [image EXCEPT ![b] = "live"]
  /\ unread' = [unread EXCEPT ![b] = Images]
  /\ older' = [older EXCEPT ![b] = Existing]
  /\ newest' = b
  /\ raced' = (raced \/ \E c \in Builds : pc[c] = "list")
  /\ UNCHANGED <<todo, awaiting, late, replacement, ops>>

\* Mutation: the new image is not left out.
ListAll(b, i) == image[i] = "live"

\* The images of the family but the new one; deprecated ones are passed over.
Listed(b, i) == i # b /\ image[i] = "live"

\* The list comes page by page, each showing its images as they are then.
ListPage(b) ==
  /\ pc[b] = "list"
  /\ \E i \in unread[b] :
       /\ unread' = [unread EXCEPT ![b] = @ \ {i}]
       /\ todo' = [todo EXCEPT ![b] = IF Listed(b, i) THEN @ \cup {i} ELSE @]
  /\ UNCHANGED <<pc, awaiting, late, world, history>>

ListEnds(b) ==
  /\ Goto(b, "list", "request")
  /\ unread[b] = {}
  /\ UNCHANGED <<unread, todo, awaiting, late, world, history>>

\* Images.Deprecate answers with an operation.
Request(b) ==
  /\ pc[b] = "request"
  /\ \E i \in todo[b] :
       /\ todo' = [todo EXCEPT ![b] = @ \ {i}]
       /\ awaiting' = [awaiting EXCEPT ![b] = @ \cup {i}]
       /\ ops' = [ops EXCEPT ![b][i] = "pending"]
  /\ UNCHANGED <<pc, unread, late, image, replacement, history>>

\* waitForOps sets one deadline for all operations.
AllRequested(b) ==
  /\ Goto(b, "request", "wait")
  /\ todo[b] = {}
  /\ late' = [late EXCEPT ![b] = FALSE]
  /\ UNCHANGED <<unread, todo, awaiting, world, history>>

DeadlinePasses(b) ==
  /\ pc[b] = "wait" /\ ~late[b]
  /\ late' = [late EXCEPT ![b] = TRUE]
  /\ UNCHANGED <<pc, unread, todo, awaiting, world, history>>

NextOne(b, i) == awaiting' = [awaiting EXCEPT ![b] = @ \ {i}] /\ UNCHANGED pc
GiveUp(b) == pc' = [pc EXCEPT ![b] = "failed"] /\ UNCHANGED awaiting

\* Mutation: the end of an operation is taken for its success.
WaitForOpAnyEnd(b) ==
  /\ pc[b] = "wait"
  /\ \E i \in awaiting[b] :
       \/ ops[b][i] \in {"done", "error"} /\ NextOne(b, i)
       \/ ops[b][i] = "pending" /\ late[b] /\ GiveUp(b)
  /\ UNCHANGED <<unread, todo, late, world, history>>

\* Mutation: there is no deadline.
WaitForOpLong(b) ==
  /\ pc[b] = "wait"
  /\ \E i \in awaiting[b] :
       \/ ops[b][i] = "done" /\ NextOne(b, i)
       \/ ops[b][i] = "error" /\ GiveUp(b)
  /\ UNCHANGED <<unread, todo, late, world, history>>

\* The operation is asked for its end before the deadline is looked at.
WaitForOp(b) ==
  /\ pc[b] = "wait"
  /\ \E i \in awaiting[b] :
       \/ ops[b][i] = "done" /\ NextOne(b, i)
       \/ ops[b][i] = "error" /\ GiveUp(b)
       \/ ops[b][i] = "pending" /\ late[b] /\ GiveUp(b)
  /\ UNCHANGED <<unread, todo, late, world, history>>

Deprecated(b) ==
  /\ Goto(b, "wait", "ok")
  /\ awaiting[b] = {}
  /\ UNCHANGED <<unread, todo, awaiting, late, world, history>>

\* An error of any call, or the end of the container.  What has been
\* requested goes on.
Fails(b) ==
  /\ \E p \in Active : Goto(b, p, "failed")
  /\ unread' = [unread EXCEPT ![b] = {}]
  /\ todo' = [todo EXCEPT ![b] = {}]
  /\ awaiting' = [awaiting EXCEPT ![b] = {}]
  /\ UNCHANGED <<late, world, history>>

\* finish-image-build once more: an image that exists is a success at once,
\* whether or not the old images were deprecated.
Retry(b) ==
  /\ Goto(b, "failed", IF image[b] = "absent" THEN "build" ELSE "exists")
  /\ UNCHANGED <<unread, todo, awaiting, late, world, history>>

\* Mutation: an image is named as its own replacement.
OperationDoneSelf(b, i) ==
  /\ ops[b][i] = "pending"
  /\ ops' = [ops EXCEPT ![b][i] = "done"]
  /\ image' = [image EXCEPT ![i] = "deprecated"]
  /\ replacement' = [replacement EXCEPT ![i] = i]
  /\ UNCHANGED <<builds, history>>

\* Compute Engine ends an operation.
OperationDone(b, i) ==
  /\ ops[b][i] = "pending"
  /\ ops' = [ops EXCEPT ![b][i] = "done"]
  /\ image' = [image EXCEPT ![i] = "deprecated"]
  /\ replacement' = [replacement EXCEPT ![i] = b]
  /\ UNCHANGED <<builds, history>>

OperationFails(b, i) ==
  /\ ops[b][i] = "pending"
  /\ ops' = [ops EXCEPT ![b][i] = "error"]
  /\ UNCHANGED <<builds, image, replacement, history>>

Build(b) ==
  \/ ImageMade(b) \/ ListPage(b) \/ ListEnds(b) \/ Request(b)
  \/ AllRequested(b) \/ DeadlinePasses(b) \/ WaitForOp(b) \/ Deprecated(b)
  \/ Fails(b) \/ Retry(b)

Over == (\A b \in Builds : pc[b] \in Ended) /\ UNCHANGED vars

Next ==
  \/ \E b \in Builds : Build(b)
  \/ \E b \in Builds, i \in Images :
       OperationDone(b, i) \/ OperationFails(b, i)
  \/ Over

Spec == Init /\ [][Next]_vars

\* The loops go on and time passes; no operation need ever end.
Fairness ==
  \A b \in Builds :
    /\ WF_vars(Request(b)) /\ WF_vars(AllRequested(b))
    /\ WF_vars(DeadlinePasses(b))
    /\ WF_vars(WaitForOp(b)) /\ WF_vars(Deprecated(b))

FairSpec == Spec /\ Fairness

-----------------------------------------------------------------------------
(* Properties.                                                             *)

\* "DeprecateInFamily deprecates all of the old images in an image family"
\* (gce.go:138): when it says that it has, each image that was there before
\* the new one is deprecated, by this build or by another, although requests
\* and their effects are apart (waitForOps).
SuccessMeansDeprecated ==
  \A b \in Builds : pc[b] = "ok" =>
    \A i \in older[b] : image[i] = "deprecated"

\* Whatever fails and however late operations end, the newest image of the
\* family stays usable, unless another build had made its image and not come
\* to the end of its list of the family when this one was made.
NewestIsLive == newest # NoImage /\ ~raced => image[newest] = "live"

\* The same line without the exception: only old images are deprecated, never
\* one that is newer than the image for whose sake it is done.
OnlyOldDeprecated ==
  \A i \in Images : replacement[i] # NoImage => i \in older[replacement[i]]

\* A build waits for its operations no longer than its deadline, although
\* they may never end.
WaitEnds ==
  \A b \in Builds : pc[b] = "wait" ~> pc[b] \in Ended
=============================================================================
