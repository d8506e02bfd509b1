-------------------------- MODULE ImageInspection --------------------------
(***************************************************************************)
(* The two inspections of a built image in .github/workflows/                *)
(* publish-image.yml: a container is created from the image and never       *)
(* started, exported, checked and removed.  Every docker call may fail, or  *)
(* time out after 120 s while the daemon still carries it out.  The Intranet *)
(* inspection (inspect_intranet_image) finds its container again only by    *)
(* name and owner, and reports for recovery what it cannot prove gone; the  *)
(* Web inspection (inspect) removes by name and only fails.                 *)
(*                                                                         *)
(* Definitions named <Definition>_<slip> are the definition they precede    *)
(* with a plausible slip in it; nothing uses them.                          *)
(***************************************************************************)

VARIABLES
  daemon,     \* the container on the daemon; "removing" a removal whose caller
              \* got no answer, "leaving" one the daemon has answered
  retagged,   \* the local tag of the built image was moved
  role,       \* which inspection applies to the caller
  pc,
  known,      \* container: its Id is known
  created,    \* created_identity: its Created time is known too
  passed,     \* the body reached its return
  receipt     \* NoReceipt, or the recovery receipt

code == <<role, known, created, passed, receipt>>
vars == <<daemon, retagged, pc, code>>

Body == {"fence", "create", "own", "export", "verify"}
Finally == {"find", "ownFound", "lastFence", "remove", "checkGone", "forceRemove"}
NoReceipt == [none |-> TRUE]

Init ==
  /\ daemon = "absent"
  /\ role \in {"intranet", "web"}
  /\ pc = "fence"
  /\ retagged = FALSE /\ known = FALSE /\ created = FALSE /\ passed = FALSE
  /\ receipt = NoReceipt

-----------------------------------------------------------------------------
(* The daemon finishes, or drops, a request whose caller may be gone.       *)
DaemonSettles ==
  /\ \/ daemon = "creating" /\ daemon' \in {"exists", "absent"}
     \/ daemon = "removing" /\ daemon' \in {"exists", "absent"}
     \/ daemon = "leaving" /\ daemon' = "absent"
  /\ UNCHANGED <<retagged, pc, code>>

Retag ==
  /\ ~retagged /\ retagged' = TRUE
  /\ UNCHANGED <<daemon, pc, code>>

-----------------------------------------------------------------------------
Goes(from, to) == pc = from /\ pc' = to
Same == UNCHANGED <<daemon, retagged>>

(* The image Id and its label, before anything is asked of the daemon.      *)
Fence ==
  /\ \/ Goes("fence", "create") /\ (role = "intranet" => ~retagged)
     \/ Goes("fence", "failed")
  /\ Same /\ UNCHANGED code

Created ==
  /\ Goes("create", IF role = "intranet" THEN "own" ELSE "export")
  /\ daemon' = "exists" /\ known' = (role = "intranet")
  /\ UNCHANGED <<retagged, role, created, passed, receipt>>

(* Where the finally block starts.                                         *)
FinallyStep ==
  IF role = "web" THEN "forceRemove"
  ELSE IF known /\ created THEN "lastFence" ELSE "find"

(* create is lost on the way, times out, or answers something else.         *)
CreateFails ==
  /\ Goes("create", FinallyStep)
  /\ daemon' \in {"absent", "creating", "exists"}
  /\ UNCHANGED <<retagged, code>>

(* owned_record binds the Created time and container_fence repeats it.      *)
Own ==
  /\ Goes("own", "export")
  /\ daemon = "exists" /\ created' = TRUE
  /\ Same /\ UNCHANGED <<role, known, passed, receipt>>

Export == Goes("export", "verify") /\ Same /\ UNCHANGED code

(* The packaged files; for Intranet image_fence and container_fence again.  *)
Verify ==
  /\ Goes("verify", FinallyStep)
  /\ role = "intranet" => ~retagged /\ daemon = "exists"
  /\ passed' = TRUE
  /\ Same /\ UNCHANGED <<role, known, created, receipt>>

BodyFails ==
  /\ pc \in {"own", "export", "verify"}
  /\ pc' = FinallyStep
  /\ Same /\ UNCHANGED code

-----------------------------------------------------------------------------
(* The finally block of inspect_intranet_image: any exception in it becomes *)
(* ImageRecoveryRequired with what is known of the container.               *)
Recovery ==
  /\ pc' = "recovery"
  /\ receipt' = [containerId |-> known, mayBeInFlight |-> ~known]
  /\ UNCHANGED <<retagged, role, known, created, passed>>

Leave == pc' = (IF passed THEN "verified" ELSE "failed") /\ Same /\ UNCHANGED code

Listed == daemon \in {"exists", "removing", "leaving"}

(* container ls by the exact name: an empty list proves nothing.            *)
Find_emptyIsGone ==
  /\ pc = "find"
  /\ \/ Listed /\ pc' = "ownFound" /\ Same /\ UNCHANGED code
     \/ ~Listed /\ Leave

Find ==
  /\ pc = "find"
  /\ \/ Listed /\ pc' = "ownFound" /\ Same /\ UNCHANGED code
     \/ ~Listed /\ Recovery /\ UNCHANGED daemon

OwnFound ==
  /\ Goes("ownFound", "lastFence")
  /\ daemon = "exists"
  /\ known' = TRUE /\ created' = TRUE
  /\ Same /\ UNCHANGED <<role, passed, receipt>>

LastFence ==
  /\ Goes("lastFence", "remove")
  /\ daemon = "exists"
  /\ Same /\ UNCHANGED code

(* What docker rm leaves when it answers: the container, if it was still    *)
(* there, is gone or on its way out.                                        *)
AfterRemove == IF daemon = "exists" THEN {"absent", "leaving"} ELSE {daemon}

(* container rm: it may answer before the daemon is done with it.           *)
Remove ==
  /\ Goes("remove", "checkGone")
  /\ daemon = "exists" /\ daemon' \in AfterRemove
  /\ UNCHANGED <<retagged, code>>

RemoveFails ==
  /\ pc = "remove"
  /\ daemon' \in {"exists", "removing", "absent"}
  /\ Recovery

(* container ls by Id, then the body's result or its exception leaves.      *)
CheckGone ==
  /\ pc = "checkGone"
  /\ \/ ~Listed /\ Leave
     \/ Listed /\ Recovery /\ UNCHANGED daemon

FinallyFails ==
  /\ pc \in Finally \ {"remove", "forceRemove"}
  /\ Recovery
  /\ UNCHANGED daemon

(* The finally block of the Web inspection: container rm --force by name,   *)
(* which also answers when there is no such container, and nobody looks     *)
(* again.                                                                  *)
ForceRemove ==
  /\ pc = "forceRemove"
  /\ daemon' \in AfterRemove
  /\ pc' = IF passed THEN "verified" ELSE "failed"
  /\ UNCHANGED <<retagged, code>>

ForceRemoveFails ==
  /\ Goes("forceRemove", "failed")
  /\ daemon' \in {daemon} \cup (IF daemon = "exists" THEN {"removing", "absent"} ELSE {})
  /\ UNCHANGED <<retagged, code>>

(* The runner kills the step; a call it was making may still be carried out. *)
Kill ==
  /\ pc \in Body \cup Finally
  /\ pc' = "killed"
  /\ daemon' \in {daemon}
       \cup (IF pc = "create" THEN {"creating", "exists"} ELSE {})
       \cup (IF pc \in {"remove", "forceRemove"} /\ daemon = "exists"
             THEN {"removing", "absent"} ELSE {})
  /\ UNCHANGED <<retagged, code>>

CodeStep ==
  \/ Fence \/ Created \/ CreateFails \/ Own \/ Export \/ Verify \/ BodyFails
  \/ Find \/ OwnFound \/ LastFence \/ Remove \/ RemoveFails \/ CheckGone
  \/ FinallyFails \/ ForceRemove \/ ForceRemoveFails \/ Kill

Next == CodeStep \/ DaemonSettles \/ Retag

Spec == Init /\ [][Next]_vars

-----------------------------------------------------------------------------
(* An inspection that returns its result, and an Intranet inspection that   *)
(* fails without asking for recovery, leaves no container behind and no     *)
(* request of the daemon that could still create one.  The Web inspection   *)
(* does not look after its removal, so its container may still be on its    *)
(* way out; when it fails it may leave the container, as may a killed step. *)
NoSilentLeak ==
  pc = "verified" \/ (pc = "failed" /\ role = "intranet") =>
    daemon = "absent" \/ (role = "web" /\ daemon = "leaving")

(* A recovery receipt names the container by Id, or says that its creation  *)
(* may still be under way; when it says it is not, it is not.               *)
ReceiptIsTruthful ==
  pc = "recovery" =>
    /\ receipt.containerId \/ receipt.mayBeInFlight
    /\ daemon = "creating" => receipt.mayBeInFlight
=============================================================================
