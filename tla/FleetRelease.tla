--------------------------- MODULE FleetRelease ---------------------------
(***************************************************************************)
(* What the deploy orchestrator promises of a fleet whose groups nobody    *)
(* edits, without a word of tasks, threads, waves or requests: when the    *)
(* image of an instance may change, and what the rows of the deploys say   *)
(* of it meanwhile.  Where the fleet cannot always be listed, a release    *)
(* may miss instances without saying so: they are all it may leave out.    *)
(* DeployPipeline implements it.                                           *)
(***************************************************************************)
CONSTANTS Releases, Instances, Tags, Modes,
          MayMiss  \* TRUE where the fleet cannot always be listed

VARIABLES
    release,  \* the row of each release: status, mode, its tag, the tag to go back to
    image,    \* of each instance
    passed,   \* per release, the instances its last checks found healthy
    missed,   \* per release, the instances it went past because it could not list them
    undo,     \* per release, the instances a rollback has still to take back
    before,   \* the instances that come before each instance
    listed    \* the instances a complete release has been to

vars == <<release, image, passed, missed, undo, before, listed>>

Nothing == [r \in Releases |-> {}]

Init ==
    /\ \A r \in Releases : release[r].status = "none"
    /\ image \in [Instances -> Tags]
    /\ passed = Nothing
    /\ missed = Nothing
    /\ undo = Nothing
    /\ before \in [Instances -> SUBSET Instances]
    /\ listed \in SUBSET Instances

Exists(r) == release[r].status # "none"

Active(r) == release[r].status \in {"pending", "canary", "rolling", "paused"}

\* The release may still change the fleet. A failed one and one that was rolled back
\* may, by calls that are still under way; one that shows a pause or its
\* completion may not.
Moving(r) == Exists(r) /\ release[r].status \notin {"paused", "complete"}

\* Releases that are checked.
Gated(r) == release[r].mode \in {"normal", "canary-only"}

Fleet == <<image, undo, before, listed>>

Marks(r, status) == release' = [release EXCEPT ![r].status = status]

\* A release starts when no other is active. Its way back is a tag of the fleet.
Start(r) ==
    /\ \A s \in Releases : ~Active(s)
    /\ ~Exists(r)
    /\ \E tag \in Tags, mode \in Modes, prev \in {image[i] : i \in Instances} :
          release' = [release EXCEPT ![r] = [status |-> "pending", tag |-> tag, prev |-> prev,
                                             mode |-> mode]]
    /\ UNCHANGED <<Fleet, passed, missed>>

Continue(r) ==
    /\ release[r].status = "paused"
    /\ Marks(r, "rolling")
    /\ UNCHANGED <<Fleet, passed, missed>>

\* Instances the release goes past.
Misses(r) ==
    \E S \in SUBSET Instances :
        /\ S # {} => MayMiss
        /\ missed' = [missed EXCEPT ![r] = @ \cup S]

Advance(r) ==
    /\ Moving(r)
    /\ Marks(r, "canary") \/ Marks(r, "rolling")
    /\ Misses(r)
    /\ UNCHANGED <<Fleet, passed>>

\* The image of each instance in S is rolled out: by a release that may change the
\* fleet, and after whoever comes before the instance has passed or was missed.
RollsOut(S) ==
    /\ image' \in [Instances -> Tags]
    /\ \A i \in Instances \ S : image'[i] = image[i]
    /\ \A i \in S : \E r \in Releases :
          /\ Moving(r) /\ image'[i] = release[r].tag
          /\ Gated(r) => before[i] \subseteq passed[r] \cup missed[r]
    /\ UNCHANGED <<release, passed, missed, before, listed>>

RollOut(i) == RollsOut({i}) /\ UNCHANGED undo

\* A check that all pass, and one that some do not.  Who is checked is missed no more.
Check(r) ==
    /\ Moving(r)
    /\ \E S \in SUBSET Instances :
          /\ passed' = [passed EXCEPT ![r] = @ \cup S]
          /\ missed' = [missed EXCEPT ![r] = @ \ S]
    /\ UNCHANGED <<Fleet, release>>

Pause(r) ==
    /\ Moving(r)
    /\ Marks(r, "paused")
    /\ \E S \in SUBSET Instances : passed' = [passed EXCEPT ![r] = S]
    /\ \E S \in SUBSET Instances : missed' = [missed EXCEPT ![r] = @ \ S]
    /\ UNCHANGED Fleet

Complete(r) ==
    /\ Moving(r)
    /\ Misses(r)
    /\ release[r].mode = "normal" => listed \subseteq passed[r] \cup missed'[r]
    /\ Marks(r, "complete")
    /\ UNCHANGED <<Fleet, passed>>

Fail(r) ==
    /\ Exists(r)
    /\ Marks(r, "failed")
    /\ UNCHANGED <<Fleet, passed, missed>>

\* A rollback takes back the instances that have the tag when it is asked for, each
\* once, to what the fleet had before.  It may miss them too, all at once.
RollBack(r) ==
    /\ Active(r)
    /\ Marks(r, "rolled_back")
    /\ \/ undo' = [undo EXCEPT ![r] = @ \cup {i \in Instances : image[i] = release[r].tag}]
       \/ MayMiss /\ UNCHANGED undo
    /\ UNCHANGED <<image, passed, missed, before, listed>>

TakeBack(r, i) ==
    /\ Exists(r) /\ i \in undo[r]
    /\ undo' = [undo EXCEPT ![r] = @ \ {i}]
    /\ image' \in {image, [image EXCEPT ![i] = release[r].prev]}
    /\ UNCHANGED <<release, passed, missed, before, listed>>

\* The service stops: what it was about to roll out is, or is not; what it was about
\* to take back is not.
Crash ==
    /\ \E S \in SUBSET Instances : RollsOut(S)
    /\ undo' = Nothing

Next ==
    \/ \E r \in Releases :
          \/ Start(r) \/ Continue(r) \/ Advance(r) \/ Check(r) \/ Pause(r)
          \/ Complete(r) \/ Fail(r) \/ RollBack(r)
          \/ \E i \in Instances : TakeBack(r, i)
    \/ \E i \in Instances : RollOut(i)
    \/ Crash

Spec == Init /\ [][Next]_vars

=============================================================================
