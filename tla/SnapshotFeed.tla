----------------------------- MODULE SnapshotFeed -----------------------------
(***************************************************************************)
(* What a provider's agent is promised: the snapshots of the provider have *)
(* versions that only grow (with gaps), the agent holds one of them as it  *)
(* was published, and while it runs it only ever moves forward.            *)
(***************************************************************************)
EXTENDS Naturals

CONSTANTS
  Contents,  \* what a snapshot may hold
  Nothing    \* what an agent holds before its first snapshot

VARIABLES
  feed,  \* the snapshots published, by version
  held,  \* the version the running agent applied last, 0 for none
  shown  \* the content it applied last

feedVars == <<feed, held, shown>>

\* Nothing was published yet, or what an agent holds before its first snapshot.
FeedInit ==
  /\ \E n \in 0 .. 1 : feed = [v \in 1 .. n |-> Nothing]
  /\ held = 0
  /\ shown = Nothing

PublishNext ==
  /\ \E v \in DOMAIN feed' \ DOMAIN feed, c \in Contents :
       /\ \A w \in DOMAIN feed : w < v
       /\ feed' = [w \in DOMAIN feed \cup {v} |-> IF w = v THEN c ELSE feed[w]]
  /\ UNCHANGED <<held, shown>>

HoldLater ==
  /\ \E v \in DOMAIN feed :
       /\ v >= held
       /\ held' = v
       /\ shown' = feed[v]
  /\ UNCHANGED feed

\* The agent process ends and starts again.
Forget ==
  /\ held' = 0
  /\ shown' = Nothing
  /\ UNCHANGED feed

FeedNext == PublishNext \/ HoldLater \/ Forget

FeedSpec == FeedInit /\ [][FeedNext]_feedVars
=============================================================================
