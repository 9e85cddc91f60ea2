\* Two replicas, the four seeded rows, two kills and an outage.
SPECIFICATION FairSpec
CONSTANTS
  Replica = {a1, a2}
  Seeds = 4
  MaxKills = 2
  MaxOutages = 1
INVARIANT ListeningMeansSeeded
PROPERTIES EditsSurvive EveryReplicaListens
