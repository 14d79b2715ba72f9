---------------------------- MODULE MCTrustScenes ----------------------------
(* Three scenes of one store.  In "imports" one command runs at a time, on   *)
(* bundles of two authorities; in "race" two run at once, on bundles of one; *)
(* in "own" one at a time in a workspace with a key of its own, which        *)
(* issues bundles and takes them back in.                                    *)
EXTENDS MCTrustStore

VARIABLE scene

SceneKeys ==
  [imports |-> {root, heir, signer}, race |-> {root, signer}, own |-> {signer, own}]

SceneBundles == [imports |-> MCBundles, race |-> RaceBundles, own |-> {}]

AllBundles == MCBundles \cup RaceBundles

InScene ==
  /\ \A p \in Procs : job[p] # None =>
       /\ job[p].key \in SceneKeys[scene]
       /\ job[p].bundle \in SceneBundles[scene] \cup issued \cup {None}
  /\ scene = "race" => clock < MaxTime
  /\ scene # "race" => \A p, q \in Procs : At(p, "idle") \/ At(q, "idle") \/ p = q

SceneInit == Init /\ scene \in DOMAIN SceneKeys

SceneNext == Next /\ UNCHANGED scene /\ InScene'

SceneSpec == SceneInit /\ [][SceneNext]_<<vars, scene>>
=============================================================================
