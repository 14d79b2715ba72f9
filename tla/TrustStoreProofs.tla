-------------------------- MODULE TrustStoreProofs --------------------------
(***************************************************************************)
(* Proofs about TrustStore, for any keys, bundles and times.               *)
(*                                                                         *)
(* All are for any number of commands at once.  The types, that what       *)
(* produce signs passes examine, and that trust starts with an issuer a    *)
(* user named hold of every step.  That no revocation is taken back, that  *)
(* a revoked authority stays out, that accepted bundles are applied and go *)
(* forward, and so that the store is the one TrustPromise describes, hold  *)
(* of every step but the write of a command that another overtook: nothing *)
(* locks the store, and a command that nobody overtook relies on what it   *)
(* read (Fresh).                                                           *)
(***************************************************************************)
EXTENDS TrustStore, TLAPS

PCs == {"idle", "private", "pubs", "load", "save", "accept", "sign"}

Types ==
  /\ policy \in [Keys -> Entries] /\ doubled \in BOOLEAN
  /\ pub \in [Keys -> Files] /\ priv \in [Own -> Files]
  /\ accepted \in [Keys -> BundleType \cup {None, Torn}]
  /\ clock \in Times
  /\ pc \in [Procs -> PCs]
  /\ job \in [Procs -> Jobs \cup {None}]
  /\ todo \in [Procs -> SUBSET Keys]
  /\ mem \in [Procs -> [Keys -> Entries] \cup {None}]
  /\ issued \subseteq BundleType /\ pinned \subseteq Keys /\ history \subseteq BundleType
  /\ overtaken \subseteq Procs

\* What a command at l has, when its job is j and its loaded policy m.
Equipped(l, j, m) ==
  /\ l # "idle" => j \in Jobs
  /\ l \in {"private"} => j.cmd = "generate" /\ j.key \in Own
  /\ l \in {"pubs", "load", "save"} => j.cmd \in {"generate", "import", "revoke", "bundle"}
  /\ l \in {"pubs", "load", "save", "accept"} /\ j.cmd = "bundle" => j.bundle \in BundleType
  /\ l = "accept" => j.cmd = "bundle"
  /\ l = "sign" => j.cmd = "produce" /\ j.key \in Own
  /\ l = "save" => m \in [Keys -> Entries]

AllEquipped == \A p \in Procs : Equipped(pc[p], job[p], mem[p])

TInv == Types /\ AllEquipped

\* The entries.
LEMMA EntryFacts ==
  /\ Absent \in Entries /\ Trusted \in Entries
  /\ \A t \in 0 .. MaxTime : Revoked(t) \in Entries /\ IsRevoked(Revoked(t))
  /\ ~IsRevoked(Absent) /\ ~IsRevoked(Trusted) /\ Absent # Trusted
  /\ \A t \in 0 .. MaxTime : Revoked(t) # Absent /\ Revoked(t) # Trusted
  /\ \A e \in Entries : IsRevoked(e) <=> e # Absent /\ e # Trusted
<1>1. \A t : Revoked(t).status = "revoked"
  BY DEF Revoked
<1>2. Absent.status = "absent" /\ Trusted.status = "trusted"
  BY DEF Absent, Trusted
<1>3. Absent \in Entries /\ Trusted \in Entries /\ \A t \in 0 .. MaxTime : Revoked(t) \in Entries
  BY DEF Entries
<1>4. \A e \in Entries : e = Absent \/ e = Trusted \/ \E t \in 0 .. MaxTime : e = Revoked(t)
  BY DEF Entries
<1> QED BY <1>1, <1>2, <1>3, <1>4 DEF IsRevoked

\* trust::import never takes a revocation back, never drops a key and applies
\* every statement of the bundle to a key that is not revoked yet.
LEMMA MergeFacts ==
  ASSUME NEW e \in Entries, NEW b \in Entries
  PROVE  /\ Merge(e, b) \in Entries
         /\ IsRevoked(e) => IsRevoked(Merge(e, b))
         /\ IsRevoked(b) => IsRevoked(Merge(e, b))
         /\ e # Absent => Merge(e, b) # Absent
         /\ b # Absent => Merge(e, b) # Absent
<1>1. e = Absent \/ e = Trusted \/ IsRevoked(e)
  BY EntryFacts
<1>2. b = Absent \/ b = Trusted \/ IsRevoked(b)
  BY EntryFacts
<1> QED BY <1>1, <1>2, EntryFacts DEF Merge

\* A step of one command: the others keep what they have.
LEMMA OneEquipped ==
  ASSUME TInv, NEW p \in Procs, NEW l \in PCs, NEW j, NEW m,
         pc' = [pc EXCEPT ![p] = l],
         job' = [job EXCEPT ![p] = j] , mem' = [mem EXCEPT ![p] = m],
         Equipped(l, j, m)
  PROVE  AllEquipped'
<1>1. \A q \in Procs : q # p => pc'[q] = pc[q] /\ job'[q] = job[q] /\ mem'[q] = mem[q]
  BY DEF TInv, Types
<1>2. pc'[p] = l /\ job'[p] = j /\ mem'[p] = m
  BY DEF TInv, Types
<1> QED BY <1>1, <1>2 DEF TInv, AllEquipped

\* A command ends.
LEMMA DoneEquipped ==
  ASSUME TInv, NEW p \in Procs, Done(p)
  PROVE  /\ AllEquipped'
         /\ pc' \in [Procs -> PCs] /\ job' \in [Procs -> Jobs \cup {None}]
         /\ todo' \in [Procs -> SUBSET Keys] /\ mem' \in [Procs -> [Keys -> Entries] \cup {None}]
<1>1. Equipped("idle", None, None)
  BY DEF Equipped
<1>2. AllEquipped'
  BY <1>1, OneEquipped DEF Done, Goto, PCs
<1> QED BY <1>2 DEF TInv, Types, Done, Goto, PCs

\* A command starts.
LEMMA StartEquipped ==
  ASSUME TInv, NEW p \in Procs, NEW l \in PCs, NEW j \in Jobs, NEW ks \in SUBSET Keys,
         Start(p, l, j, ks), Equipped(l, j, mem[p])
  PROVE  /\ AllEquipped' /\ overtaken' \subseteq Procs
         /\ pc' \in [Procs -> PCs] /\ job' \in [Procs -> Jobs \cup {None}]
         /\ todo' \in [Procs -> SUBSET Keys] /\ mem' \in [Procs -> [Keys -> Entries] \cup {None}]
<1>1. mem' = [mem EXCEPT ![p] = mem[p]]
  BY DEF TInv, Types, Start
<1>2. AllEquipped'
  BY <1>1, OneEquipped DEF Start, Goto
<1> QED BY <1>2 DEF TInv, Types, Start, Goto

\* Only commands are overtaken.
LEMMA OvertakesTypes ==
  ASSUME TInv, NEW p \in Procs, Overtakes(p)
  PROVE  overtaken' \subseteq Procs
BY DEF TInv, Types, Overtakes

\* A command goes on with the job it has.
LEMMA GotoEquipped ==
  ASSUME TInv, NEW p \in Procs, NEW l \in PCs, Goto(p, l), UNCHANGED <<job, mem>>,
         Equipped(l, job[p], mem[p])
  PROVE  AllEquipped' /\ pc' \in [Procs -> PCs]
<1>1. mem' = [mem EXCEPT ![p] = mem[p]] /\ job' = [job EXCEPT ![p] = job[p]]
  BY DEF TInv, Types
<1>2. AllEquipped'
  BY <1>1, OneEquipped DEF Goto
<1> QED BY <1>2 DEF TInv, Types, Goto

----------------------------------------------------------------------------
(* The types, one lemma for the start of a command and one for its steps.  *)

\* The initial types.
LEMMA TInvInit == Init => TInv
<1> SUFFICES ASSUME Init PROVE TInv
  OBVIOUS
<1>1. Types
  <2>1. clock \in Times
    BY TrustAssumption DEF Init, Times
  <2>2. policy \in [Keys -> Entries]
    BY EntryFacts DEF Init
  <2> QED BY <2>1, <2>2 DEF Init, Types, Files, PCs
<1>2. AllEquipped
  BY DEF Init, AllEquipped, Equipped
<1> QED BY <1>1, <1>2 DEF TInv

\* Every command starts with a job of its kind.
LEMMA CommandTypes ==
  ASSUME TInv, NEW p \in Procs, Command(p)
  PROVE  TInv'
<1>1. Types
  BY DEF TInv
<1>2. ASSUME NEW k \in Own, Generate(p, k) PROVE TInv'
  <2>1. Job("generate", k) \in Jobs /\ k \in Keys
    BY TrustAssumption DEF Job, Jobs
  <2>2. Equipped("private", Job("generate", k), mem[p])
    BY <2>1 DEF Equipped, Job
  <2> QED BY <1>1, <1>2, <2>1, <2>2, StartEquipped DEF Generate, TInv, Types, PCs, store, ghost
<1>3. ASSUME NEW k \in Keys, ImportKey(p, k) PROVE TInv'
  <2>1. Job("import", k) \in Jobs
    BY DEF Job, Jobs
  <2>2. Equipped("pubs", Job("import", k), mem[p])
    BY <2>1 DEF Equipped, Job
  <2> QED BY <1>1, <1>3, <2>1, <2>2, StartEquipped DEF ImportKey, TInv, Types, PCs, store, ghost
<1>4. ASSUME NEW k \in Keys, Revoke(p, k) PROVE TInv'
  <2>1. Job("revoke", k) \in Jobs
    BY DEF Job, Jobs
  <2>2. Equipped("load", Job("revoke", k), mem[p])
    BY <2>1 DEF Equipped, Job
  <2> QED BY <1>1, <1>4, <2>1, <2>2, StartEquipped DEF Revoke, TInv, Types, PCs, store, ghost
<1>5. ASSUME NEW b \in Bundles \cup issued, NEW named \in BOOLEAN, ImportBundle(p, b, named)
      PROVE  TInv'
  <2> DEFINE j == [cmd |-> "bundle", key |-> b.issuer, bundle |-> b]
             ks == {k \in Keys : b.keys[k] # Absent}
  <2>1. b \in BundleType
    BY <1>1, TrustAssumption DEF Types
  <2>2. j \in Jobs /\ b.issuer \in Keys
    BY <2>1 DEF Jobs, BundleType
  <2>3. Equipped("pubs", j, mem[p])
    BY <2>1, <2>2 DEF Equipped
  <2>4. /\ Start(p, "pubs", j, ks) /\ UNCHANGED <<store, clock, issued, history>>
        /\ pinned' \in {pinned, pinned \cup {b.issuer}}
    BY <1>5 DEF ImportBundle
  <2> HIDE DEF j
  <2> QED BY <1>1, <2>2, <2>3, <2>4, StartEquipped DEF TInv, Types, PCs, store
<1>6. ASSUME NEW k \in Own, NEW requested \in BOOLEAN, SelectSigningKey(p, k, requested)
      PROVE  TInv'
  <2>1. Job("produce", k) \in Jobs /\ k \in Keys
    BY TrustAssumption DEF Job, Jobs
  <2>2. Equipped("sign", Job("produce", k), mem[p])
    BY <2>1 DEF Equipped, Job
  <2> QED BY <1>1, <1>6, <2>1, <2>2, StartEquipped
         DEF SelectSigningKey, TInv, Types, PCs, store, ghost
<1> QED BY <1>2, <1>3, <1>4, <1>5, <1>6 DEF Command

\* The policy a command saves is one, whatever it loaded.
LEMMA SaveTypes ==
  ASSUME TInv, NEW p \in Procs, Save(p)
  PROVE  TInv'
<1> DEFINE j == job[p]
<1>1. Types /\ Equipped("save", j, mem[p]) /\ pc[p] = "save"
  BY DEF TInv, AllEquipped, Save, At
<1>2. j \in Jobs /\ mem[p] \in [Keys -> Entries] /\ clock \in 0 .. MaxTime
      /\ j.cmd \in {"generate", "import", "revoke", "bundle"}
  BY <1>1 DEF Equipped, Types, Times
<1>3. policy' \in [Keys -> Entries]
  <2>1. CASE j.cmd \in {"generate", "import"}
    BY <1>2, <2>1, EntryFacts DEF Save
  <2>2. CASE j.cmd = "revoke"
    BY <1>2, <2>2, EntryFacts DEF Save
  <2>3. CASE j.cmd = "bundle"
    <3>1. j.bundle.keys \in [Keys -> Entries]
      BY <1>1, <2>3 DEF Equipped, BundleType
    <3>2. \A k \in Keys : Merge(mem[p][k], j.bundle.keys[k]) \in Entries
      BY <1>2, <3>1, MergeFacts
    <3> QED BY <2>3, <3>2 DEF Save
  <2> QED BY <1>2, <2>1, <2>2, <2>3
<1>4. doubled' \in BOOLEAN /\ overtaken' \subseteq Procs
  BY OvertakesTypes DEF Save
<1>5. CASE j.cmd = "bundle"
  <2>1. Goto(p, "accept") /\ UNCHANGED <<job, todo, mem>>
    BY <1>5 DEF Save
  <2>2. Equipped("accept", job[p], mem[p])
    BY <1>1, <1>2, <1>5 DEF Equipped
  <2>3. AllEquipped' /\ pc' \in [Procs -> PCs]
    BY <2>1, <2>2, GotoEquipped DEF PCs
  <2> QED BY <1>1, <1>3, <1>4, <2>1, <2>3 DEF Save, TInv, Types, ghost
<1>6. CASE j.cmd # "bundle"
  <2>1. Done(p)
    BY <1>6 DEF Save
  <2> QED BY <1>1, <1>3, <1>4, <2>1, DoneEquipped DEF Save, TInv, Types, ghost
<1> QED BY <1>5, <1>6

\* Every other step of a command keeps the types.
LEMMA StepTypes ==
  ASSUME TInv, NEW p \in Procs, Step(p)
  PROVE  TInv'
<1>1. Types /\ Equipped(pc[p], job[p], mem[p])
  BY DEF TInv, AllEquipped
<1>2. CASE WritePrivate(p)
  <2>1. pc[p] = "private" /\ job[p] \in Jobs /\ job[p].cmd = "generate" /\ job[p].key \in Own
    BY <1>1, <1>2 DEF WritePrivate, At, Equipped
  <2>2. Equipped("pubs", job[p], mem[p])
    BY <2>1 DEF Equipped
  <2>3. AllEquipped' /\ pc' \in [Procs -> PCs]
    BY <1>2, <2>2, GotoEquipped DEF WritePrivate, PCs
  <2>4. priv' \in [Own -> Files]
    BY <1>1, <1>2 DEF WritePrivate, Types, Files
  <2> QED BY <1>1, <1>2, <2>3, <2>4 DEF WritePrivate, TInv, Types, ghost
<1>3. CASE WritePub(p)
  <2>1. AllEquipped'
    BY <1>3 DEF TInv, AllEquipped, WritePub
  <2>2. pub' \in [Keys -> Files] /\ todo' \in [Procs -> SUBSET Keys]
    BY <1>1, <1>3 DEF WritePub, Types, Files
  <2> QED BY <1>1, <1>3, <2>1, <2>2 DEF WritePub, TInv, Types, ghost
<1>4. CASE PubsWritten(p)
  <2>1. Equipped("load", job[p], mem[p])
    BY <1>1, <1>4 DEF PubsWritten, At, Equipped
  <2>2. AllEquipped' /\ pc' \in [Procs -> PCs]
    BY <1>4, <2>1, GotoEquipped DEF PubsWritten, PCs
  <2> QED BY <1>1, <1>4, <2>2 DEF PubsWritten, TInv, Types, ghost, store
<1>5. CASE Load(p)
  <2>1. CASE Done(p)
    BY <1>1, <1>5, <2>1, DoneEquipped DEF Load, TInv, Types, ghost, store
  <2>2. CASE mem' = [mem EXCEPT ![p] = policy] /\ Goto(p, "save") /\ UNCHANGED <<job, todo>>
    <3>1. job' = [job EXCEPT ![p] = job[p]] /\ policy \in [Keys -> Entries]
      BY <1>1, <2>2 DEF Types
    <3>2. Equipped("save", job[p], policy)
      BY <1>1, <1>5, <3>1 DEF Equipped, Load, At
    <3>3. AllEquipped'
      BY <2>2, <3>1, <3>2, OneEquipped DEF Goto, PCs
    <3>4. pc' \in [Procs -> PCs] /\ mem' \in [Procs -> [Keys -> Entries] \cup {None}]
      BY <1>1, <2>2 DEF Types, Goto, PCs
    <3> QED BY <1>1, <1>5, <2>2, <3>3, <3>4 DEF Load, TInv, Types, ghost, store
  <2> QED BY <1>5, <2>1, <2>2 DEF Load
<1>6. CASE Save(p)
  BY <1>6, SaveTypes
<1>7. CASE Accept(p)
  <2>1. job[p].bundle \in BundleType
    BY <1>1, <1>7 DEF Accept, At, Equipped
  <2>2. accepted' \in [Keys -> BundleType \cup {None, Torn}] /\ history' \subseteq BundleType
    BY <1>1, <1>7, <2>1 DEF Accept, Types
  <2> QED BY <1>1, <1>7, <2>2, DoneEquipped, OvertakesTypes DEF Accept, TInv, Types
<1>8. ASSUME NEW s \in Keys \cup {None}, NEW days \in 0 .. 1, Produce(p, s, days)
      PROVE  TInv'
  <2> DEFINE b == Bundle(job[p].key, s, days)
  <2>1. job[p].key \in Keys
    BY <1>1, <1>8, TrustAssumption DEF Produce, At, Equipped
  <2>2. clock + days \in Nat
    BY <1>1 DEF Types, Times
  <2>3. b \in BundleType
    BY <1>1, <2>1, <2>2 DEF Types, Bundle, BundleType
  <2>4. issued' \subseteq BundleType
    BY <1>1, <1>8, <2>3 DEF Produce, Types
  <2> QED BY <1>1, <1>8, <2>4, DoneEquipped DEF Produce, TInv, Types, store
<1> QED BY <1>2, <1>3, <1>4, <1>5, <1>6, <1>7, <1>8 DEF Step

\* A killed command may leave a torn file of the kind it was writing.
LEMMA CrashTypes ==
  ASSUME TInv, NEW p \in Procs, Crash(p)
  PROVE  TInv'
<1>1. Types /\ Equipped(pc[p], job[p], mem[p]) /\ Done(p) /\ UNCHANGED <<clock, issued, pinned, history>>
  BY DEF TInv, AllEquipped, Crash, ghost
<1>2. policy' = policy /\ doubled' = doubled /\ overtaken' \subseteq Procs
  BY <1>1, OvertakesTypes DEF Crash, store, Types
<1>3. pub' \in [Keys -> Files] /\ priv' \in [Own -> Files]
  BY <1>1 DEF Crash, store, Types, Files
<1>4. accepted' \in [Keys -> BundleType \cup {None, Torn}]
  BY <1>1 DEF Crash, store, Types
<1> QED BY <1>1, <1>2, <1>3, <1>4, DoneEquipped DEF TInv, Types

\* Every step keeps the types.
LEMMA TInvNext == TInv /\ [Next]_vars => TInv'
<1> SUFFICES ASSUME TInv, [Next]_vars PROVE TInv'
  OBVIOUS
<1>1. ASSUME NEW k \in Keys, RevokeByHand(k) PROVE TInv'
  <2>1. policy' \in [Keys -> Entries]
    BY <1>1, EntryFacts, TrustAssumption DEF RevokeByHand, TInv, Types
  <2> QED BY <1>1, <2>1 DEF RevokeByHand, TInv, Types, AllEquipped, proc, ghost
<1>2. CASE Tick
  <2>1. clock' \in Times
    BY <1>2, TrustAssumption DEF Tick, TInv, Types, Times
  <2> QED BY <1>2, <2>1 DEF Tick, TInv, Types, AllEquipped, store, proc, ghost
<1>3. CASE UNCHANGED vars
  BY <1>3 DEF vars, TInv, Types, AllEquipped, store, proc, ghost
<1> QED BY <1>1, <1>2, <1>3, CommandTypes, StepTypes, CrashTypes, Zenon DEF Next

\* Every variable keeps its type, a command that is to save has loaded and one
\* that is to accept has a bundle, for any number of commands at once.
THEOREM TypeCorrect == Spec => []TypeOK
<1>1. Spec => []TInv
  BY TInvInit, TInvNext, PTL DEF Spec
<1>2. TInv => TypeOK
  BY DEF TInv, Types, AllEquipped, Equipped, TypeOK, PCs
<1> QED BY <1>1, <1>2, PTL

----------------------------------------------------------------------------
(* Any number of commands: what is signed, and on what grounds.            *)

\* produce checks its own policy for everything examine will look at.
LEMMA ProduceExamines ==
  ASSUME TInv, IssuedVerifies, NEW p \in Procs, NEW s \in Keys \cup {None}, NEW days \in 0 .. 1,
         Produce(p, s, days)
  PROVE  IssuedVerifies'
<1> DEFINE b == Bundle(job[p].key, s, days)
<1>1. CASE issued' = issued
  BY <1>1 DEF IssuedVerifies
<1>2. CASE issued' = issued \cup {b}
  <2>1. ASSUME issued # issued \cup {b}
        PROVE  /\ \A o \in Keys : IsRevoked(policy[o]) => policy[o].at # 0
               /\ policy[job[p].key] = Trusted
               /\ s # None => s # job[p].key /\ policy[s] = Trusted
    BY <1>2, <2>1 DEF Produce
  <2>2. /\ b.issuer = job[p].key /\ b.at = clock /\ b.until = clock + days /\ b.keys = policy
        /\ b.successor = s /\ b.intact = TRUE
    BY DEF Bundle
  <2> HIDE DEF b
  <2>3. issued # issued \cup {b} =>
          \A now \in Times : Examine(b, now) <=> b.at <= now /\ now <= b.until
    BY <2>1, <2>2 DEF Examine, KeysCheck, SuccessorCheck
  <2> QED BY <1>2, <2>3 DEF IssuedVerifies
<1> QED BY <1>1, <1>2 DEF Produce

\* What `attest trust bundle` signs passes `attest trust import`'s examination
\* at every moment of its validity window, for any number of commands at once.
THEOREM IssuedHolds == Spec => []IssuedVerifies
<1>1. Init => IssuedVerifies
  BY DEF Init, IssuedVerifies
<1>2. TInv /\ IssuedVerifies /\ [Next]_vars => IssuedVerifies'
  <2> SUFFICES ASSUME TInv, IssuedVerifies, [Next]_vars PROVE IssuedVerifies'
    OBVIOUS
  <2>1. ASSUME issued' = issued PROVE IssuedVerifies'
    BY <2>1 DEF IssuedVerifies
  <2>2. ASSUME NEW p \in Procs, Command(p) \/ Crash(p) PROVE issued' = issued
    BY <2>2 DEF Command, Crash, Generate, ImportKey, Revoke, ImportBundle, SelectSigningKey, ghost
  <2>3. ASSUME NEW p \in Procs, Step(p) PROVE IssuedVerifies'
    <3>1. CASE \E s \in Keys \cup {None}, days \in 0 .. 1 : Produce(p, s, days)
      BY <3>1, ProduceExamines
    <3>2. CASE \/ WritePrivate(p) \/ WritePub(p) \/ PubsWritten(p) \/ Load(p)
               \/ Save(p) \/ Accept(p)
      BY <2>1, <3>2 DEF WritePrivate, WritePub, PubsWritten, Load, Save, Accept, ghost
    <3> QED BY <2>3, <3>1, <3>2 DEF Step
  <2>4. Tick \/ (\E k \in Keys : RevokeByHand(k)) \/ UNCHANGED vars => issued' = issued
    BY DEF Tick, RevokeByHand, vars, ghost
  <2> QED BY <2>1, <2>2, <2>3, <2>4 DEF Next
<1> QED BY <1>1, <1>2, TInvInit, TInvNext, PTL DEF Spec

Closed(S, pins, hist) ==
  /\ pins \subseteq S
  /\ \A b \in hist : b.issuer \in S /\ b.successor # None => b.successor \in S

\* The issuer i follows from the named ones by handovers.
Grounded(i, pins, hist) == \A S \in SUBSET Keys : Closed(S, pins, hist) => i \in S

\* Grounds are never withdrawn.
LEMMA GroundsGrow ==
  ASSUME NEW i, NEW pins, NEW hist, NEW pins2, NEW hist2,
         Grounded(i, pins, hist), pins \subseteq pins2, hist \subseteq hist2
  PROVE  Grounded(i, pins2, hist2)
BY DEF Grounded, Closed

HistoryGrounded == \A b \in history : Grounded(b.issuer, pinned, history)

AcceptedKnown ==
  \A i \in Keys : Kept(i) => accepted[i] \in history /\ accepted[i].issuer = i

\* A bundle on its way into the store has grounds already.
PendingGrounded ==
  \A p \in Procs :
    pc[p] # "idle" /\ job[p].cmd = "bundle" => Grounded(job[p].bundle.issuer, pinned, history)

GInv == TInv /\ HistoryGrounded /\ AcceptedKnown /\ PendingGrounded

\* A step that adds to neither the named issuers nor the accepted bundles, and
\* starts no import.
LEMMA GroundsKept ==
  ASSUME GInv, UNCHANGED <<pinned, history>>,
         \A i \in Keys : accepted'[i] \in {accepted[i], Torn},
         \A q \in Procs : \/ pc'[q] = "idle"
                          \/ job'[q] = job[q] /\ pc[q] # "idle"
                          \/ job'[q].cmd # "bundle"
  PROVE  HistoryGrounded' /\ AcceptedKnown' /\ PendingGrounded'
<1>1. HistoryGrounded'
  BY DEF GInv, HistoryGrounded
<1>2. AcceptedKnown'
  BY DEF GInv, AcceptedKnown, Kept
<1>3. PendingGrounded'
  BY DEF GInv, PendingGrounded
<1> QED BY <1>1, <1>2, <1>3

\* An import starts: the user named the issuer, it was accepted before, or an
\* accepted bundle names it.
LEMMA ImportGrounded ==
  ASSUME GInv, NEW p \in Procs, NEW b \in Bundles \cup issued, NEW named \in BOOLEAN,
         ImportBundle(p, b, named)
  PROVE  HistoryGrounded' /\ AcceptedKnown' /\ PendingGrounded'
<1>1. Types /\ b \in BundleType
  BY TrustAssumption DEF GInv, TInv, Types
<1>2. /\ history' = history /\ accepted' = accepted /\ pinned \subseteq pinned'
      /\ (named => b.issuer \in pinned')
  BY DEF ImportBundle, store
<1>3. b.issuer \in Keys
  BY <1>1 DEF BundleType
<1>4. Grounded(b.issuer, pinned', history')
  <2>1. CASE named
    BY <1>2, <2>1 DEF Grounded, Closed
  <2>2. CASE accepted[b.issuer] # None
    <3>1. Kept(b.issuer)
      BY <2>2 DEF ImportBundle, NotOlder, Kept
    <3>2. Grounded(b.issuer, pinned, history)
      BY <1>3, <3>1 DEF GInv, AcceptedKnown, HistoryGrounded
    <3> QED BY <1>2, <3>2, GroundsGrow
  <2>3. CASE accepted[b.issuer] = None /\ ~named
    <3>1. PICK j \in Keys : Kept(j) /\ accepted[j].successor = b.issuer
      BY <2>3 DEF ImportBundle, Grounds, Kept
    <3>2. accepted[j] \in history /\ Grounded(accepted[j].issuer, pinned, history)
      BY <3>1 DEF GInv, AcceptedKnown, HistoryGrounded
    <3>3. b.issuer # None
      BY <1>3, TrustAssumption
    <3>4. Grounded(b.issuer, pinned, history)
      BY <3>1, <3>2, <3>3 DEF Grounded, Closed
    <3> QED BY <1>2, <3>4, GroundsGrow
  <2> QED BY <2>1, <2>2, <2>3
<1>5. HistoryGrounded'
  <2>1. \A c \in history : Grounded(c.issuer, pinned', history')
    BY <1>2, GroundsGrow DEF GInv, HistoryGrounded
  <2> QED BY <1>2, <2>1 DEF HistoryGrounded
<1>6. AcceptedKnown'
  BY <1>2 DEF GInv, AcceptedKnown, Kept
<1>7. PendingGrounded'
  <2>1. job'[p].bundle = b
    BY <1>1 DEF ImportBundle, Start, Types
  <2>2. \A q \in Procs : q # p => pc'[q] = pc[q] /\ job'[q] = job[q]
    BY <1>1 DEF ImportBundle, Start, Goto, Types
  <2>3. \A q \in Procs : q # p /\ pc[q] # "idle" /\ job[q].cmd = "bundle" =>
          Grounded(job[q].bundle.issuer, pinned', history')
    BY <1>2, GroundsGrow DEF GInv, PendingGrounded
  <2> QED BY <1>4, <2>1, <2>2, <2>3 DEF PendingGrounded
<1> QED BY <1>5, <1>6, <1>7

\* A bundle becomes the accepted one.
LEMMA AcceptGrounded ==
  ASSUME GInv, NEW p \in Procs, Accept(p)
  PROVE  HistoryGrounded' /\ AcceptedKnown' /\ PendingGrounded'
<1> DEFINE b == job[p].bundle
<1>1. Types /\ Equipped("accept", job[p], mem[p]) /\ pc[p] = "accept"
  BY DEF GInv, TInv, AllEquipped, Accept, At
<1>2. b \in BundleType /\ b.issuer \in Keys /\ Grounded(b.issuer, pinned, history)
  BY <1>1 DEF Equipped, BundleType, GInv, PendingGrounded
<1>3. /\ pinned' = pinned /\ history' = history \cup {b}
      /\ accepted' = [accepted EXCEPT ![b.issuer] = b]
  BY DEF Accept
<1> HIDE DEF b
<1>4. HistoryGrounded'
  <2>1. \A c \in history : Grounded(c.issuer, pinned, history)
    BY DEF GInv, HistoryGrounded
  <2>2. \A c \in history \cup {b} : Grounded(c.issuer, pinned', history')
    BY <1>2, <1>3, <2>1, GroundsGrow
  <2> QED BY <1>3, <2>2 DEF HistoryGrounded
<1>5. AcceptedKnown'
  <2>1. \A i \in Keys : i # b.issuer => accepted'[i] = accepted[i]
    BY <1>1, <1>3 DEF Types
  <2>2. accepted'[b.issuer] = b
    BY <1>1, <1>2, <1>3 DEF Types
  <2> QED BY <1>3, <2>1, <2>2 DEF GInv, AcceptedKnown, Kept
<1>6. PendingGrounded'
  <2>1. \A q \in Procs : pc'[q] # "idle" => pc'[q] = pc[q] /\ job'[q] = job[q]
    BY <1>1 DEF Accept, Done, Goto, Types
  <2>2. \A q \in Procs : pc[q] # "idle" /\ job[q].cmd = "bundle" =>
          Grounded(job[q].bundle.issuer, pinned', history')
    BY <1>3, GroundsGrow DEF GInv, PendingGrounded
  <2> QED BY <2>1, <2>2 DEF PendingGrounded
<1> QED BY <1>4, <1>5, <1>6

\* Every step keeps the grounds.
LEMMA GInvNext == GInv /\ [Next]_vars => GInv'
<1> SUFFICES ASSUME GInv, [Next]_vars PROVE GInv'
  OBVIOUS
<1>1. TInv' /\ Types
  BY TInvNext DEF GInv, TInv
<1> SUFFICES HistoryGrounded' /\ AcceptedKnown' /\ PendingGrounded'
  BY <1>1 DEF GInv
<1>2. ASSUME NEW p \in Procs, Command(p)
      PROVE  HistoryGrounded' /\ AcceptedKnown' /\ PendingGrounded'
  <2>1. CASE \E b \in Bundles \cup issued, named \in BOOLEAN : ImportBundle(p, b, named)
    BY <2>1, ImportGrounded
  <2>2. CASE \/ \E k \in Own : Generate(p, k)
             \/ \E k \in Keys : ImportKey(p, k) \/ Revoke(p, k)
             \/ \E k \in Own, requested \in BOOLEAN : SelectSigningKey(p, k, requested)
    <3>1. PICK l \in PCs, j \in Jobs, ks \in SUBSET Keys :
            Start(p, l, j, ks) /\ j.cmd # "bundle" /\ UNCHANGED <<store, clock, ghost>>
      <4>1. \A k \in Own : Job("generate", k) \in Jobs /\ Job("generate", k).cmd # "bundle"
                           /\ Job("produce", k) \in Jobs /\ Job("produce", k).cmd # "bundle"
                           /\ {k} \in SUBSET Keys
        BY TrustAssumption DEF Job, Jobs
      <4>2. \A k \in Keys : Job("import", k) \in Jobs /\ Job("import", k).cmd # "bundle"
                            /\ Job("revoke", k) \in Jobs /\ Job("revoke", k).cmd # "bundle"
        BY DEF Job, Jobs
      <4>3. ASSUME NEW k \in Own, Generate(p, k)
            PROVE  /\ Start(p, "private", Job("generate", k), {k})
                   /\ UNCHANGED <<store, clock, ghost>>
        BY <4>3 DEF Generate
      <4>4. ASSUME NEW k \in Keys, ImportKey(p, k)
            PROVE  Start(p, "pubs", Job("import", k), {k}) /\ UNCHANGED <<store, clock, ghost>>
        BY <4>4 DEF ImportKey
      <4>5. ASSUME NEW k \in Keys, Revoke(p, k)
            PROVE  Start(p, "load", Job("revoke", k), {}) /\ UNCHANGED <<store, clock, ghost>>
        BY <4>5 DEF Revoke
      <4>6. ASSUME NEW k \in Own, NEW requested \in BOOLEAN, SelectSigningKey(p, k, requested)
            PROVE  Start(p, "sign", Job("produce", k), {}) /\ UNCHANGED <<store, clock, ghost>>
        BY <4>6 DEF SelectSigningKey
      <4>7. {"private", "pubs", "load", "sign"} \subseteq PCs /\ {} \in SUBSET Keys
            /\ \A k \in Keys : {k} \in SUBSET Keys
        BY DEF PCs
      <4> QED BY <2>2, <4>1, <4>2, <4>3, <4>4, <4>5, <4>6, <4>7
    <3>2. \A q \in Procs : \/ pc'[q] = "idle"
                           \/ job'[q] = job[q] /\ pc[q] # "idle"
                           \/ job'[q].cmd # "bundle"
      BY <1>1, <3>1 DEF Start, Goto, Types
    <3>3. UNCHANGED <<pinned, history>> /\ \A i \in Keys : accepted'[i] \in {accepted[i], Torn}
      BY <3>1 DEF store, ghost
    <3> QED BY <3>2, <3>3, GroundsKept, Zenon
  <2> QED BY <1>2, <2>1, <2>2 DEF Command
<1>3. ASSUME NEW p \in Procs, Step(p) \/ Crash(p), ~Accept(p)
      PROVE  HistoryGrounded' /\ AcceptedKnown' /\ PendingGrounded'
  <2>1. UNCHANGED <<pinned, history>>
    BY <1>3 DEF Step, Crash, WritePrivate, WritePub, PubsWritten, Load, Save, Produce, ghost
  <2>2. \A i \in Keys : accepted'[i] \in {accepted[i], Torn}
    <3>1. CASE Step(p)
      BY <1>3, <3>1 DEF Step, WritePrivate, WritePub, PubsWritten, Load, Save, Produce, store
    <3>2. CASE Crash(p)
      BY <1>1, <3>2 DEF Crash, store, Types
    <3> QED BY <1>3, <3>1, <3>2
  <2>3. pc[p] # "idle"
    BY <1>3 DEF Step, Crash, WritePrivate, WritePub, PubsWritten, Load, Save, Produce, At
  <2>4. \A q \in Procs : pc'[q] = "idle" \/ (job'[q] = job[q] /\ pc[q] # "idle")
    <3>1. CASE Done(p)
      BY <1>1, <3>1 DEF Done, Goto, Types
    <3>2. CASE job' = job /\ (pc' = pc \/ \E l \in PCs : Goto(p, l))
      BY <1>1, <2>3, <3>2 DEF Goto, Types
    <3>3. Done(p) \/ (job' = job /\ (pc' = pc \/ \E l \in PCs : Goto(p, l)))
      BY <1>3 DEF Step, Crash, WritePrivate, WritePub, PubsWritten, Load, Save, Produce, PCs
    <3> QED BY <3>1, <3>2, <3>3
  <2>5. \A q \in Procs : \/ pc'[q] = "idle"
                         \/ job'[q] = job[q] /\ pc[q] # "idle"
                         \/ job'[q].cmd # "bundle"
    BY <2>4
  <2> QED BY <2>1, <2>2, <2>5, GroundsKept, Zenon
<1>4. CASE Tick \/ (\E k \in Keys : RevokeByHand(k)) \/ UNCHANGED vars
  <2>1. UNCHANGED <<pinned, history, accepted, pc, job>>
    BY <1>4 DEF Tick, RevokeByHand, vars, store, proc, ghost
  <2>2. \A q \in Procs : \/ pc'[q] = "idle"
                         \/ job'[q] = job[q] /\ pc[q] # "idle"
                         \/ job'[q].cmd # "bundle"
    BY <2>1
  <2>3. UNCHANGED <<pinned, history>> /\ \A i \in Keys : accepted'[i] \in {accepted[i], Torn}
    BY <2>1
  <2> QED BY <2>2, <2>3, GroundsKept, Zenon
<1> QED BY <1>2, <1>3, <1>4, AcceptGrounded DEF Next, Step

\* Whatever commands run at once and crash, no authority is ever accepted that a
\* user did not name and no accepted authority handed over to.
THEOREM GroundsHold == Spec => []AuthorityGrounds
<1>1. Init => GInv
  BY TInvInit DEF Init, GInv, HistoryGrounded, AcceptedKnown, PendingGrounded, Kept
<1>2. GInv => AuthorityGrounds
  BY DEF GInv, HistoryGrounded, Grounded, Closed, AuthorityGrounds
<1> QED BY <1>1, <1>2, GInvNext, PTL DEF Spec

----------------------------------------------------------------------------
(* Commands that nobody overtook.                                          *)

Offered == Bundles \cup issued

\* What a command at l may rely on when nobody wrote the store since it began:
\* it saves what is on disk, its bundle is newer than what is on record of its
\* issuer, which the policy has not revoked, and is applied before it is kept.
Fresh(l, j, m, pol, acc) ==
  /\ l = "save" => m = pol
  /\ l = "accept" => Applied(j.bundle, pol)
  /\ l # "idle" /\ j.cmd = "bundle" =>
       /\ acc[j.bundle.issuer] # Torn
       /\ acc[j.bundle.issuer] # None => acc[j.bundle.issuer].at < j.bundle.at
       /\ j.bundle.keys[j.bundle.issuer] = Trusted
       /\ ~IsRevoked(pol[j.bundle.issuer])

AllFresh ==
  \A p \in Procs : p \notin overtaken => Fresh(pc[p], job[p], mem[p], policy, accepted)

FInv == TInv /\ AllFresh

\* A bundle revokes no key it vouches for.
LEMMA MergeOfTrusted ==
  ASSUME NEW e \in Entries, ~IsRevoked(e)
  PROVE  ~IsRevoked(Merge(e, Trusted))
BY EntryFacts DEF Merge

\* A save of what is on disk: the policy tightens and has applied the bundle.
LEMMA SaveTightens ==
  ASSUME TInv, NEW p \in Procs, Save(p), mem[p] = policy
  PROVE  /\ Tightens(policy, policy')
         /\ job[p].cmd = "bundle" => Applied(job[p].bundle, policy')
<1> DEFINE j == job[p]
<1>1. Types /\ Equipped("save", j, mem[p]) /\ pc[p] = "save"
  BY DEF TInv, AllEquipped, Save, At
<1>2. /\ j \in Jobs /\ policy \in [Keys -> Entries] /\ clock \in 0 .. MaxTime
      /\ j.cmd \in {"generate", "import", "revoke", "bundle"} /\ j.key \in Keys
  BY <1>1 DEF Equipped, Types, Times, Jobs
<1>3. CASE j.cmd \in {"generate", "import"}
  <2>1. policy' = [policy EXCEPT ![j.key] = IF @ = Absent THEN Trusted ELSE @]
    BY <1>3 DEF Save
  <2>2. Tightens(policy, policy')
    BY <1>2, <2>1, EntryFacts DEF Tightens
  <2> QED BY <1>3, <2>2
<1>4. CASE j.cmd = "revoke"
  <2>1. policy' = [policy EXCEPT ![j.key] = Revoked(clock)]
    BY <1>4 DEF Save
  <2>2. Tightens(policy, policy')
    BY <1>2, <2>1, EntryFacts DEF Tightens
  <2> QED BY <1>4, <2>2
<1>5. CASE j.cmd = "bundle"
  <2>1. j.bundle.keys \in [Keys -> Entries]
    BY <1>1, <1>5 DEF Equipped, BundleType
  <2>2. \A k \in Keys : policy'[k] = Merge(policy[k], j.bundle.keys[k])
    BY <1>5 DEF Save
  <2>3. Tightens(policy, policy')
    BY <1>2, <2>1, <2>2, MergeFacts DEF Tightens
  <2>4. Applied(j.bundle, policy')
    BY <1>2, <2>1, <2>2, MergeFacts DEF Applied
  <2> QED BY <2>3, <2>4
<1> QED BY <1>2, <1>3, <1>4, <1>5

\* A step of p: a command that nobody overtook finds the store as it was.
LEMMA FreshStep ==
  ASSUME FInv, NEW p \in Procs,
         \A q \in Procs : q # p => pc'[q] = pc[q] /\ job'[q] = job[q] /\ mem'[q] = mem[q],
         \/ Overtakes(p)
         \/ UNCHANGED <<policy, accepted>> /\ overtaken \subseteq overtaken' \cup {p},
         p \notin overtaken' => Fresh(pc'[p], job'[p], mem'[p], policy', accepted')
  PROVE  AllFresh'
<1>1. ASSUME NEW q \in Procs, q # p, q \notin overtaken'
      PROVE  Fresh(pc'[q], job'[q], mem'[q], policy', accepted')
  <2>1. pc'[q] = pc[q] /\ job'[q] = job[q] /\ mem'[q] = mem[q]
    BY <1>1
  <2>2. CASE pc[q] = "idle"
    BY <2>1, <2>2 DEF Fresh
  <2>3. CASE pc[q] # "idle"
    <3>1. policy' = policy /\ accepted' = accepted /\ q \notin overtaken
      BY <1>1, <2>3 DEF Overtakes, At
    <3> QED BY <2>1, <3>1 DEF FInv, AllFresh
  <2> QED BY <2>2, <2>3
<1> QED BY <1>1 DEF AllFresh

\* The steps of p leave the other commands where they are.
LEMMA OthersStay ==
  ASSUME TInv, NEW p \in Procs, Command(p) \/ Step(p) \/ Crash(p)
  PROVE  \A q \in Procs : q # p => pc'[q] = pc[q] /\ job'[q] = job[q] /\ mem'[q] = mem[q]
<1>1. Types
  BY DEF TInv
<1>2. ASSUME Done(p)
      PROVE  \A q \in Procs : q # p => pc'[q] = pc[q] /\ job'[q] = job[q] /\ mem'[q] = mem[q]
  BY <1>1, <1>2 DEF Done, Goto, Types
<1>3. ASSUME NEW l, NEW j, NEW ks, Start(p, l, j, ks)
      PROVE  \A q \in Procs : q # p => pc'[q] = pc[q] /\ job'[q] = job[q] /\ mem'[q] = mem[q]
  BY <1>1, <1>3 DEF Start, Goto, Types
<1>4. CASE Command(p)
  BY <1>3, <1>4 DEF Command, Generate, ImportKey, Revoke, ImportBundle, SelectSigningKey
<1>5. CASE Crash(p)
  BY <1>2, <1>5 DEF Crash
<1>6. CASE Step(p)
  <2>1. CASE WritePrivate(p) \/ WritePub(p) \/ PubsWritten(p)
    BY <1>1, <2>1 DEF WritePrivate, WritePub, PubsWritten, Goto, Types
  <2>2. CASE Load(p) \/ Save(p)
    BY <1>1, <1>2, <2>2 DEF Load, Save, Goto, Types
  <2>3. CASE Accept(p) \/ \E s \in Keys \cup {None}, days \in 0 .. 1 : Produce(p, s, days)
    BY <1>2, <2>3 DEF Accept, Produce
  <2> QED BY <1>6, <2>1, <2>2, <2>3 DEF Step
<1> QED BY <1>4, <1>5, <1>6

\* An import begins: it has looked up the issuer and compared with the record.
LEMMA FreshImport ==
  ASSUME TInv, NEW p \in Procs, NEW b \in Bundles \cup issued, NEW named \in BOOLEAN,
         ImportBundle(p, b, named)
  PROVE  Fresh(pc'[p], job'[p], mem'[p], policy', accepted')
<1>1. Types /\ b \in BundleType
  BY TrustAssumption DEF TInv, Types
<1>2. b.issuer \in Keys /\ b.at \in Nat /\ policy' = policy /\ accepted' = accepted
  BY <1>1 DEF BundleType, Times, ImportBundle, store
<1>3. job'[p].bundle = b /\ pc'[p] = "pubs"
  BY <1>1 DEF ImportBundle, Start, Goto, Types
<1>4. b.keys[b.issuer] = Trusted /\ ~IsRevoked(policy[b.issuer])
  BY DEF ImportBundle, Examine, KeysCheck
<1>5. NotOlder(b) /\ accepted[b.issuer] # b
  BY DEF ImportBundle
<1>6. ASSUME accepted[b.issuer] # None PROVE accepted[b.issuer].at \in Nat
  BY <1>1, <1>2, <1>5, <1>6 DEF NotOlder, Types, BundleType, Times
<1>7. accepted[b.issuer] # Torn /\ (accepted[b.issuer] # None => accepted[b.issuer].at < b.at)
  BY <1>2, <1>5, <1>6 DEF NotOlder
<1> QED BY <1>2, <1>3, <1>4, <1>7 DEF Fresh

\* Any other command begins.
LEMMA FreshStart ==
  ASSUME TInv, NEW p \in Procs,
         \/ \E k \in Own : Generate(p, k)
         \/ \E k \in Keys : ImportKey(p, k) \/ Revoke(p, k)
         \/ \E k \in Own, requested \in BOOLEAN : SelectSigningKey(p, k, requested)
  PROVE  Fresh(pc'[p], job'[p], mem'[p], policy', accepted')
<1>1. ASSUME NEW l \in {"private", "pubs", "load", "sign"}, NEW ks, NEW k,
             NEW c \in {"generate", "import", "revoke", "produce"}, Start(p, l, Job(c, k), ks)
      PROVE  pc'[p] \in {"private", "pubs", "load", "sign"} /\ job'[p].cmd # "bundle"
  <2>1. pc'[p] = l /\ job'[p] = Job(c, k)
    BY <1>1 DEF Start, Goto, TInv, Types
  <2> QED BY <2>1 DEF Job
<1>2. pc'[p] \in {"private", "pubs", "load", "sign"} /\ job'[p].cmd # "bundle"
  BY <1>1 DEF Generate, ImportKey, Revoke, SelectSigningKey
<1> QED BY <1>2 DEF Fresh

\* Every step of a command keeps what the others, and it, may rely on.
LEMMA FreshCommand ==
  ASSUME FInv, NEW p \in Procs, Command(p)
  PROVE  AllFresh'
<1>1. TInv
  BY DEF FInv
<1>2. Fresh(pc'[p], job'[p], mem'[p], policy', accepted')
  BY <1>1, FreshImport, FreshStart DEF Command
<1>3. UNCHANGED <<policy, accepted>> /\ overtaken \subseteq overtaken' \cup {p}
  BY DEF Command, Generate, ImportKey, Revoke, ImportBundle, SelectSigningKey, Start, store
<1>4. \A q \in Procs : q # p => pc'[q] = pc[q] /\ job'[q] = job[q] /\ mem'[q] = mem[q]
  BY <1>1, OthersStay
<1> QED BY <1>2, <1>3, <1>4, FreshStep

\* A command that ends relies on nothing.
LEMMA FreshDone ==
  ASSUME TInv, NEW p \in Procs, Done(p)
  PROVE  Fresh(pc'[p], job'[p], mem'[p], policy', accepted')
<1>1. pc'[p] = "idle"
  BY DEF Done, Goto, TInv, Types
<1> QED BY <1>1 DEF Fresh

\* A save, and what it leaves the import to rely on.
LEMMA FreshSave ==
  ASSUME FInv, NEW p \in Procs, Save(p), p \notin overtaken
  PROVE  Fresh(pc'[p], job'[p], mem'[p], policy', accepted')
<1>1. TInv /\ Types /\ Equipped(pc[p], job[p], mem[p]) /\ pc[p] = "save"
      /\ Fresh(pc[p], job[p], mem[p], policy, accepted)
  BY DEF FInv, AllFresh, TInv, AllEquipped, Save, At
<1>2. CASE job[p].cmd # "bundle"
  BY <1>1, <1>2, FreshDone DEF Save
<1>3. CASE job[p].cmd = "bundle"
  <2> DEFINE b == job[p].bundle
  <2>1. /\ pc'[p] = "accept" /\ job' = job /\ accepted' = accepted /\ mem[p] = policy
        /\ policy' = [k \in Keys |-> Merge(policy[k], b.keys[k])]
    BY <1>1, <1>3 DEF Save, Goto, Types, Fresh
  <2>2. b.issuer \in Keys /\ policy[b.issuer] \in Entries
    BY <1>1, <1>3 DEF Equipped, Types, BundleType
  <2>3. b.keys[b.issuer] = Trusted /\ ~IsRevoked(policy[b.issuer])
    BY <1>1, <1>3 DEF Fresh
  <2>4. ~IsRevoked(policy'[b.issuer])
    BY <2>1, <2>2, <2>3, MergeOfTrusted
  <2>5. Applied(b, policy')
    BY <1>1, <1>3, <2>1, SaveTightens
  <2> QED BY <1>1, <1>3, <2>1, <2>3, <2>4, <2>5 DEF Fresh
<1> QED BY <1>2, <1>3

\* The steps of a command under way, and its end.
LEMMA FreshSteps ==
  ASSUME FInv, NEW p \in Procs, Step(p) \/ Crash(p)
  PROVE  AllFresh'
<1>1. TInv /\ Types /\ Equipped(pc[p], job[p], mem[p])
      /\ (p \notin overtaken => Fresh(pc[p], job[p], mem[p], policy, accepted))
  BY DEF FInv, AllFresh, TInv, AllEquipped
<1>2. \A q \in Procs : q # p => pc'[q] = pc[q] /\ job'[q] = job[q] /\ mem'[q] = mem[q]
  BY <1>1, OthersStay
<1>3. \/ Overtakes(p)
      \/ UNCHANGED <<policy, accepted>> /\ overtaken \subseteq overtaken' \cup {p}
  <2>1. CASE Step(p)
    BY <2>1 DEF Step, WritePrivate, WritePub, PubsWritten, Load, Save, Accept, Produce, store
  <2>2. CASE Crash(p)
    BY <2>2 DEF Crash, store
  <2> QED BY <2>1, <2>2
<1>4. overtaken \subseteq overtaken'
  <2>1. CASE Step(p)
    BY <2>1 DEF Step, WritePrivate, WritePub, PubsWritten, Load, Save, Accept, Produce, Overtakes
  <2>2. CASE Crash(p)
    BY <2>2 DEF Crash, Overtakes
  <2> QED BY <2>1, <2>2
<1>5. ASSUME p \notin overtaken' PROVE Fresh(pc'[p], job'[p], mem'[p], policy', accepted')
  <2>1. Fresh(pc[p], job[p], mem[p], policy, accepted) /\ p \notin overtaken
    BY <1>1, <1>4, <1>5
  <2>2. CASE Done(p)
    BY <1>1, <2>2, FreshDone
  <2>3. CASE Save(p)
    BY <2>1, <2>3, FreshSave
  <2>4. CASE WritePrivate(p) \/ WritePub(p) \/ PubsWritten(p)
    <3>1. /\ UNCHANGED <<policy, accepted, job, mem>> /\ pc'[p] \in {"pubs", "load"}
          /\ pc[p] \in {"private", "pubs"}
      BY <1>1, <2>4 DEF WritePrivate, WritePub, PubsWritten, Goto, At, store, Types
    <3> QED BY <2>1, <3>1 DEF Fresh
  <2>5. CASE Load(p) /\ ~Done(p)
    <3>1. /\ UNCHANGED <<policy, accepted, job>> /\ pc'[p] = "save" /\ pc[p] = "load"
          /\ mem'[p] = policy
      BY <1>1, <2>5 DEF Load, Goto, At, store, Types
    <3> QED BY <2>1, <3>1 DEF Fresh
  <2>6. Crash(p) \/ Accept(p) \/ (\E s \in Keys \cup {None}, days \in 0 .. 1 : Produce(p, s, days))
          => Done(p)
    BY DEF Crash, Accept, Produce
  <2> QED BY <2>2, <2>3, <2>4, <2>5, <2>6 DEF Step
<1> QED BY <1>2, <1>3, <1>5, FreshStep

\* The maintainer's edit adds a revocation while no command runs.
LEMMA HandTightens ==
  ASSUME TInv, NEW k \in Keys, RevokeByHand(k)
  PROVE  Tightens(policy, policy') /\ \A p \in Procs : pc[p] = "idle" /\ pc'[p] = "idle"
<1>1. /\ policy' = [policy EXCEPT ![k] = Revoked(0)] /\ policy[k] = Trusted
      /\ policy \in [Keys -> Entries] /\ 0 \in 0 .. MaxTime
  BY TrustAssumption DEF RevokeByHand, TInv, Types
<1>2. Tightens(policy, policy')
  BY <1>1, EntryFacts DEF Tightens
<1>3. \A p \in Procs : pc[p] = "idle" /\ pc'[p] = "idle"
  BY DEF RevokeByHand, At, proc
<1> QED BY <1>2, <1>3

LEMMA FInvInit == Init => FInv
BY TInvInit DEF Init, FInv, AllFresh, Fresh

\* Every step keeps what the commands that nobody overtook rely on.
LEMMA FInvNext == FInv /\ [Next]_vars => FInv'
<1> SUFFICES ASSUME FInv, [Next]_vars PROVE FInv'
  OBVIOUS
<1>1. TInv /\ TInv'
  BY TInvNext DEF FInv
<1>2. ASSUME NEW k \in Keys, RevokeByHand(k) PROVE AllFresh'
  <2>1. \A p \in Procs : pc'[p] = "idle"
    BY <1>1, <1>2, HandTightens
  <2> QED BY <2>1 DEF AllFresh, Fresh
<1>3. ASSUME Tick \/ UNCHANGED vars PROVE AllFresh'
  <2>1. UNCHANGED <<policy, accepted, pc, job, mem, overtaken>>
    BY <1>3 DEF Tick, vars, store, proc
  <2> QED BY <2>1 DEF FInv, AllFresh
<1>4. ASSUME NEW p \in Procs, Command(p) \/ Step(p) \/ Crash(p) PROVE AllFresh'
  BY <1>4, FreshCommand, FreshSteps
<1>5. AllFresh'
  BY <1>2, <1>3, <1>4, Zenon DEF Next
<1> QED BY <1>1, <1>5 DEF FInv

----------------------------------------------------------------------------
(* What no step breaks but the write of a command that was overtaken.      *)

\* A save or a last write that is not late is of a command nobody overtook.
LEMMA NotLate ==
  ASSUME FInv, NEW p \in Procs, Save(p) \/ Accept(p) \/ Crash(p), ~Late
  PROVE  p \notin overtaken /\ Fresh(pc[p], job[p], mem[p], policy, accepted)
<1>1. pc'[p] # pc[p]
  BY DEF FInv, TInv, Types, Save, Accept, Crash, Done, Goto, At
<1> QED BY <1>1 DEF Late, FInv, AllFresh

\* Every step that is not late tightens the policy.
LEMMA NextTightens ==
  ASSUME FInv, [Next]_vars, ~Late
  PROVE  Tightens(policy, policy')
<1>1. ASSUME policy' = policy PROVE Tightens(policy, policy')
  BY <1>1 DEF Tightens
<1>2. ASSUME NEW p \in Procs, Command(p) \/ Crash(p) PROVE policy' = policy
  BY <1>2 DEF Command, Crash, Generate, ImportKey, Revoke, ImportBundle, SelectSigningKey, store
<1>3. ASSUME NEW p \in Procs, Step(p) PROVE Tightens(policy, policy')
  <2>1. CASE Save(p)
    <3>1. mem[p] = policy
      BY <2>1, NotLate DEF Fresh, Save, At
    <3> QED BY <2>1, <3>1, SaveTightens DEF FInv
  <2>2. CASE ~Save(p)
    <3>1. policy' = policy
      BY <1>3, <2>2 DEF Step, WritePrivate, WritePub, PubsWritten, Load, Accept, Produce, store
    <3> QED BY <1>1, <3>1
  <2> QED BY <2>1, <2>2
<1>4. Tick \/ UNCHANGED vars => policy' = policy
  BY DEF Tick, vars, store
<1> QED BY <1>1, <1>2, <1>3, <1>4, HandTightens DEF Next, FInv

\* Whatever commands run at once and wherever they are killed, only a command
\* that another overtook takes a revocation back.
THEOREM RevocationHolds == Spec => RevocationFinal
<1>1. FInv /\ [Next]_vars
        => [Late \/ \A k \in Keys : IsRevoked(policy[k]) => IsRevoked(policy'[k])]_vars
  BY NextTightens DEF Tightens
<1> QED BY <1>1, FInvInit, FInvNext, PTL DEF Spec, RevocationFinal

\* The record of bundles changes by a last write, or by a crash in it.
LEMMA RecordChanges ==
  ASSUME FInv, [Next]_vars, accepted' # accepted
  PROVE  \E p \in Procs :
           /\ pc[p] = "accept" /\ job[p].cmd = "bundle" /\ job[p].bundle.issuer \in Keys
           /\ \/ Accept(p)
              \/ Crash(p) /\ accepted' = [accepted EXCEPT ![job[p].bundle.issuer] = Torn]
<1>1. ASSUME NEW p \in Procs, Accept(p) \/ Crash(p)
      PROVE  /\ pc[p] = "accept" /\ job[p].cmd = "bundle" /\ job[p].bundle.issuer \in Keys
             /\ \/ Accept(p)
                \/ Crash(p) /\ accepted' = [accepted EXCEPT ![job[p].bundle.issuer] = Torn]
  <2>1. /\ pc[p] = "accept"
        /\ Accept(p) \/ (Crash(p) /\ accepted' = [accepted EXCEPT ![job[p].bundle.issuer] = Torn])
    BY <1>1 DEF Accept, Crash, At, store
  <2>2. Equipped("accept", job[p], mem[p])
    BY <2>1 DEF FInv, TInv, AllEquipped
  <2> QED BY <2>1, <2>2 DEF Equipped, BundleType
<1>2. ASSUME NEW p \in Procs, Command(p) PROVE accepted' = accepted
  BY <1>2 DEF Command, Generate, ImportKey, Revoke, ImportBundle, SelectSigningKey, store
<1>3. ASSUME NEW p \in Procs, Step(p), ~Accept(p) PROVE accepted' = accepted
  BY <1>3 DEF Step, WritePrivate, WritePub, PubsWritten, Load, Save, Produce, store
<1>4. Tick \/ (\E k \in Keys : RevokeByHand(k)) \/ UNCHANGED vars => accepted' = accepted
  BY DEF Tick, RevokeByHand, vars, store
<1>5. PICK p \in Procs : Accept(p) \/ Crash(p)
  BY <1>2, <1>3, <1>4 DEF Next
<1> QED BY <1>1, <1>5

\* An authority the store has revoked gets neither a bundle on record nor a
\* change of the policy, by any import that nobody overtook.
THEOREM RevokedOutHolds == Spec => RevokedAuthorityOut
<1> DEFINE Out(i) == /\ accepted'[i] = accepted[i]
                     /\ \A p \in Procs : ImportsFrom(p, i) /\ pc'[p] # pc[p] => policy' = policy
<1>1. ASSUME FInv, [Next]_vars, ~Late, NEW i \in Keys, IsRevoked(policy[i]) PROVE Out(i)
  <2>1. Types
    BY <1>1 DEF FInv, TInv
  <2>2. accepted'[i] = accepted[i]
    <3>1. CASE accepted' = accepted
      BY <3>1
    <3>2. CASE accepted' # accepted
      <4>1. PICK p \in Procs :
              /\ pc[p] = "accept" /\ job[p].cmd = "bundle" /\ job[p].bundle.issuer \in Keys
              /\ \/ Accept(p)
                 \/ Crash(p) /\ accepted' = [accepted EXCEPT ![job[p].bundle.issuer] = Torn]
        BY <1>1, <3>2, RecordChanges
      <4>2. ~IsRevoked(policy[job[p].bundle.issuer])
        BY <1>1, <4>1, NotLate DEF Fresh
      <4>3. accepted' = [accepted EXCEPT ![job[p].bundle.issuer] = accepted'[job[p].bundle.issuer]]
        BY <2>1, <4>1 DEF Accept, Types
      <4> QED BY <1>1, <2>1, <4>2, <4>3 DEF Types
    <3> QED BY <3>1, <3>2
  <2>3. ASSUME NEW p \in Procs, ImportsFrom(p, i), pc'[p] # pc[p] PROVE policy' = policy
    <3>1. pc[p] # "idle" /\ job[p].cmd = "bundle" /\ job[p].bundle.issuer = i
      BY <2>3 DEF ImportsFrom, At
    <3>2. p \notin overtaken /\ Fresh(pc[p], job[p], mem[p], policy, accepted)
      BY <1>1, <2>3 DEF Late, FInv, AllFresh
    <3> QED BY <1>1, <3>1, <3>2 DEF Fresh
  <2> QED BY <2>2, <2>3
<1>2. FInv /\ [Next]_vars => [Late \/ \A i \in Keys : IsRevoked(policy[i]) => Out(i)]_vars
  BY <1>1
<1> QED BY <1>2, FInvInit, FInvNext, PTL DEF Spec, RevokedAuthorityOut

\* Once trust.toml holds what every accepted bundle says, it does so until a
\* command writes that was overtaken: no crash between the two files ends it.
THEOREM AppliedHolds == Spec => AppliedStays
<1>1. ASSUME FInv, [Next]_vars, ~Late, AcceptedApplied PROVE AcceptedApplied'
  <2>1. Tightens(policy, policy') /\ Types
    BY <1>1, NextTightens DEF FInv, TInv
  <2>2. ASSUME \A i \in Keys : accepted'[i] \in {accepted[i], Torn} PROVE AcceptedApplied'
    BY <1>1, <2>1, <2>2 DEF AcceptedApplied, Applied, Kept, Tightens
  <2>3. CASE accepted' = accepted
    BY <2>2, <2>3
  <2>4. CASE accepted' # accepted
    <3>1. PICK p \in Procs :
            /\ pc[p] = "accept" /\ job[p].cmd = "bundle" /\ job[p].bundle.issuer \in Keys
            /\ \/ Accept(p)
               \/ Crash(p) /\ accepted' = [accepted EXCEPT ![job[p].bundle.issuer] = Torn]
      BY <1>1, <2>4, RecordChanges
    <3> DEFINE b == job[p].bundle
    <3>2. CASE Accept(p)
      <4>1. Applied(b, policy) /\ policy' = policy /\ accepted' = [accepted EXCEPT ![b.issuer] = b]
        BY <1>1, <3>1, <3>2, NotLate DEF Fresh, Accept
      <4> HIDE DEF b
      <4> QED BY <1>1, <2>1, <4>1 DEF AcceptedApplied, Applied, Kept, Types
    <3>3. CASE Crash(p) /\ accepted' = [accepted EXCEPT ![b.issuer] = Torn]
      BY <2>1, <2>2, <3>3 DEF Types
    <3> QED BY <3>1, <3>2, <3>3
  <2> QED BY <2>3, <2>4
<1>2. FInv /\ [Next]_vars => [Late \/ (AcceptedApplied => AcceptedApplied')]_vars
  BY <1>1
<1> QED BY <1>2, FInvInit, FInvNext, PTL DEF Spec, AppliedStays

----------------------------------------------------------------------------
(* The promise to readers.                                                 *)

\* The bundle of an import under way is one there is to import.
OInv == \A p \in Procs : pc[p] # "idle" /\ job[p].cmd = "bundle" => job[p].bundle \in Offered

\* Bundles on offer are never withdrawn.
LEMMA OInvNext == FInv /\ OInv /\ [Next]_vars => OInv' /\ issued \subseteq issued'
<1> SUFFICES ASSUME FInv, OInv, [Next]_vars PROVE OInv' /\ issued \subseteq issued'
  OBVIOUS
<1>1. TInv /\ Types
  BY DEF FInv, TInv
<1>2. ASSUME NEW p \in Procs, Command(p) PROVE issued' = issued
  BY <1>2 DEF Command, Generate, ImportKey, Revoke, ImportBundle, SelectSigningKey, ghost
<1>3. ASSUME NEW p \in Procs, Step(p) \/ Crash(p) PROVE issued \subseteq issued' /\ pc[p] # "idle"
  BY <1>3 DEF Step, WritePrivate, WritePub, PubsWritten, Load, Save, Accept, Produce, Crash, ghost, At
<1>4. ASSUME NEW p \in Procs, Step(p) \/ Crash(p) PROVE Done(p) \/ job' = job
  BY <1>4 DEF Step, WritePrivate, WritePub, PubsWritten, Load, Save, Accept, Produce, Crash
<1>5. Tick \/ (\E k \in Keys : RevokeByHand(k)) \/ UNCHANGED vars => UNCHANGED <<issued, pc, job>>
  BY DEF Tick, RevokeByHand, vars, proc, ghost
<1>6. ASSUME NEW p \in Procs, Command(p) PROVE OInv'
  <2>1. \A q \in Procs : q # p => pc'[q] = pc[q] /\ job'[q] = job[q]
    BY <1>1, <1>6, OthersStay
  <2>2. job'[p].cmd = "bundle" => job'[p].bundle \in Offered
    <3>1. CASE \E b \in Bundles \cup issued, named \in BOOLEAN : ImportBundle(p, b, named)
      <4>1. PICK b \in Bundles \cup issued, named \in BOOLEAN : ImportBundle(p, b, named)
        BY <3>1
      <4>2. job'[p].bundle = b
        BY <1>1, <4>1 DEF ImportBundle, Start, Types
      <4> QED BY <4>1, <4>2 DEF Offered
    <3>2. CASE ~\E b \in Bundles \cup issued, named \in BOOLEAN : ImportBundle(p, b, named)
      BY <1>1, <1>6, <3>2
         DEF Command, Generate, ImportKey, Revoke, SelectSigningKey, Start, Job, Types
    <3> QED BY <3>1, <3>2
  <2> QED BY <1>2, <1>6, <2>1, <2>2 DEF OInv, Offered
<1>7. ASSUME NEW p \in Procs, Step(p) \/ Crash(p) PROVE OInv'
  <2>1. \A q \in Procs : q # p => pc'[q] = pc[q] /\ job'[q] = job[q]
    BY <1>1, <1>7, OthersStay
  <2>2. pc'[p] = "idle" \/ job'[p] = job[p]
    BY <1>1, <1>4, <1>7 DEF Done, Goto, Types
  <2> QED BY <1>3, <1>7, <2>1, <2>2 DEF OInv, Offered
<1> QED BY <1>2, <1>3, <1>5, <1>6, <1>7 DEF Next, OInv, Offered

\* The promise speaks of the same entries and bundles.
LEMMA SameTerms ==
  /\ Promise!Torn = Torn /\ Promise!Absent = Absent
  /\ Promise!Entries = Entries /\ Promise!BundleType = BundleType
  /\ \A old, new : Promise!Tightens(old, new) <=> Tightens(old, new)
  /\ \A b, entries : Promise!Applied(b, entries) <=> Applied(b, entries)
<1>1. Promise!Torn = Torn /\ Promise!Absent = Absent
  BY DEF Promise!Torn, Torn, Promise!Absent, Absent
<1>2. Promise!Entries = Entries
  BY DEF Promise!Entries, Entries, Promise!Absent, Absent, Promise!Trusted, Trusted,
         Promise!Revoked, Revoked
<1>3. Promise!BundleType = BundleType
  BY <1>2 DEF Promise!BundleType, BundleType, Promise!Times, Times
<1>4. \A e : Promise!IsRevoked(e) <=> IsRevoked(e)
  BY DEF Promise!IsRevoked, IsRevoked
<1> QED BY <1>1, <1>2, <1>3, <1>4
        DEF Promise!Tightens, Tightens, Promise!Applied, Applied

\* What a step of TrustStore is to its readers.
PromiseStep == Promise!StoreStep \/ Promise!Offer \/ UNCHANGED <<policy, accepted, clock, Offered>>

\* The record changes: a bundle that is applied and newer is kept, or torn.
LEMMA RecordPromise ==
  ASSUME FInv, OInv, [Next]_vars, ~Late, accepted' # accepted
  PROVE  PromiseStep
<1>1. PICK p \in Procs :
        /\ pc[p] = "accept" /\ job[p].cmd = "bundle" /\ job[p].bundle.issuer \in Keys
        /\ \/ Accept(p)
           \/ Crash(p) /\ accepted' = [accepted EXCEPT ![job[p].bundle.issuer] = Torn]
  BY RecordChanges
<1> DEFINE b == job[p].bundle
<1>2. /\ Applied(b, policy) /\ accepted[b.issuer] # Torn /\ b \in Offered
      /\ accepted[b.issuer] # None => accepted[b.issuer].at < b.at
  BY <1>1, NotLate DEF Fresh, OInv
<1>3. policy' = policy /\ clock' = clock /\ issued' = issued
  BY <1>1 DEF Accept, Crash, store, ghost
<1>4. CASE Accept(p)
  <2>1. accepted' = [accepted EXCEPT ![b.issuer] = b]
    BY <1>4 DEF Accept
  <2> HIDE DEF b
  <2>2. Promise!Keep(b)
    BY <1>2, <1>3, <2>1, SameTerms DEF Promise!Keep
  <2> QED BY <1>2, <2>2 DEF PromiseStep, Promise!StoreStep, Offered
<1>5. CASE Crash(p) /\ accepted' = [accepted EXCEPT ![b.issuer] = Torn]
  <2>1. b.issuer \in Keys
    BY <1>1
  <2> HIDE DEF b
  <2>2. Promise!Tear(b.issuer)
    BY <1>3, <1>5, SameTerms DEF Promise!Tear
  <2> QED BY <2>1, <2>2 DEF PromiseStep, Promise!StoreStep
<1> QED BY <1>1, <1>4, <1>5

\* The policy or the clock changes, or a bundle is signed.
LEMMA PolicyPromise ==
  ASSUME FInv, FInv', OInv, [Next]_vars, ~Late, accepted' = accepted
  PROVE  PromiseStep
<1>1. Tightens(policy, policy') /\ policy' \in [Keys -> Entries] /\ issued \subseteq issued'
  BY NextTightens, OInvNext DEF FInv, TInv, Types
<1>2. CASE Tick
  <2>1. Promise!Pass
    BY <1>2 DEF Tick, Promise!Pass, store, ghost
  <2> QED BY <2>1 DEF PromiseStep, Promise!StoreStep
<1>3. CASE ~Tick
  <2>1. clock' = clock
    BY <1>3 DEF Next, Command, Generate, ImportKey, Revoke, ImportBundle, SelectSigningKey,
       Step, WritePrivate, WritePub, PubsWritten, Load, Save, Accept, Produce, Crash, RevokeByHand, vars
  <2>2. CASE policy' = policy
    BY <1>1, <2>1, <2>2 DEF PromiseStep, Promise!Offer
  <2>3. CASE policy' # policy
    <3>1. issued' = issued
      BY <2>3 DEF Next, Command, Generate, ImportKey, Revoke, ImportBundle, SelectSigningKey,
         Step, WritePrivate, WritePub, PubsWritten, Load, Save, Accept, Produce, Crash,
         RevokeByHand, Tick, vars, store, ghost
    <3>2. Promise!Tighten
      BY <1>1, <2>1, <3>1, SameTerms DEF Promise!Tighten
    <3> QED BY <3>2 DEF PromiseStep, Promise!StoreStep
  <2> QED BY <2>2, <2>3
<1> QED BY <1>2, <1>3

\* The store is what its readers rely on at every step but the write of a command
\* that was overtaken, for any number of commands, keys, bundles and times and
\* through every crash.
THEOREM PromiseHolds == Spec => KeepsPromise
<1>1. Init => OInv /\ Promise!PromiseInit
  BY TrustAssumption, SameTerms DEF Init, OInv, Promise!PromiseInit
<1>2. FInv /\ FInv' /\ OInv /\ [Next]_vars
        => [Late \/ Promise!StoreStep \/ Promise!Offer]_(Promise!promised)
  BY RecordPromise, PolicyPromise DEF PromiseStep, Promise!promised, Offered
<1> QED BY <1>1, <1>2, OInvNext, FInvInit, FInvNext, PTL DEF Spec, KeepsPromise

\* The accepted bundle of an issuer is only replaced by one of a later sequence,
\* but for the last write of an import that was overtaken.
THEOREM ForwardHolds == Spec => AcceptedForward
<1> DEFINE Forward == \A i \in Keys : Kept(i) /\ Kept(i)' => accepted'[i] = accepted[i]
                                                            \/ accepted[i].at < accepted'[i].at
<1>1. ASSUME FInv, [Next]_vars, ~Late PROVE Forward
  <2>1. Types
    BY <1>1 DEF FInv, TInv
  <2>2. CASE accepted' = accepted
    BY <2>2
  <2>3. CASE accepted' # accepted
    <3>1. PICK p \in Procs :
            /\ pc[p] = "accept" /\ job[p].cmd = "bundle" /\ job[p].bundle.issuer \in Keys
            /\ \/ Accept(p)
               \/ Crash(p) /\ accepted' = [accepted EXCEPT ![job[p].bundle.issuer] = Torn]
      BY <1>1, <2>3, RecordChanges
    <3> DEFINE b == job[p].bundle
    <3>2. accepted[b.issuer] # None => accepted[b.issuer].at < b.at
      BY <1>1, <3>1, NotLate DEF Fresh
    <3>3. accepted' \in {[accepted EXCEPT ![b.issuer] = b], [accepted EXCEPT ![b.issuer] = Torn]}
      BY <3>1 DEF Accept
    <3> HIDE DEF b
    <3> QED BY <2>1, <3>2, <3>3 DEF Kept, Types
  <2> QED BY <2>2, <2>3
<1>2. FInv /\ [Next]_vars => [Late \/ Forward]_vars
  BY <1>1
<1> QED BY <1>2, FInvInit, FInvNext, PTL DEF Spec, AcceptedForward
=============================================================================
