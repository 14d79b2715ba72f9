----------------------------- MODULE TrustStore -----------------------------
(***************************************************************************)
(* src/keys.rs and src/trust.rs: the trust store of a workspace, the       *)
(* `attest keys` and `attest trust` commands that change it, and the       *)
(* bundles that carry trust from one store to another.                     *)
(*                                                                         *)
(* The store is files: trust.toml (replaced by rename), one .pub per key,  *)
(* one .key per private key and one accepted bundle per issuer (plain      *)
(* writes, which a crash tears).  Nothing locks them: every command loads, *)
(* changes and saves, and may overtake another that does the same.  A key  *)
(* id is derived from the key, so a key is its own id.                     *)
(*                                                                         *)
(* A command is at                                                         *)
(*   idle    no process                                                    *)
(*   private the .key file is to be written                                *)
(*   pubs    .pub files are to be written                                  *)
(*   load    the policy is to be loaded                                    *)
(*   save    the changed policy is to be saved                             *)
(*   accept  the bundle is to be kept as the accepted one                  *)
(*   sign    a bundle is to be assembled and signed                        *)
(*                                                                         *)
(* An operator under "Fault:" is a plausible slip in the definition that   *)
(* follows it; none is part of the specification.                          *)
(***************************************************************************)
EXTENDS TrustEntries, FiniteSets

CONSTANTS
  Procs,     \* commands that may run at the same time
  Own,       \* the keys this workspace may generate
  Bundles,   \* bundles others hand over, sound ones or not
  MaxIssued  \* bound: bundles this workspace signs

VARIABLES
  policy,    \* trust.toml: the first entry of every key
  doubled,   \* trust.toml lists a key twice
  pub,       \* <trust>/<id>.pub
  priv,      \* <keys>/<id>.key
  accepted,  \* <trust>/bundles/<issuer>.json
  clock,     \* Utc::now
  pc, job, todo, mem,   \* each command: place, what it does, .pub files to write, loaded policy
  issued,    \* bundles this workspace signed
  pinned,    \* issuers a user named with --issuer
  history,   \* bundles that were ever accepted
  overtaken  \* commands during whose run another wrote trust.toml or a record

store == <<policy, doubled, pub, priv, accepted>>
proc  == <<pc, job, todo, mem, overtaken>>
ghost == <<issued, pinned, history>>
vars  == <<store, clock, proc, ghost>>

\* A file written with fs::write.
Files == {"absent", "torn", "good"}

Jobs == [cmd : {"generate", "import", "revoke", "bundle", "produce"},
         key : Keys, bundle : BundleType \cup {None}]

ASSUME TrustAssumption ==
  /\ MaxTime \in Nat \ {0} /\ MaxIssued \in Nat
  /\ Own \subseteq Keys
  /\ Bundles \subseteq BundleType
  /\ \A b \in Bundles : \A k \in Own : b.keys[k] = Absent
  /\ None \notin Keys \cup BundleType \cup Jobs
  /\ Torn \notin BundleType \cup {None}

Init ==
  /\ policy = [k \in Keys |-> Absent]
  /\ doubled = FALSE
  /\ pub = [k \in Keys |-> "absent"]
  /\ priv = [k \in Own |-> "absent"]
  /\ accepted = [k \in Keys |-> None]
  /\ clock = 1
  /\ pc = [p \in Procs |-> "idle"]
  /\ job = [p \in Procs |-> None]
  /\ todo = [p \in Procs |-> {}]
  /\ mem = [p \in Procs |-> None]
  /\ issued = {} /\ pinned = {} /\ history = {}
  /\ overtaken = {}

----------------------------------------------------------------------------
At(p, l)   == pc[p] = l
Goto(p, l) == pc' = [pc EXCEPT ![p] = l]

\* The process ends, with or without success.
Done(p) ==
  /\ Goto(p, "idle")
  /\ job' = [job EXCEPT ![p] = None]
  /\ todo' = [todo EXCEPT ![p] = {}]
  /\ mem' = [mem EXCEPT ![p] = None]

Start(p, l, j, ks) ==
  /\ At(p, "idle")
  /\ Goto(p, l)
  /\ job' = [job EXCEPT ![p] = j]
  /\ todo' = [todo EXCEPT ![p] = ks]
  /\ overtaken' = overtaken \ {p}
  /\ UNCHANGED mem

\* The step of p that writes trust.toml or an accepted record: the commands
\* under way go on with what they read before.  Only properties look at this.
Overtakes(p) == overtaken' = overtaken \cup {q \in Procs \ {p} : ~At(q, "idle")}

Job(c, k) == [cmd |-> c, key |-> k, bundle |-> None]

\* TrustPolicy::load: a policy that lists a key twice, or one whose .pub is
\* missing or no key, is refused as a whole.
Loads == ~doubled /\ \A k \in Keys : policy[k] # Absent => pub[k] = "good"

----------------------------------------------------------------------------
(* attest keys                                                             *)

\* KeyStore::generate, to the check that nothing is overwritten.
Generate(p, k) ==
  /\ priv[k] = "absent" /\ pub[k] = "absent"
  /\ Start(p, "private", Job("generate", k), {k})
  /\ UNCHANGED <<store, clock, ghost>>

\* The private half is created with its mode and synced.
WritePrivate(p) ==
  /\ At(p, "private")
  /\ priv' = [priv EXCEPT ![job[p].key] = "good"]
  /\ Goto(p, "pubs")
  /\ UNCHANGED <<policy, doubled, pub, accepted, clock, job, todo, mem, overtaken, ghost>>

\* KeyStore::import of a public key file, which for a key of our own is one
\* that `keys export` wrote.
ImportKey(p, k) ==
  /\ k \in Own => pub[k] = "good"
  /\ Start(p, "pubs", Job("import", k), {k})
  /\ UNCHANGED <<store, clock, ghost>>

\* KeyStore::revoke
Revoke(p, k) ==
  /\ Start(p, "load", Job("revoke", k), {})
  /\ UNCHANGED <<store, clock, ghost>>

\* The next .pub file of a command, in the order of the ids.
NextPub(p) == CHOOSE k \in todo[p] : TRUE

\* One .pub file: a file that is there, whatever is in it, is left alone.
WritePub(p) ==
  /\ At(p, "pubs")
  /\ todo[p] # {}
  /\ pub' = [pub EXCEPT ![NextPub(p)] = IF @ = "absent" THEN "good" ELSE @]
  /\ todo' = [todo EXCEPT ![p] = @ \ {NextPub(p)}]
  /\ UNCHANGED <<policy, doubled, priv, accepted, clock, pc, job, mem, overtaken, ghost>>

\* Every key of the bundle has its file: trust.toml is loaded again for the merge.
PubsWritten(p) ==
  /\ At(p, "pubs")
  /\ todo[p] = {}
  /\ Goto(p, "load")
  /\ UNCHANGED <<store, clock, job, todo, mem, overtaken, ghost>>

\* Fault: the bundle's statement replaces the local one.
MergeTakes(e, b) == IF b = Absent THEN e ELSE b

\* trust::import, one key: a bundle adds, revokes and dates a revocation
\* earlier, and never the other way round.
Merge(e, b) ==
  CASE b = Absent -> e
    [] e = Absent -> b
    [] e = Trusted /\ IsRevoked(b) -> b
    [] IsRevoked(e) /\ IsRevoked(b) /\ b.at < e.at -> b
    [] OTHER -> e

\* Fault: a bundle that brings no new key is accepted without a save.
LoadSkipsKnown(p) ==
  LET j == job[p] IN
  /\ At(p, "load")
  /\ IF /\ Loads
        /\ j.cmd = "import" => policy[j.key] = Absent
        /\ j.cmd = "revoke" => policy[j.key] # Absent
     THEN /\ mem' = [mem EXCEPT ![p] = policy]
          /\ Goto(p, IF j.cmd = "bundle"
                        /\ \A k \in Keys : j.bundle.keys[k] # Absent => policy[k] # Absent
                     THEN "accept" ELSE "save")
          /\ UNCHANGED <<job, todo>>
     ELSE Done(p)
  /\ UNCHANGED <<store, clock, overtaken, ghost>>

\* The load, and whether there is anything to save.
Load(p) ==
  LET j == job[p] IN
  /\ At(p, "load")
  /\ IF /\ Loads
        /\ j.cmd = "import" => policy[j.key] = Absent
        /\ j.cmd = "revoke" => policy[j.key] # Absent
     THEN /\ mem' = [mem EXCEPT ![p] = policy]
          /\ Goto(p, "save")
          /\ UNCHANGED <<job, todo>>
     ELSE Done(p)
  /\ UNCHANGED <<store, clock, overtaken, ghost>>

\* TrustPolicy::save: the whole file, by rename, from what was loaded.  Only
\* generate adds its entry without a look whether there is one.
Save(p) ==
  LET j == job[p] IN
  /\ At(p, "save")
  /\ policy' =
       CASE j.cmd \in {"generate", "import"} -> [mem[p] EXCEPT ![j.key] = IF @ = Absent THEN Trusted ELSE @]
         [] j.cmd = "revoke" -> [mem[p] EXCEPT ![j.key] = Revoked(clock)]
         [] j.cmd = "bundle" -> [k \in Keys |-> Merge(mem[p][k], j.bundle.keys[k])]
  /\ doubled' = (j.cmd = "generate" /\ mem[p][j.key] # Absent)
  /\ IF j.cmd = "bundle" THEN Goto(p, "accept") /\ UNCHANGED <<job, todo, mem>> ELSE Done(p)
  /\ Overtakes(p)
  /\ UNCHANGED <<pub, priv, accepted, clock, ghost>>

----------------------------------------------------------------------------
(* attest trust import                                                     *)

\* Every revocation is dated and the issuer vouches for itself.
KeysCheck(b) ==
  /\ \A k \in Keys : IsRevoked(b.keys[k]) => b.keys[k].at # 0
  /\ b.keys[b.issuer] = Trusted

\* The successor, if any, is another key the bundle vouches for.
SuccessorCheck(b) ==
  b.successor # None => b.successor # b.issuer /\ b.keys[b.successor] = Trusted

\* trust::examine: every check passes at `now`.
Examine(b, now) ==
  /\ b.intact
  /\ KeysCheck(b) /\ SuccessorCheck(b)
  /\ b.at <= now /\ now <= b.until

\* Fault: anyone may be first.
GroundsAny(i, named) == named \/ \A j \in Keys : accepted[j] # Torn

\* The first bundle of an issuer: the user names the issuer, or an accepted
\* bundle names it as successor; a torn file among them is an error.
Grounds(i, named) ==
  \/ named
  \/ /\ \A j \in Keys : accepted[j] # Torn
     /\ \E j \in Keys : accepted[j] # None /\ accepted[j].successor = i

\* A bundle is not older than the accepted one, nor a second one of its age.
NotOlder(b) ==
  LET a == accepted[b.issuer] IN
  /\ a # Torn
  /\ a # None => a.at <= b.at /\ (a.at = b.at => a = b)

\* Fault: the issuer's own standing is not looked at.
ImportBundleOfAnyone(p, b, named) ==
  /\ Examine(b, clock)
  /\ Loads
  /\ NotOlder(b)
  /\ accepted[b.issuer] = None => Grounds(b.issuer, named)
  /\ accepted[b.issuer] # b
  /\ pinned' = IF named THEN pinned \cup {b.issuer} ELSE pinned
  /\ Start(p, "pubs", [cmd |-> "bundle", key |-> b.issuer, bundle |-> b],
           {k \in Keys : b.keys[k] # Absent})
  /\ UNCHANGED <<store, clock, issued, history>>

\* trust::import up to its first write; `named` when --issuer names the issuer
\* of the bundle.  A refusal, or a bundle that is the accepted one already,
\* changes nothing.
ImportBundle(p, b, named) ==
  /\ Examine(b, clock)
  /\ Loads
  /\ ~IsRevoked(policy[b.issuer])
  /\ NotOlder(b)
  /\ accepted[b.issuer] = None => Grounds(b.issuer, named)
  /\ accepted[b.issuer] # b
  /\ pinned' = IF named THEN pinned \cup {b.issuer} ELSE pinned
  /\ Start(p, "pubs", [cmd |-> "bundle", key |-> b.issuer, bundle |-> b],
           {k \in Keys : b.keys[k] # Absent})
  /\ UNCHANGED <<store, clock, issued, history>>

\* The bundle is kept "only once the store holds the keys".
Accept(p) ==
  LET b == job[p].bundle IN
  /\ At(p, "accept")
  /\ accepted' = [accepted EXCEPT ![b.issuer] = b]
  /\ history' = history \cup {b}
  /\ Done(p)
  /\ Overtakes(p)
  /\ UNCHANGED <<policy, doubled, pub, priv, clock, issued, pinned>>

----------------------------------------------------------------------------
(* attest trust bundle                                                     *)

\* select_signing_key: the requested key, or the only one; it must be trusted.
SelectSigningKey(p, k, requested) ==
  /\ Cardinality(issued) < MaxIssued
  /\ priv[k] # "absent"
  /\ requested \/ \A o \in Own : priv[o] # "absent" => o = k
  /\ Loads /\ policy[k] = Trusted
  /\ priv[k] = "good"
  /\ Start(p, "sign", Job("produce", k), {})
  /\ UNCHANGED <<store, clock, ghost>>

Bundle(k, s, days) ==
  [issuer |-> k, at |-> clock, until |-> clock + days, keys |-> policy,
   successor |-> s, intact |-> TRUE]

\* Fault: an undated revocation is bundled as it is.
ProduceUndated(p, s, days) ==
  LET k == job[p].key IN
  /\ At(p, "sign")
  /\ IF Loads /\ policy[k] = Trusted /\ (s # None => s # k /\ policy[s] = Trusted)
     THEN issued' = issued \cup {Bundle(k, s, days)}
     ELSE UNCHANGED issued
  /\ Done(p)
  /\ UNCHANGED <<store, clock, pinned, history, overtaken>>

\* trust::produce, from its own load of the policy on.
Produce(p, s, days) ==
  LET k == job[p].key IN
  /\ At(p, "sign")
  /\ IF /\ Loads
        /\ \A o \in Keys : IsRevoked(policy[o]) => policy[o].at # 0
        /\ policy[k] = Trusted
        /\ s # None => s # k /\ policy[s] = Trusted
     THEN issued' = issued \cup {Bundle(k, s, days)}
     ELSE UNCHANGED issued
  /\ Done(p)
  /\ UNCHANGED <<store, clock, pinned, history, overtaken>>

----------------------------------------------------------------------------
\* The process is killed, or a write fails, and a file it was writing is torn.
Crash(p) ==
  /\ ~At(p, "idle")
  /\ Done(p)
  /\ \/ UNCHANGED <<store, overtaken>>
     \/ /\ At(p, "private")
        /\ priv' = [priv EXCEPT ![job[p].key] = "torn"]
        /\ UNCHANGED <<policy, doubled, pub, accepted, overtaken>>
     \/ /\ At(p, "pubs")
        /\ todo[p] # {} /\ pub[NextPub(p)] = "absent"
        /\ pub' = [pub EXCEPT ![NextPub(p)] = "torn"]
        /\ UNCHANGED <<policy, doubled, priv, accepted, overtaken>>
     \/ /\ At(p, "accept")
        /\ accepted' = [accepted EXCEPT ![job[p].bundle.issuer] = Torn]
        /\ Overtakes(p)
        /\ UNCHANGED <<policy, doubled, pub, priv>>
  /\ UNCHANGED <<clock, ghost>>

\* A maintainer edits trust.toml while no command runs: revoked, without a date.
RevokeByHand(k) ==
  /\ \A p \in Procs : At(p, "idle")
  /\ policy[k] = Trusted
  /\ policy' = [policy EXCEPT ![k] = Revoked(0)]
  /\ UNCHANGED <<doubled, pub, priv, accepted, clock, proc, ghost>>

Tick ==
  /\ clock < MaxTime
  /\ clock' = clock + 1
  /\ UNCHANGED <<store, proc, ghost>>

Command(p) ==
  /\ At(p, "idle")
  /\ \/ \E k \in Own : Generate(p, k)
     \/ \E k \in Keys : ImportKey(p, k) \/ Revoke(p, k)
     \/ \E b \in Bundles \cup issued, named \in BOOLEAN : ImportBundle(p, b, named)
     \/ \E k \in Own, requested \in BOOLEAN : SelectSigningKey(p, k, requested)

Step(p) ==
  \/ WritePrivate(p) \/ WritePub(p) \/ PubsWritten(p) \/ Load(p) \/ Save(p) \/ Accept(p)
  \/ \E s \in Keys \cup {None}, days \in 0 .. 1 : Produce(p, s, days)

Next ==
  \/ \E p \in Procs : Command(p) \/ Step(p) \/ Crash(p)
  \/ \E k \in Keys : RevokeByHand(k)
  \/ Tick

Spec == Init /\ [][Next]_vars

----------------------------------------------------------------------------
(* Properties.                                                             *)

\* Types; a command that is to save has loaded, one that is to accept has a bundle.
TypeOK ==
  /\ policy \in [Keys -> Entries] /\ doubled \in BOOLEAN
  /\ pub \in [Keys -> Files] /\ priv \in [Own -> Files]
  /\ accepted \in [Keys -> BundleType \cup {None, Torn}]
  /\ clock \in Times
  /\ pc \in [Procs -> {"idle", "private", "pubs", "load", "save", "accept", "sign"}]
  /\ job \in [Procs -> Jobs \cup {None}]
  /\ todo \in [Procs -> SUBSET Keys]
  /\ mem \in [Procs -> [Keys -> Entries] \cup {None}]
  /\ \A p \in Procs : pc[p] = "save" => mem[p] \in [Keys -> Entries]
  /\ \A p \in Procs : pc[p] = "accept" => job[p].bundle \in BundleType
  /\ issued \subseteq BundleType /\ pinned \subseteq Keys /\ history \subseteq BundleType
  /\ overtaken \subseteq Procs

\* Trust starts with an issuer a user named and spreads by handover only: every
\* set of issuers that holds the named ones and is closed under the successors
\* of its accepted bundles holds every issuer ever accepted.
AuthorityGrounds ==
  \A S \in SUBSET Keys :
    /\ pinned \subseteq S
    /\ \A b \in history : b.issuer \in S /\ b.successor # None => b.successor \in S
    => \A b \in history : b.issuer \in S

Kept(i) == accepted[i] \notin {None, Torn}

\* The command of p is an import of a bundle of issuer i.
ImportsFrom(p, i) == ~At(p, "idle") /\ job[p].cmd = "bundle" /\ job[p].bundle.issuer = i

\* A step of a command that another overtook.  The next five properties say that
\* nothing but the missing lock can break them, whatever commands run at once,
\* are killed or were overtaken before; RevocationStands is the first of them as
\* the code states it, and fails.
Late == \E p \in overtaken : pc'[p] # pc[p]

\* No command, crashed or not, takes a revocation back, unless another wrote the
\* store while it ran.
RevocationFinal ==
  [][Late \/ \A k \in Keys : IsRevoked(policy[k]) => IsRevoked(policy'[k])]_vars

\* Once the store has revoked an authority neither the record of its bundle nor,
\* by an import of its bundle, the policy changes, unless the import was
\* overtaken.
RevokedAuthorityOut ==
  [][Late \/ \A i \in Keys : IsRevoked(policy[i]) =>
               /\ accepted'[i] = accepted[i]
               /\ \A p \in Procs : ImportsFrom(p, i) /\ pc'[p] # pc[p] => policy' = policy]_vars

\* "A bundle cannot go backwards": the accepted bundle of an issuer is replaced
\* by one of a later sequence only, unless the import was overtaken.
AcceptedForward ==
  [][Late \/ \A i \in Keys : Kept(i) /\ Kept(i)' => accepted'[i] = accepted[i]
                                                    \/ accepted[i].at < accepted'[i].at]_vars

\* The accepted bundle is a promise about trust.toml: it lists every key of the
\* bundle, and has revoked what the bundle revokes.
AcceptedApplied == \A i \in Keys : Kept(i) => Applied(accepted[i], policy)

\* A retry of the accepted bundle does nothing, so no crash between the two files
\* may break the promise: only a command that was overtaken does.
AppliedStays == [][Late \/ (AcceptedApplied => AcceptedApplied')]_vars

\* What produce signs passes examine, through its window and no longer.
IssuedVerifies ==
  \A b \in issued : \A now \in Times :
    Examine(b, now) <=> b.at <= now /\ now <= b.until

Promise == INSTANCE TrustPromise WITH offered <- Bundles \cup issued

\* The store is one that its readers can rely on without a lock: in one step
\* the policy tightens, or a bundle it holds replaces an older one on record,
\* except when a command writes that another overtook.
KeepsPromise ==
  /\ Promise!PromiseInit
  /\ [][Late \/ Promise!StoreStep \/ Promise!Offer]_(Promise!promised)

\* "A bundle does not un-revoke: the local decision stands": an import takes no
\* revocation back.
RevocationStands ==
  [][\A i \in Keys, p \in Procs : ImportsFrom(p, i) /\ pc'[p] # pc[p]
       => \A k \in Keys : IsRevoked(policy[k]) => IsRevoked(policy'[k])]_vars

\* "A policy [...] that fails to parse blocks every operation until someone
\* repairs it by hand": the commands never leave one that does not load.
PolicyLoads == Loads

\* "A revocation only ever moves earlier" and an undated one "stays in force".
EarlierOnly ==
  [][\A k \in Keys : IsRevoked(policy[k]) /\ IsRevoked(policy'[k])
       => policy'[k].at <= policy[k].at]_vars
=============================================================================
