------------------------- MODULE PublicationProofs -------------------------
(***************************************************************************)
(* Proofs about Publication, for any number of publishers, any limits and  *)
(* any set of openings: nothing is disclosed that the record does not      *)
(* account for, what is confirmed is in the log and stays confirmed, and   *)
(* no record, opening or index is ever lost.                               *)
(*                                                                         *)
(* The invariant says how the record of the one publisher at work relates  *)
(* to the file: same opening, at least as many attempts, at least the same *)
(* indices, and one attempt to spare when it is about to send.  All the    *)
(* others are idle, because the lock file stays until they are.            *)
(***************************************************************************)
EXTENDS Publication, WellFoundedInduction, TLAPS

Included(r, g) == r.leaf < Len(g) /\ g[r.leaf + 1] = r.nonce

\* What holds of a publisher at l with record m, when the file holds d, n
\* requests were sent and the log is g.
Working(l, m, d, n, g) ==
  l \notin {"idle", "locked"} =>
    /\ d # NoValue
    /\ m \in Records
    /\ m.nonce = d.nonce
    /\ Len(d.subs) <= Len(m.subs)
    /\ Len(m.subs) <= MaxSubmissions
    /\ Answered(d) \subseteq Answered(m)
    /\ l = "intend" => Len(m.subs) < MaxSubmissions
    /\ l \in {"intend", "intended", "waiting", "sleeping"} => Answered(m) = {}
    /\ l = "intended" => n < Len(d.subs)
    /\ l \in {"intended", "waiting"} => Len(m.subs) > 0
    /\ l = "polling" => Answered(m) # {}
    /\ m.outcome = "confirmed" => Included(m, g)

\* What holds of the file d.
Retained(d, n, g, f) ==
  /\ d = NoValue => n = 0 /\ f = {} /\ \A i \in DOMAIN g : g[i] = Other
  /\ d # NoValue =>
       /\ n <= Len(d.subs)
       /\ Len(d.subs) <= MaxSubmissions
       /\ \A q \in f : q.nonce = d.nonce
       /\ \A i \in DOMAIN g : g[i] \in {Other, d.nonce}
       /\ d.outcome = "confirmed" => Included(d, g)

Types ==
  /\ retained \in Records \cup {NoValue}
  /\ lock \in BOOLEAN
  /\ stage \in [Publishers -> PCs]
  /\ mem \in [Publishers -> Records \cup {NoValue}]
  /\ polls \in [Publishers -> Nat]
  /\ sent \in Nat
  /\ inflight \subseteq [id : Nat, by : Publishers, nonce : Nonces]
  /\ answers \subseteq [id : Nat, by : Publishers, index : Indices]
  /\ log \in Seq(Nonces \cup {Other})
  /\ told \in BOOLEAN

\* At most one publisher is at work, and then the lock file is there.
OneAtWork ==
  \A p, q \in Publishers : stage[p] # "idle" => lock /\ (stage[q] # "idle" => p = q)

AllWorking == \A p \in Publishers : Working(stage[p], mem[p], retained, sent, log)

Reported ==
  told => /\ retained # NoValue
          /\ retained.outcome = "confirmed"
          /\ \A p \in Publishers : stage[p] \in {"idle", "locked"}

IInv ==
  /\ Types /\ OneAtWork /\ AllWorking
  /\ Retained(retained, sent, log, inflight)
  /\ Reported

----------------------------------------------------------------------------
\* Nothing of interest happened to a publisher that is idle.
LEMMA HolderStep ==
  ASSUME IInv, NEW p \in Publishers, NEW l \in PCs, stage[p] # "idle",
         stage' = [stage EXCEPT ![p] = l],
         l # "idle" => lock' = lock,
         Working(l, mem'[p], retained', sent', log')
  PROVE  AllWorking' /\ OneAtWork'
<1>1. \A q \in Publishers \ {p} : stage[q] = "idle" /\ stage'[q] = "idle"
  BY DEF IInv, OneAtWork, Types
<1>2. stage'[p] = l /\ lock
  BY DEF IInv, OneAtWork, Types
<1>3. AllWorking'
  BY <1>1, <1>2 DEF AllWorking, Working
<1>4. OneAtWork'
  BY <1>1, <1>2 DEF OneAtWork
<1> QED BY <1>3, <1>4

\* Only the outcome of a record changes, and not to confirmed.
LEMMA Relabel ==
  ASSUME NEW m \in Records, NEW o \in Reasons
  PROVE  LET r == [m EXCEPT !.outcome = o] IN
         /\ r \in Records /\ r.nonce = m.nonce /\ r.subs = m.subs
         /\ Answered(r) = Answered(m) /\ r.outcome = o /\ o # "confirmed"
BY DEF Records, Answered, Reasons

\* The start.
LEMMA IInvInit == PublicationInit => IInv
<1> SUFFICES ASSUME PublicationInit PROVE IInv
  OBVIOUS
<1> USE DEF PublicationInit
<1>1. Types
  <2>1. stage \in [Publishers -> PCs] /\ mem \in [Publishers -> Records \cup {NoValue}] /\ polls \in [Publishers -> Nat]
    BY DEF PCs
  <2>2. log \in Seq(Nonces \cup {Other})
    OBVIOUS
  <2> QED BY <2>1, <2>2 DEF Types
<1>2. OneAtWork /\ AllWorking /\ Reported
  BY DEF OneAtWork, AllWorking, Working, Reported
<1>3. Retained(retained, sent, log, inflight)
  BY DEF Retained
<1> QED BY <1>1, <1>2, <1>3 DEF IInv

\* A publisher starts.
LEMMA AcquireInv ==
  ASSUME IInv, NEW p \in Publishers, Acquire(p)
  PROVE  IInv'
<1> USE DEF Acquire, At, MoveTo, net, IInv
<1>1. Types'
  BY DEF Types, PCs
<1>2. \A q \in Publishers : stage[q] = "idle"
  BY DEF OneAtWork
<1>3. OneAtWork' /\ Reported'
  BY <1>2 DEF OneAtWork, Types, Reported
<1>4. AllWorking'
  BY <1>2 DEF AllWorking, Working, Types
<1>5. Retained(retained, sent, log, inflight)'
  OBVIOUS
<1> QED BY <1>1, <1>3, <1>4, <1>5

\* A publisher ends, or is killed, without touching the file.
LEMMA GoneInv ==
  ASSUME IInv, NEW p \in Publishers, stage[p] # "idle", Gone(p),
         lock' \in {lock, FALSE}, UNCHANGED <<retained, net, log>>,
         told' \in {told, retained # NoValue /\ retained.outcome = "confirmed"}
  PROVE  IInv'
<1> USE DEF Gone, MoveTo, Keep, net
<1>1. Types'
  BY DEF IInv, Types, PCs
<1>2. AllWorking' /\ OneAtWork'
  <2>1. Working("idle", mem'[p], retained', sent', log')
    BY DEF Working
  <2> QED BY <2>1, HolderStep DEF PCs
<1>3. \A q \in Publishers : stage'[q] = "idle"
  BY DEF IInv, OneAtWork, Types
<1>4. Reported'
  BY <1>3 DEF IInv, Reported
<1>5. Retained(retained, sent, log, inflight)'
  BY DEF IInv
<1> QED BY <1>1, <1>2, <1>4, <1>5 DEF IInv

\* A publisher at work goes on and leaves the file alone.
LEMMA QuietStep ==
  ASSUME IInv, NEW p \in Publishers, stage[p] \notin {"idle", "locked"},
         NEW l \in PCs, stage' = [stage EXCEPT ![p] = l],
         mem' \in [Publishers -> Records \cup {NoValue}], polls' \in [Publishers -> Nat],
         UNCHANGED <<retained, lock, net, log, told>>,
         Working(l, mem'[p], retained, sent, log)
  PROVE  IInv'
<1> USE DEF net
<1>1. Types'
  BY DEF IInv, Types
<1>2. AllWorking' /\ OneAtWork'
  BY HolderStep
<1>3. Reported'
  BY DEF IInv, Reported
<1>4. Retained(retained, sent, log, inflight)'
  BY DEF IInv
<1> QED BY <1>1, <1>2, <1>3, <1>4 DEF IInv

\* A record at least as complete as another.
Extends(r, d) ==
  /\ r \in Records
  /\ r.nonce = d.nonce
  /\ Len(d.subs) <= Len(r.subs)
  /\ Len(r.subs) <= MaxSubmissions
  /\ Answered(d) \subseteq Answered(r)

\* The step loses no record, opening or index, and sends nothing once an index
\* is on disk.
Remembers ==
  retained # NoValue =>
    /\ retained' # NoValue
    /\ retained'.nonce = retained.nonce
    /\ Answered(retained) \subseteq Answered(retained')
    /\ Answered(retained) # {} => sent' = sent

\* RecordStore::save in obtain_inclusion, whether it succeeds or not.
LEMMA SaveInv ==
  ASSUME IInv, NEW p \in Publishers, stage[p] \notin {"idle", "locked"},
         NEW r, NEW r0, NEW l \in PCs, l \notin {"idle", "locked"}, Save(p, r, l, r0),
         Extends(r, retained), Extends(r0, retained), Extends(r0, r),
         r.outcome = "confirmed" => Included(r, log),
         Working(l, r, r, sent, log),
         UNCHANGED <<lock, polls, sent, log, told>>,
         inflight' \subseteq inflight, answers' \subseteq answers
  PROVE  IInv' /\ Remembers
<1> DEFINE r1 == [r0 EXCEPT !.outcome = "invalid"]
<1>1. /\ retained # NoValue /\ retained \in Records /\ sent \in Nat
      /\ mem \in [Publishers -> Records \cup {NoValue}] /\ stage \in [Publishers -> PCs]
  BY DEF IInv, AllWorking, Working, Types
<1>2. /\ r1 \in Records /\ r1.nonce = r0.nonce /\ r1.subs = r0.subs
      /\ Answered(r1) = Answered(r0) /\ r1.outcome # "confirmed"
  BY Relabel DEF Extends, Reasons
<1> HIDE DEF r1
<1>3. Working("finish", r1, retained, sent, log) /\ Working("finish", r1, r, sent, log)
  <2>1. r # NoValue
    BY PublicationAssumption DEF Extends
  <2> QED BY <1>1, <1>2, <2>1 DEF Working, Extends
<1>4. \/ retained' = r /\ mem' = [mem EXCEPT ![p] = r] /\ stage' = [stage EXCEPT ![p] = l]
      \/ retained' \in {retained, r} /\ mem' = [mem EXCEPT ![p] = r1] /\ stage' = [stage EXCEPT ![p] = "finish"]
  BY DEF Save, Keep, MoveTo, r1
<1>5. retained' \in {retained, r} /\ retained' \in Records
  BY <1>1, <1>4 DEF Extends
<1>6. Types'
  <2>1. mem' \in [Publishers -> Records \cup {NoValue}]
    BY <1>1, <1>2, <1>4 DEF Extends
  <2>2. stage' \in [Publishers -> PCs]
    BY <1>1, <1>4 DEF PCs
  <2> QED BY <1>5, <2>1, <2>2 DEF IInv, Types
<1>7. AllWorking' /\ OneAtWork'
  <2>1. CASE stage' = [stage EXCEPT ![p] = l] /\ mem' = [mem EXCEPT ![p] = r] /\ retained' = r
    <3>1. Working(l, mem'[p], retained', sent', log')
      BY <2>1, <1>1
    <3> QED BY <2>1, <3>1, HolderStep
  <2>2. CASE retained' \in {retained, r} /\ mem' = [mem EXCEPT ![p] = r1]
             /\ stage' = [stage EXCEPT ![p] = "finish"]
    <3>1. Working("finish", mem'[p], retained', sent', log')
      BY <2>2, <1>1, <1>3
    <3> QED BY <2>2, <3>1, HolderStep DEF PCs
  <2> QED BY <2>1, <2>2, <1>4
<1>8. Reported'
  BY DEF IInv, Reported
<1>9. Retained(retained', sent', log', inflight')
  <2>1. Retained(retained, sent, log, inflight)
    BY DEF IInv
  <2>2. sent <= Len(r.subs)
    <3>1. Len(retained.subs) \in Nat /\ Len(r.subs) \in Nat
      BY <1>1 DEF Extends, Records
    <3> QED BY <1>1, <2>1, <3>1 DEF Retained, Extends
  <2>3. retained' # NoValue
    BY <1>5, PublicationAssumption
  <2>4. Retained(r, sent, log, inflight)
    <3>1. r # NoValue
      BY PublicationAssumption DEF Extends
    <3> QED BY <1>1, <2>1, <2>2, <3>1 DEF Retained, Extends
  <2>5. Retained(retained', sent, log, inflight)
    BY <2>1, <2>4, <1>5
  <2> QED BY <2>3, <2>5 DEF Retained
<1>10. Remembers
  <2>1. retained' # NoValue
    BY <1>5, PublicationAssumption
  <2> QED BY <1>5, <2>1 DEF Remembers, Extends
<1> QED BY <1>6, <1>7, <1>8, <1>9, <1>10 DEF IInv

\* The record of a publisher at work.
LEMMA AtWork ==
  ASSUME IInv, NEW p \in Publishers, stage[p] \notin {"idle", "locked"}
  PROVE  /\ mem[p] \in Records /\ retained \in Records /\ retained # NoValue
         /\ mem[p].subs \in Seq(Indices \cup {NoValue})
         /\ Extends(mem[p], retained) /\ Extends(mem[p], mem[p])
         /\ mem[p].outcome = "confirmed" => Included(mem[p], log)
         /\ stage \in [Publishers -> PCs] /\ mem \in [Publishers -> Records \cup {NoValue}]
         /\ polls \in [Publishers -> Nat]
         /\ Working(stage[p], mem[p], retained, sent, log)
         /\ Len(retained.subs) \in Nat /\ sent \in Nat /\ sent <= Len(retained.subs)
         /\ MaxSubmissions \in Nat
<1>1. Working(stage[p], mem[p], retained, sent, log) /\ Types
  BY DEF IInv, AllWorking
<1>2. mem[p] \in Records /\ retained \in Records /\ retained # NoValue
  BY <1>1 DEF Working, Types
<1>3. mem[p].subs \in Seq(Indices \cup {NoValue}) /\ Len(mem[p].subs) \in Nat
      /\ Len(retained.subs) \in Nat
  BY <1>2 DEF Records
<1>4. Extends(mem[p], retained) /\ Extends(mem[p], mem[p])
  BY <1>1, <1>2, <1>3 DEF Extends, Working
<1>5. sent \in Nat /\ sent <= Len(retained.subs)
  BY <1>2 DEF IInv, Types, Retained
<1> QED BY <1>1, <1>2, <1>3, <1>4, <1>5, PublicationAssumption DEF Working, Types

\* A bounded set of numbers that is not empty has a largest member.
LEMMA Largest ==
  ASSUME NEW n \in Nat, NEW A \in SUBSET (1 .. n), A # {}
  PROVE  \E i \in A : \A j \in A : j <= i
<1> DEFINE T == {n - i : i \in A}
           R == OpToRel(<, Nat)
<1>1. T \subseteq Nat /\ T # {}
  <2> HIDE DEF R
  <2>1. \A i \in A : n - i \in Nat
    OBVIOUS
  <2>2. PICK i \in A : TRUE
    OBVIOUS
  <2>3. n - i \in T
    OBVIOUS
  <2> QED BY <2>1, <2>3
<1>2. IsWellFoundedOn(R, Nat)
  BY NatLessThanWellFounded
<1>3. \A x, y \in Nat : x < y => <<x, y>> \in R
  BY DEF OpToRel
<1> HIDE DEF R, T
<1>4. \E x \in T : \A y \in T : ~ (<<y, x>> \in R)
  BY <1>1, <1>2, WFMin, Zenon
<1>5. PICK x \in T : \A y \in T : ~ (<<y, x>> \in R)
  BY <1>4
<1>6. ASSUME NEW y \in T PROVE x <= y
  <2>1. x \in Nat /\ y \in Nat
    BY <1>1
  <2>2. ~(y < x)
    BY <1>5, <1>3, <2>1, Zenon
  <2> QED BY <2>1, <2>2
<1>7. PICK i \in A : x = n - i
  BY DEF T
<1>8. ASSUME NEW j \in A PROVE j <= i
  <2>1. n - j \in T
    BY DEF T
  <2>2. n - i <= n - j
    BY <2>1, <1>6, <1>7
  <2> QED BY <2>2
<1> QED BY <1>8

\* The index the code finds is one of the log's.
LEMMA LastIndexType ==
  ASSUME NEW m \in Records, Answered(m) # {}
  PROVE  LastIndex(m) \in Indices
<1>1. m.subs \in Seq(Indices \cup {NoValue}) /\ Len(m.subs) \in Nat
      /\ DOMAIN m.subs = 1 .. Len(m.subs)
  BY DEF Records
<1>2. Answered(m) \in SUBSET (1 .. Len(m.subs))
  BY <1>1 DEF Answered
<1>3. \E i \in Answered(m) : \A j \in Answered(m) : j <= i
  BY <1>1, <1>2, Largest
<1> DEFINE k == CHOOSE i \in Answered(m) : \A j \in Answered(m) : j <= i
<1>4. k \in Answered(m)
  BY <1>3
<1> HIDE DEF k
<1>5. m.subs[k] \in Indices
  BY <1>1, <1>4 DEF Answered
<1> QED BY <1>5 DEF LastIndex, k

----------------------------------------------------------------------------
(* The actions.                                                            *)

\* A fresh record.
LEMMA PrepareInv ==
  ASSUME IInv, NEW p \in Publishers, Prepare(p)
  PROVE  IInv'
<1>1. PICK n \in Nonces :
        LET r == [nonce |-> n, subs |-> <<>>, outcome |-> "prepared", leaf |-> 0] IN
        \/ retained' = r /\ Keep(p, r) /\ MoveTo(p, "loop") /\ UNCHANGED <<lock, polls>>
        \/ retained' \in {retained, r} /\ Exit(p)
  BY DEF Prepare
<1> DEFINE r == [nonce |-> n, subs |-> <<>>, outcome |-> "prepared", leaf |-> 0]
<1>2. /\ stage[p] = "locked" /\ retained = NoValue
      /\ UNCHANGED <<sent, inflight, answers, log, told>>
  BY DEF Prepare, At, net
<1>3. /\ r \in Records /\ r # NoValue /\ r.nonce = n /\ r.subs = <<>> /\ r.outcome = "prepared"
      /\ Len(r.subs) = 0 /\ Answered(r) = {}
  <2>1. 0 \in Indices
    BY PublicationAssumption DEF Indices
  <2>2. r \in Records
    BY <2>1 DEF Records, Reasons
  <2> QED BY <2>2, PublicationAssumption DEF Answered
<1>4. \/ retained' = r /\ mem' = [mem EXCEPT ![p] = r] /\ stage' = [stage EXCEPT ![p] = "loop"]
         /\ UNCHANGED <<lock, polls>>
      \/ retained' \in {retained, r} /\ Gone(p) /\ lock' = FALSE
  BY <1>1 DEF Keep, MoveTo, Exit
<1> HIDE DEF r
<1>5. sent = 0 /\ inflight = {} /\ (\A i \in DOMAIN log : log[i] = Other) /\ ~told
  BY <1>2 DEF IInv, Retained, Reported, Types
<1>6. Retained(retained', sent', log', inflight')
  <2>1. Retained(r, sent, log, inflight)
    BY <1>3, <1>5, PublicationAssumption DEF Retained
  <2> QED BY <1>2, <1>4, <2>1 DEF IInv
<1>7. Types'
  <2>1. Types
    BY DEF IInv
  <2>2. CASE retained' = r /\ mem' = [mem EXCEPT ![p] = r] /\ stage' = [stage EXCEPT ![p] = "loop"]
             /\ UNCHANGED <<lock, polls>>
    BY <2>1, <2>2, <1>2, <1>3 DEF Types, PCs
  <2>3. CASE retained' \in {retained, r} /\ Gone(p) /\ lock' = FALSE
    <3>1. /\ stage' = [stage EXCEPT ![p] = "idle"] /\ mem' = [mem EXCEPT ![p] = NoValue]
          /\ polls' = [polls EXCEPT ![p] = 0]
      BY <2>3 DEF Gone, MoveTo, Keep
    <3>2. retained' \in Records \cup {NoValue}
      BY <2>3, <1>2, <1>3
    <3> QED BY <2>1, <2>3, <3>1, <3>2, <1>2 DEF Types, PCs
  <2> QED BY <2>2, <2>3, <1>4
<1>8. Reported'
  BY <1>2, <1>5 DEF Reported
<1>9. AllWorking' /\ OneAtWork'
  <2>1. CASE retained' = r /\ mem' = [mem EXCEPT ![p] = r] /\ stage' = [stage EXCEPT ![p] = "loop"]
             /\ UNCHANGED <<lock, polls>>
    <3>1. mem'[p] = r
      BY <2>1 DEF IInv, Types
    <3>2. Working("loop", mem'[p], retained', sent', log')
      BY <2>1, <3>1, <1>3, PublicationAssumption DEF Working
    <3> QED BY <2>1, <3>2, <1>2, HolderStep DEF PCs
  <2>2. CASE Gone(p)
    <3>1. Working("idle", mem'[p], retained', sent', log')
      BY DEF Working
    <3> QED BY <2>2, <3>1, <1>2, HolderStep DEF PCs, Gone, MoveTo
  <2> QED BY <2>1, <2>2, <1>4
<1> QED BY <1>6, <1>7, <1>8, <1>9 DEF IInv

\* An unconfirmed record is taken up again.
LEMMA ResumeInv ==
  ASSUME IInv, NEW p \in Publishers, Resume(p)
  PROVE  IInv'
<1>1. /\ stage[p] = "locked" /\ retained # NoValue /\ retained \in Records /\ retained.outcome # "confirmed"
      /\ mem' = [mem EXCEPT ![p] = retained] /\ stage' = [stage EXCEPT ![p] = "loop"]
      /\ UNCHANGED <<retained, lock, polls, sent, inflight, answers, log, told>>
  BY DEF Resume, At, Keep, MoveTo, net, IInv, Types
<1>2. Types'
  BY <1>1 DEF IInv, Types, PCs
<1>3. mem'[p] = retained
  BY <1>1 DEF IInv, Types
<1>4. Working("loop", retained, retained, sent, log)
  <2>1. Len(retained.subs) \in Nat
    BY <1>1 DEF Records
  <2> QED BY <1>1, <2>1 DEF Working, IInv, Retained
<1>5. AllWorking' /\ OneAtWork'
  BY <1>1, <1>3, <1>4, HolderStep DEF PCs
<1>6. Reported'
  BY <1>1 DEF IInv, Reported
<1>7. Retained(retained, sent, log, inflight)'
  BY <1>1 DEF IInv
<1> QED BY <1>2, <1>5, <1>6, <1>7 DEF IInv

\* The test of the submission loop.
LEMMA LoopInv ==
  ASSUME IInv, NEW p \in Publishers, Loop(p)
  PROVE  IInv'
<1>1. stage[p] = "loop" /\ UNCHANGED <<retained, lock, mem, net, log, told>>
  BY DEF Loop, At
<1>2. Working("loop", mem[p], retained, sent, log) /\ polls \in [Publishers -> Nat]
      /\ mem \in [Publishers -> Records \cup {NoValue}]
  BY <1>1, AtWork
<1>3. CASE Answered(mem[p]) # {}
  <2>1. stage' = [stage EXCEPT ![p] = "polling"] /\ polls' = [polls EXCEPT ![p] = MaxPolls]
    BY <1>3 DEF Loop, MoveTo
  <2>2. polls' \in [Publishers -> Nat]
    BY <2>1, <1>2, PublicationAssumption
  <2>3. Working("polling", mem'[p], retained, sent, log)
    BY <1>1, <1>2, <1>3 DEF Working
  <2> QED BY <1>1, <1>2, <2>1, <2>2, <2>3, QuietStep DEF PCs
<1>4. CASE Answered(mem[p]) = {} /\ Len(mem[p].subs) < MaxSubmissions
  <2>1. stage' = [stage EXCEPT ![p] = "intend"] /\ polls' = polls
    BY <1>4 DEF Loop, MoveTo
  <2>2. Working("intend", mem'[p], retained, sent, log)
    BY <1>1, <1>2, <1>4 DEF Working
  <2> QED BY <1>1, <1>2, <2>1, <2>2, QuietStep DEF PCs
<1>5. CASE Answered(mem[p]) = {} /\ ~(Len(mem[p].subs) < MaxSubmissions)
  <2>1. stage' = [stage EXCEPT ![p] = "finish"] /\ polls' = polls
    BY <1>5 DEF Loop, MoveTo
  <2>2. Working("finish", mem'[p], retained, sent, log)
    BY <1>1, <1>2 DEF Working
  <2> QED BY <1>1, <1>2, <2>1, <2>2, QuietStep DEF PCs
<1> QED BY <1>3, <1>4, <1>5

\* The write-ahead of an attempt.
LEMMA IntendInv ==
  ASSUME IInv, NEW p \in Publishers, Intend(p)
  PROVE  IInv' /\ Remembers
<1> DEFINE m == mem[p]
           r == [m EXCEPT !.subs = Append(@, NoValue)]
<1>1. /\ stage[p] = "intend" /\ Save(p, r, "intended", r)
      /\ UNCHANGED <<lock, polls, sent, inflight, answers, log, told>>
  BY DEF Intend, At, net
<1>2. /\ m \in Records /\ m.subs \in Seq(Indices \cup {NoValue}) /\ Extends(m, retained)
      /\ Working("intend", m, retained, sent, log) /\ Len(retained.subs) \in Nat /\ sent \in Nat
      /\ sent <= Len(retained.subs) /\ MaxSubmissions \in Nat
  BY <1>1, AtWork
<1>3. /\ r \in Records /\ r.nonce = m.nonce /\ r.outcome = m.outcome /\ r.leaf = m.leaf
      /\ r.subs = Append(m.subs, NoValue)
  <2> HIDE DEF m
  <2>1. Append(m.subs, NoValue) \in Seq(Indices \cup {NoValue})
    BY <1>2
  <2> QED BY <1>2, <2>1 DEF Records
<1>4. Len(r.subs) = Len(m.subs) + 1 /\ Len(m.subs) \in Nat
  BY <1>2, <1>3
<1>5. Answered(r) = Answered(m)
  BY <1>2, <1>3 DEF Answered
<1> HIDE DEF r, m
<1>6. Len(m.subs) < MaxSubmissions /\ Answered(m) = {}
      /\ (m.outcome = "confirmed" => Included(m, log))
  BY <1>2 DEF Working
<1>7. Extends(r, retained) /\ Extends(r, r)
  BY <1>2, <1>3, <1>4, <1>5, <1>6 DEF Extends
<1>8. r.outcome = "confirmed" => Included(r, log)
  BY <1>3, <1>6 DEF Included
<1>9. Working("intended", r, r, sent, log)
  <2>1. r # NoValue
    BY <1>3, PublicationAssumption
  <2>2. sent < Len(r.subs)
    BY <1>2, <1>4 DEF Extends
  <2> QED BY <1>3, <1>4, <1>5, <1>6, <1>7, <1>8, <2>1, <2>2 DEF Working, Extends
<1> QED BY <1>1, <1>7, <1>8, <1>9, SaveInv DEF PCs

\* The request leaves: an attempt was set aside for it.
LEMMA PostInv ==
  ASSUME IInv, NEW p \in Publishers, Post(p)
  PROVE  IInv' /\ Remembers
<1> DEFINE q == [id |-> sent + 1, by |-> p, nonce |-> mem[p].nonce]
<1>1. /\ stage[p] = "intended" /\ sent' = sent + 1 /\ inflight' = inflight \cup {q}
      /\ stage' = [stage EXCEPT ![p] = "waiting"]
      /\ UNCHANGED <<retained, lock, mem, polls, answers, log, told>>
  BY DEF Post, At, MoveTo
<1>2. /\ mem[p] \in Records /\ retained # NoValue
      /\ Working("intended", mem[p], retained, sent, log) /\ Len(retained.subs) \in Nat /\ sent \in Nat
      /\ sent < Len(retained.subs) /\ mem[p].nonce = retained.nonce
  <2>1. Working("intended", mem[p], retained, sent, log)
    BY <1>1, AtWork
  <2> QED BY <1>1, <2>1, AtWork DEF Working
<1>3. q \in [id : Nat, by : Publishers, nonce : Nonces] /\ q.nonce = retained.nonce
  BY <1>2 DEF Records
<1> HIDE DEF q
<1>4. Types'
  BY <1>1, <1>3 DEF IInv, Types, PCs
<1>5. Working("waiting", mem[p], retained, sent + 1, log)
  BY <1>2 DEF Working
<1>6. AllWorking' /\ OneAtWork'
  BY <1>1, <1>5, HolderStep DEF PCs
<1>7. Reported'
  BY <1>1 DEF IInv, Reported
<1>8. Retained(retained, sent, log, inflight)'
  BY <1>1, <1>2, <1>3 DEF IInv, Retained
<1>9. Remembers
  BY <1>1, <1>2 DEF Working, Remembers
<1> QED BY <1>4, <1>6, <1>7, <1>8, <1>9 DEF IInv

\* An index comes back.
LEMMA ReturnedInv ==
  ASSUME IInv, NEW p \in Publishers, NEW a \in answers, Returned(p, a)
  PROVE  IInv' /\ Remembers
<1> DEFINE m == mem[p]
           k == Len(m.subs)
           s == [m.subs EXCEPT ![k] = a.index]
           r == [m EXCEPT !.subs[k] = a.index, !.outcome = "awaiting"]
<1>1. /\ stage[p] = "waiting" /\ Save(p, r, "loop", r)
      /\ UNCHANGED <<lock, polls, sent, inflight, log, told>>
      /\ answers' \subseteq answers
  BY DEF Returned, At
<1>2. /\ m \in Records /\ m.subs \in Seq(Indices \cup {NoValue}) /\ Extends(m, retained)
      /\ Working("waiting", m, retained, sent, log)
  BY <1>1, AtWork
<1> HIDE DEF m
<1>3. k \in 1 .. Len(m.subs)
  BY <1>2 DEF Working
<1>4. a.index \in Indices /\ a.index # NoValue
  <2>1. a \in [id : Nat, by : Publishers, index : Indices]
    BY DEF IInv, Types
  <2> QED BY <2>1, PublicationAssumption
<1> HIDE DEF k
<1>5. /\ s \in Seq(Indices \cup {NoValue}) /\ Len(s) = Len(m.subs) /\ DOMAIN s = DOMAIN m.subs
      /\ \A i \in DOMAIN s : s[i] = IF i = k THEN a.index ELSE m.subs[i]
  BY <1>2, <1>3, <1>4
<1>6. r = [m EXCEPT !.subs = s, !.outcome = "awaiting"]
  BY <1>2 DEF Records
<1> HIDE DEF s, r
<1>7. /\ r \in Records /\ r.nonce = m.nonce /\ r.outcome = "awaiting" /\ r.subs = s
  BY <1>2, <1>5, <1>6 DEF Records, Reasons
<1>8. Answered(m) \subseteq Answered(r)
  BY <1>4, <1>5, <1>7 DEF Answered
<1>9. Extends(r, retained) /\ Extends(r, r)
  BY <1>2, <1>5, <1>7, <1>8 DEF Extends
<1>10. Working("loop", r, r, sent, log)
  <2>1. r # NoValue
    BY <1>7, PublicationAssumption
  <2> QED BY <1>7, <1>9, <2>1 DEF Working, Extends
<1> QED BY <1>1, <1>7, <1>9, <1>10, SaveInv DEF PCs

\* The outcome of a failed attempt, or of a refusal, is saved.
LEMMA OutcomeSaved ==
  ASSUME IInv, NEW p \in Publishers, stage[p] = "waiting",
         NEW o \in {"failed", "refused", "invalid"}, NEW l \in {"sleeping", "finish"},
         Save(p, [mem[p] EXCEPT !.outcome = o], l, [mem[p] EXCEPT !.outcome = o]),
         UNCHANGED <<lock, polls, sent, answers, log, told>>, inflight' \subseteq inflight
  PROVE  IInv' /\ Remembers
<1> DEFINE m == mem[p]
           r == [m EXCEPT !.outcome = o]
<1>1. /\ m \in Records /\ Extends(m, retained) /\ Extends(m, m)
      /\ Working("waiting", m, retained, sent, log)
  BY AtWork
<1>2. /\ r \in Records /\ r.nonce = m.nonce /\ r.subs = m.subs
      /\ Answered(r) = Answered(m) /\ r.outcome # "confirmed"
  <2>1. o \in Reasons
    BY DEF Reasons
  <2> QED BY <1>1, <2>1, Relabel
<1>3. Save(p, r, l, r)
  OBVIOUS
<1> HIDE DEF m, r
<1>4. Extends(r, retained) /\ Extends(r, r)
  BY <1>1, <1>2 DEF Extends
<1>5. Working(l, r, r, sent, log)
  <2>1. r # NoValue
    BY <1>2, PublicationAssumption
  <2> QED BY <1>1, <1>2, <1>4, <2>1 DEF Working, Extends
<1>6. l \in PCs /\ l \notin {"idle", "locked"}
  BY DEF PCs
<1> QED BY <1>2, <1>3, <1>4, <1>5, <1>6, SaveInv

\* An attempt without an index is recorded as such.
LEMMA NoIndexInv ==
  ASSUME IInv, NEW p \in Publishers, NEW reason, NoIndex(p, reason)
  PROVE  IInv' /\ Remembers
BY OutcomeSaved DEF NoIndex, At, net

\* A refusal is recorded and ends the submissions.
LEMMA RefusedInv ==
  ASSUME IInv, NEW p \in Publishers, Refused(p)
  PROVE  IInv' /\ Remembers
BY OutcomeSaved DEF Refused, At

\* A publisher at work notes an outcome other than confirmed in memory and
\* goes to its end, having done nothing else.
LEMMA GivesUpInv ==
  ASSUME IInv, NEW p \in Publishers, stage[p] \in {"waiting", "sleeping", "polling"},
         NEW o \in Reasons, Keep(p, [mem[p] EXCEPT !.outcome = o]), MoveTo(p, "finish"),
         UNCHANGED <<retained, lock, polls, net, log, told>>
  PROVE  IInv'
<1> DEFINE m == mem[p]
           r == [m EXCEPT !.outcome = o]
<1>1. /\ m \in Records /\ polls \in [Publishers -> Nat] /\ mem \in [Publishers -> Records \cup {NoValue}]
      /\ Working(stage[p], m, retained, sent, log)
  BY AtWork
<1>2. mem' = [mem EXCEPT ![p] = r] /\ stage' = [stage EXCEPT ![p] = "finish"]
  BY DEF Keep, MoveTo
<1>3. /\ r \in Records /\ r.nonce = m.nonce /\ r.subs = m.subs
      /\ Answered(r) = Answered(m) /\ r.outcome # "confirmed"
  BY <1>1, Relabel
<1> HIDE DEF m, r
<1>4. mem' \in [Publishers -> Records \cup {NoValue}] /\ mem'[p] = r
  BY <1>1, <1>2, <1>3
<1>5. Working("finish", r, retained, sent, log)
  BY <1>1, <1>3 DEF Working
<1>6. Working("finish", mem'[p], retained, sent, log)
  BY <1>4, <1>5
<1> QED BY <1>1, <1>2, <1>4, <1>6, QuietStep DEF PCs

\* A checkpoint or tile that cannot be read.
LEMMA PollErrorInv ==
  ASSUME IInv, NEW p \in Publishers, NEW reason, PollError(p, reason)
  PROVE  IInv'
BY GivesUpInv DEF PollError, At, Reasons

\* A proof that does not verify.
LEMMA ProofFailsInv ==
  ASSUME IInv, NEW p \in Publishers, NEW size, ProofFails(p, size)
  PROVE  IInv'
BY GivesUpInv DEF ProofFails, At, Reasons

\* The deadline cuts obtain_inclusion off.
LEMMA DeadlineInv ==
  ASSUME IInv, NEW p \in Publishers, Deadline(p)
  PROVE  IInv'
BY GivesUpInv DEF Deadline, Reasons

\* The pause between two attempts ends.
LEMMA WakeUpInv ==
  ASSUME IInv, NEW p \in Publishers, WakeUp(p)
  PROVE  IInv'
<1>1. /\ stage[p] = "sleeping" /\ stage' = [stage EXCEPT ![p] = "loop"]
      /\ UNCHANGED <<retained, lock, mem, polls, net, log, told>>
  BY DEF WakeUp, At, MoveTo
<1>2. /\ polls \in [Publishers -> Nat] /\ mem \in [Publishers -> Records \cup {NoValue}]
      /\ Working("sleeping", mem[p], retained, sent, log)
  BY <1>1, AtWork
<1>3. Working("loop", mem'[p], retained, sent, log)
  BY <1>1, <1>2 DEF Working
<1> QED BY <1>1, <1>2, <1>3, QuietStep DEF PCs

\* No checkpoint covers the index yet.
LEMMA PollAgainInv ==
  ASSUME IInv, NEW p \in Publishers, PollAgain(p)
  PROVE  IInv'
<1>1. /\ stage[p] = "polling" /\ UNCHANGED <<retained, lock, mem, net, log, told>>
      /\ polls' = [polls EXCEPT ![p] = IF @ > 0 THEN @ - 1 ELSE 0]
  BY DEF PollAgain, At
<1>2. PICK l \in {"polling", "finish"} : stage' = [stage EXCEPT ![p] = l]
  BY DEF PollAgain, MoveTo
<1>3. /\ polls \in [Publishers -> Nat] /\ mem \in [Publishers -> Records \cup {NoValue}]
      /\ Working("polling", mem[p], retained, sent, log)
  BY <1>1, AtWork
<1>4. polls' \in [Publishers -> Nat]
  BY <1>1, <1>3
<1>5. Working(l, mem'[p], retained, sent, log)
  BY <1>1, <1>2, <1>3 DEF Working
<1>6. l \in PCs
  BY DEF PCs
<1>7. mem' \in [Publishers -> Records \cup {NoValue}]
  BY <1>1, <1>3
<1> QED BY <1>1, <1>2, <1>4, <1>5, <1>6, <1>7, QuietStep

\* A verified proof of inclusion.
LEMMA ConfirmInv ==
  ASSUME IInv, NEW p \in Publishers, NEW size \in 0 .. Len(log), Confirm(p, size)
  PROVE  IInv' /\ Remembers
<1> DEFINE m == mem[p]
           index == LastIndex(m)
           r == [m EXCEPT !.outcome = "confirmed", !.leaf = index]
<1>1. /\ stage[p] = "polling" /\ Save(p, r, "finish", m) /\ index < size
      /\ log[index + 1] = m.nonce
      /\ UNCHANGED <<lock, polls, sent, inflight, answers, log, told>>
  BY DEF Confirm, At, net
<1>2. /\ m \in Records /\ Extends(m, retained) /\ Extends(m, m) /\ Answered(m) # {}
  BY <1>1, AtWork DEF Working
<1>3. index \in Indices
  BY <1>2, LastIndexType
<1> HIDE DEF m, index
<1>4. /\ r \in Records /\ r.nonce = m.nonce /\ r.subs = m.subs /\ r.leaf = index
      /\ r.outcome = "confirmed"
  BY <1>2, <1>3 DEF Records
<1>5. Answered(r) = Answered(m)
  BY <1>4 DEF Answered
<1>6. Included(r, log)
  <2>1. index \in Nat /\ Len(log) \in Nat
    BY <1>3 DEF Indices, IInv, Types
  <2> QED BY <1>1, <1>4, <2>1 DEF Included
<1> HIDE DEF r
<1>7. Extends(r, retained) /\ Extends(m, r) /\ Extends(r, r)
  BY <1>2, <1>4, <1>5 DEF Extends
<1>8. Working("finish", r, r, sent, log)
  <2>1. r # NoValue
    BY <1>4, PublicationAssumption
  <2> QED BY <1>6, <1>7, <2>1 DEF Working, Extends
<1> QED BY <1>1, <1>2, <1>6, <1>7, <1>8, SaveInv DEF PCs

\* A confirmed record is verified again.
LEMMA RecheckInv ==
  ASSUME IInv, NEW p \in Publishers, Recheck(p)
  PROVE  IInv'
<1>1. /\ stage[p] # "idle" /\ Gone(p) /\ lock' \in {lock, FALSE} /\ UNCHANGED <<retained, net, log>>
      /\ told' = TRUE /\ retained # NoValue /\ retained.outcome = "confirmed"
  BY DEF Recheck, At, Exit
<1> QED BY <1>1, GoneInv

\* The record on disk is refused.
LEMMA LoadRefusedInv ==
  ASSUME IInv, NEW p \in Publishers, LoadRefused(p)
  PROVE  IInv'
BY GoneInv DEF LoadRefused, At, Exit

\* The publisher is killed and its lock file stays.
LEMMA CrashInv ==
  ASSUME IInv, NEW p \in Publishers, KillPublisher(p)
  PROVE  IInv'
BY GoneInv DEF KillPublisher, At

\* The last save.
LEMMA FinishInv ==
  ASSUME IInv, NEW p \in Publishers, Finish(p)
  PROVE  IInv' /\ Remembers
<1> DEFINE m == mem[p]
           o == IF m.outcome = "prepared" /\ Len(m.subs) >= MaxSubmissions /\ Answered(m) = {}
                THEN "limit" ELSE m.outcome
           r == [m EXCEPT !.outcome = o]
<1>1. /\ stage[p] = "finish" /\ Gone(p) /\ lock' = FALSE
      /\ UNCHANGED <<sent, inflight, answers, log>>
      /\ \/ retained' = r /\ told' = (told \/ r.outcome = "confirmed")
         \/ retained' \in {retained, r} /\ told' = told
  BY DEF Finish, At, Exit, net
<1>2. /\ m \in Records /\ Extends(m, retained) /\ retained \in Records /\ retained # NoValue /\ sent \in Nat
      /\ sent <= Len(retained.subs) /\ Len(retained.subs) \in Nat
      /\ (m.outcome = "confirmed" => Included(m, log))
  BY <1>1, AtWork
<1> HIDE DEF m
<1>3. o \in Reasons \cup {"confirmed"} /\ (o = "confirmed" => m.outcome = "confirmed")
  BY <1>2 DEF Records, Reasons
<1> HIDE DEF o
<1>4. /\ r \in Records /\ r.nonce = m.nonce /\ r.subs = m.subs /\ r.leaf = m.leaf
      /\ r.outcome = o
  BY <1>2, <1>3 DEF Records
<1> HIDE DEF r
<1>5. Answered(r) = Answered(m) /\ r # NoValue
  BY <1>4, PublicationAssumption DEF Answered
<1>6. Extends(r, retained) /\ (r.outcome = "confirmed" => Included(r, log))
  BY <1>2, <1>3, <1>4, <1>5 DEF Extends, Included
<1>7. Retained(retained', sent', log', inflight')
  <2>1. Retained(retained, sent, log, inflight)
    BY DEF IInv
  <2>2. Len(r.subs) \in Nat
    BY <1>4 DEF Records
  <2>3. Retained(r, sent, log, inflight)
    BY <1>2, <1>5, <1>6, <2>1, <2>2 DEF Retained, Extends
  <2> QED BY <1>1, <2>1, <2>3
<1>8. ~told
  BY <1>1 DEF IInv, Reported, Types
<1>9. told' => retained' # NoValue /\ retained'.outcome = "confirmed"
  BY <1>1, <1>5, <1>8
<1>10. \A q \in Publishers : stage'[q] = "idle"
  BY <1>1 DEF IInv, OneAtWork, Types, Gone, MoveTo
<1>11. Reported'
  BY <1>9, <1>10 DEF Reported
<1>12. AllWorking' /\ OneAtWork'
  BY <1>10 DEF AllWorking, OneAtWork, Working
<1>13. Types'
  <2>1. Types
    BY DEF IInv
  <2>2. /\ stage' = [stage EXCEPT ![p] = "idle"] /\ mem' = [mem EXCEPT ![p] = NoValue]
        /\ polls' = [polls EXCEPT ![p] = 0]
    BY <1>1 DEF Gone, MoveTo, Keep
  <2>3. retained' \in Records \cup {NoValue}
    BY <1>1, <1>2, <1>4
  <2>4. told' \in BOOLEAN
    BY <2>1, <1>1 DEF Types
  <2> QED BY <2>1, <2>2, <2>3, <2>4, <1>1 DEF Types, PCs
<1>14. Remembers
  BY <1>1, <1>2, <1>5, <1>6 DEF Remembers, Extends
<1> QED BY <1>7, <1>11, <1>12, <1>13, <1>14 DEF IInv

\* The operator removes the lock file of a publisher that is gone.
LEMMA RemoveStaleLockInv ==
  ASSUME IInv, RemoveStaleLock
  PROVE  IInv'
<1> USE DEF RemoveStaleLock, At, proc, net
<1>1. Types' /\ OneAtWork' /\ Reported'
  BY DEF IInv, Types, OneAtWork, Reported
<1>2. AllWorking' /\ Retained(retained, sent, log, inflight)'
  BY DEF IInv, AllWorking
<1> QED BY <1>1, <1>2 DEF IInv

\* The log appends an entry that the record accounts for, if it is ours.
LEMMA GrowInv ==
  ASSUME IInv, NEW e, e = Other \/ (retained # NoValue /\ e = retained.nonce /\ e \in Nonces),
         log' = Append(log, e), inflight' \subseteq inflight,
         answers' \subseteq [id : Nat, by : Publishers, index : Indices],
         UNCHANGED <<retained, lock, stage, mem, polls, sent, told>>
  PROVE  IInv'
<1>1. Types /\ log \in Seq(Nonces \cup {Other})
  BY DEF IInv, Types
<1>2. /\ log' \in Seq(Nonces \cup {Other}) /\ Len(log') = Len(log) + 1 /\ Len(log) \in Nat
      /\ DOMAIN log' = 1 .. Len(log) + 1
      /\ \A i \in 1 .. Len(log) : log'[i] = log[i]
      /\ log'[Len(log) + 1] = e
  BY <1>1
<1>3. Types'
  BY <1>1, <1>2 DEF Types
<1>4. ASSUME NEW r \in Records, Included(r, log) PROVE Included(r, log')
  <2>1. r.leaf \in Nat
    BY PublicationAssumption DEF Records, Indices
  <2> QED BY <1>2, <1>4, <2>1 DEF Included
<1>5. AllWorking'
  <2> SUFFICES ASSUME NEW p \in Publishers PROVE Working(stage[p], mem[p], retained, sent, log')
    BY DEF AllWorking
  <2>1. Working(stage[p], mem[p], retained, sent, log)
    BY DEF IInv, AllWorking
  <2> QED BY <2>1, <1>4 DEF Working
<1>6. Retained(retained, sent, log, inflight)'
  <2>1. Retained(retained, sent, log, inflight)
    BY DEF IInv
  <2>2. ASSUME retained = NoValue PROVE Retained(retained, sent, log', inflight')
    <3>1. \A i \in DOMAIN log : log[i] = Other
      BY <2>1, <2>2 DEF Retained
    <3>2. \A i \in DOMAIN log' : log'[i] = Other
      BY <1>1, <1>2, <2>2, <3>1
    <3> QED BY <2>1, <2>2, <3>2 DEF Retained
  <2>3. ASSUME retained # NoValue PROVE Retained(retained, sent, log', inflight')
    <3>1. \A i \in DOMAIN log : log[i] \in {Other, retained.nonce}
      BY <2>1, <2>3 DEF Retained
    <3>2. \A i \in DOMAIN log' : log'[i] \in {Other, retained.nonce}
      BY <1>1, <1>2, <3>1
    <3>3. retained \in Records
      BY <1>1, <2>3 DEF Types
    <3> QED BY <2>1, <2>3, <3>2, <3>3, <1>4 DEF Retained
  <2> QED BY <2>2, <2>3
<1>7. OneAtWork' /\ Reported'
  BY DEF IInv, OneAtWork, Reported
<1> QED BY <1>3, <1>5, <1>6, <1>7 DEF IInv

\* The log appends one of our entries.
LEMMA LogAppendInv ==
  ASSUME IInv, NEW q \in inflight, NEW index \in Indices, LogAppend(q, index)
  PROVE  IInv'
<1>1. Types /\ Retained(retained, sent, log, inflight)
  BY DEF IInv
<1>2. retained # NoValue /\ q.nonce = retained.nonce
  BY <1>1 DEF Retained
<1>3. q \in [id : Nat, by : Publishers, nonce : Nonces]
  BY <1>1 DEF Types
<1>4. answers' \subseteq [id : Nat, by : Publishers, index : Indices]
  BY <1>1, <1>3 DEF LogAppend, Types
<1> QED BY <1>2, <1>3, <1>4, GrowInv DEF LogAppend, proc

\* The log appends somebody else's entry.
LEMMA LogOtherInv ==
  ASSUME IInv, LogOther
  PROVE  IInv'
<1>1. answers' \subseteq [id : Nat, by : Publishers, index : Indices]
  BY DEF IInv, Types, LogOther, net
<1> QED BY <1>1, GrowInv DEF LogOther, proc, net

\* A request is lost.
LEMMA LoseInv ==
  ASSUME IInv, NEW q \in inflight, Lose(q)
  PROVE  IInv'
<1> USE DEF Lose, proc
<1>1. Types' /\ OneAtWork' /\ Reported'
  BY DEF IInv, Types, OneAtWork, Reported
<1>2. AllWorking'
  BY DEF IInv, AllWorking
<1>3. Retained(retained, sent, log, inflight)'
  BY DEF IInv, Retained
<1> QED BY <1>1, <1>2, <1>3 DEF IInv

----------------------------------------------------------------------------
(* The theorems.                                                           *)

\* Every step preserves the invariant.
LEMMA IInvNext == IInv /\ [PublicationNext]_publicationVars => IInv'
<1> SUFFICES ASSUME IInv, [PublicationNext]_publicationVars PROVE IInv'
  OBVIOUS
<1>1. ASSUME NEW p \in Publishers, Own(p) PROVE IInv'
  BY <1>1, PrepareInv, ResumeInv, RecheckInv, LoadRefusedInv, LoopInv, IntendInv, PostInv,
     WakeUpInv, FinishInv, Zenon DEF Own
<1>2. ASSUME NEW p \in Publishers, FromTheLog(p) PROVE IInv'
  BY <1>2, ReturnedInv, NoIndexInv, PollErrorInv, RefusedInv, PollAgainInv, ConfirmInv,
     ProofFailsInv, Zenon DEF FromTheLog
<1>3. CASE UNCHANGED publicationVars
  <2>1. UNCHANGED <<retained, lock, stage, mem, polls, sent, inflight, answers, log, told>>
    BY <1>3 DEF publicationVars, proc, net
  <2>2. Types' /\ OneAtWork' /\ Reported'
    BY <2>1 DEF IInv, Types, OneAtWork, Reported
  <2>3. AllWorking' /\ Retained(retained, sent, log, inflight)'
    BY <2>1 DEF IInv, AllWorking
  <2> QED BY <2>2, <2>3 DEF IInv
<1>4. CASE PublicationNext
  BY <1>4, <1>1, <1>2, AcquireInv, DeadlineInv, CrashInv, RemoveStaleLockInv, LoseInv,
     LogAppendInv, LogOtherInv, Zenon DEF PublicationNext
<1> QED BY <1>3, <1>4

\* The invariant holds throughout.
THEOREM InvariantHolds == PublicationSpec => []IInv
BY IInvInit, IInvNext, PTL DEF PublicationSpec

\* Every variable keeps its type; a publisher past the load has a record, one
\* that polls has an index.
THEOREM TypeCorrect == PublicationSpec => []PublicationTypeOK
<1>1. IInv => PublicationTypeOK
  <2> SUFFICES ASSUME IInv PROVE PublicationTypeOK
    OBVIOUS
  <2>1. ASSUME NEW p \in Publishers, stage[p] \notin {"idle", "locked"}
        PROVE  mem[p] # NoValue /\ (stage[p] = "polling" => Answered(mem[p]) # {})
    BY <2>1, PublicationAssumption DEF IInv, AllWorking, Working
  <2> QED BY <2>1 DEF IInv, Types, PublicationTypeOK
<1> QED BY <1>1, InvariantHolds, PTL

\* client.rs records the intent before the POST and holds the lock throughout:
\* no request leaves that the record does not account for, and no entry under
\* another opening.
THEOREM DisclosureHolds == PublicationSpec => []DisclosureRecorded
<1>1. IInv => DisclosureRecorded
  BY DEF IInv, Types, Retained, DisclosureRecorded
<1> QED BY <1>1, InvariantHolds, PTL

\* What was reported as confirmed stays so on disk, whatever another publisher, a crash or
\* a failed save does, and a record says confirmed only of an entry that is in the log at
\* its leaf.
THEOREM ConfirmationHolds == PublicationSpec => []ConfirmationStands
<1>1. IInv => ConfirmationStands
  BY DEF IInv, Retained, Reported, ConfirmationStands, Included
<1> QED BY <1>1, InvariantHolds, PTL

\* Once an index is on disk the entry is never submitted again; the record, its
\* opening and the index are never lost.
THEOREM NothingForgottenHolds == PublicationSpec => NothingForgotten
<1>1. ASSUME UNCHANGED <<retained, sent>> PROVE Remembers
  BY <1>1 DEF Remembers
<1>2. ASSUME IInv, NEW p \in Publishers, Own(p) PROVE Remembers
  <2>1. CASE Prepare(p)
    BY <2>1 DEF Prepare, Remembers
  <2>2. CASE Intend(p) \/ Post(p) \/ Finish(p)
    BY <1>2, <2>2, IntendInv, PostInv, FinishInv, Zenon
  <2>3. CASE Resume(p) \/ Recheck(p) \/ LoadRefused(p) \/ Loop(p) \/ WakeUp(p)
    BY <1>1, <2>3 DEF Resume, Recheck, LoadRefused, Loop, WakeUp, net
  <2> QED BY <1>2, <2>1, <2>2, <2>3 DEF Own
<1>3. ASSUME IInv, NEW p \in Publishers, FromTheLog(p) PROVE Remembers
  <2>1. \A reason, size : PollError(p, reason) \/ PollAgain(p) \/ ProofFails(p, size) => Remembers
    BY <1>1 DEF PollError, PollAgain, ProofFails, net
  <2> QED BY <1>3, <2>1, ReturnedInv, NoIndexInv, RefusedInv, ConfirmInv, Zenon DEF FromTheLog
<1>4. IInv /\ [PublicationNext]_publicationVars => Remembers
  <2> SUFFICES ASSUME IInv, [PublicationNext]_publicationVars PROVE Remembers
    OBVIOUS
  <2>1. \A p \in Publishers : Acquire(p) \/ Deadline(p) \/ KillPublisher(p) => Remembers
    BY <1>1 DEF Acquire, Deadline, KillPublisher, net
  <2>2. RemoveStaleLock \/ LogOther \/ UNCHANGED publicationVars => Remembers
    BY <1>1 DEF RemoveStaleLock, LogOther, publicationVars, net
  <2>3. \A q, index : Lose(q) \/ LogAppend(q, index) => Remembers
    BY <1>1 DEF Lose, LogAppend
  <2> QED BY <1>2, <1>3, <2>1, <2>2, <2>3, Zenon DEF PublicationNext
<1>5. [PublicationNext]_publicationVars /\ IInv => [Remembers]_publicationVars
  BY <1>4
<1>6. PublicationSpec => [][Remembers]_publicationVars
  BY <1>5, InvariantHolds, PTL DEF PublicationSpec
<1> QED BY <1>6, PTL DEF NothingForgotten, Remembers
=============================================================================
