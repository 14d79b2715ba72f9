---------------------------- MODULE Publication ----------------------------
(***************************************************************************)
(* src/publication/client.rs: `attest causal publish`.  One retained       *)
(* record, its lock file, publishers that may crash, and a log reached     *)
(* over a network that may lose, delay or answer late.  The log is         *)
(* external: it appends entries and serves checkpoints of any prefix, and  *)
(* the index it answers with may be wrong.                                 *)
(*                                                                         *)
(* A publisher is at                                                       *)
(*   idle     no process                                                   *)
(*   locked   RecordStore::acquire has created the lock file               *)
(*   loop     before the test of the submission loop                       *)
(*   intend   an attempt is to be made                                     *)
(*   intended the intent is saved, the POST not yet made                   *)
(*   waiting  for the answer to its POST                                   *)
(*   sleeping between two attempts                                         *)
(*   polling  for a checkpoint that covers its index                       *)
(*   finish   obtain_inclusion returned or was cut off                     *)
(*                                                                         *)
(* An operator under "Fault:" is a plausible slip in the definition that   *)
(* follows it; none is part of the specification.                          *)
(***************************************************************************)
EXTENDS Naturals, Sequences, FiniteSets

CONSTANTS
  Publishers,           \* invocations of the command on one output file
  Nonces,          \* openings the random source may give
  NoValue,            \* no record, no returned index
  Other,           \* an entry of somebody else
  MaxSubmissions,  \* MAX_SUBMISSIONS
  MaxPolls,        \* MAX_CHECKPOINT_POLLS
  MaxLog           \* bound: entries in the log

VARIABLES
  retained,       \* the record file
  lock,       \* whether <output>.lock exists
  stage,         \* where each publisher is
  mem,        \* the record in its memory
  polls,      \* polls it has left
  sent,       \* POST requests made so far, by anyone
  inflight,   \* requests the log has not dealt with
  answers,    \* indices on their way back
  log,        \* the entries of the log
  told        \* a publisher has reported "confirmed"

proc == <<stage, mem, polls>>
net  == <<sent, inflight, answers>>
publicationVars == <<retained, lock, proc, net, log, told>>

Reasons    == {"prepared", "failed", "refused", "awaiting", "invalid", "deadline", "limit"}
Indices    == 0 .. MaxLog

\* PublicationRecord: opening_nonce (and the entry it commits to), the
\* returned_index of every submission, the outcome and its leaf_index.
Records ==
  [nonce   : Nonces,
   subs    : Seq(Indices \cup {NoValue}),
   outcome : Reasons \cup {"confirmed"},
   leaf    : Indices]

ASSUME PublicationAssumption ==
  /\ MaxSubmissions \in Nat /\ MaxPolls \in Nat /\ MaxLog \in Nat
  /\ Other \notin Nonces
  /\ NoValue \notin Records \cup Indices

Answered(r) == {i \in DOMAIN r.subs : r.subs[i] # NoValue}

\* The index of the last attempt that was answered.
LastIndex(r) == r.subs[CHOOSE i \in Answered(r) : \A j \in Answered(r) : j <= i]

----------------------------------------------------------------------------
PublicationInit ==
  /\ retained = NoValue
  /\ lock = FALSE
  /\ stage = [p \in Publishers |-> "idle"]
  /\ mem = [p \in Publishers |-> NoValue]
  /\ polls = [p \in Publishers |-> 0]
  /\ sent = 0 /\ inflight = {} /\ answers = {}
  /\ log = <<>>
  /\ told = FALSE

At(p, l)     == stage[p] = l
MoveTo(p, l) == stage' = [stage EXCEPT ![p] = l]
Keep(p, r)   == mem' = [mem EXCEPT ![p] = r]

\* Fault: an existing lock file is opened, not refused.
AcquireShared(p) ==
  /\ At(p, "idle")
  /\ lock' = TRUE
  /\ MoveTo(p, "locked")
  /\ UNCHANGED <<retained, mem, polls, net, log, told>>

\* RecordStore::acquire: create_new, so a lock file that is there is an error.
Acquire(p) ==
  /\ At(p, "idle")
  /\ ~lock
  /\ lock' = TRUE
  /\ MoveTo(p, "locked")
  /\ UNCHANGED <<retained, mem, polls, net, log, told>>

\* The process ends; what it had in memory is gone.
Gone(p) ==
  /\ MoveTo(p, "idle")
  /\ Keep(p, NoValue)
  /\ polls' = [polls EXCEPT ![p] = 0]

\* Drop of the RecordStore.
Exit(p) ==
  /\ Gone(p)
  /\ lock' = FALSE

\* RecordStore::save(r) in obtain_inclusion, then on to l.  It may fail before
\* the rename, or after it when the directory cannot be synced: either way the
\* error ends obtain_inclusion with the record r0 of the moment.
Save(p, r, l, r0) ==
  \/ retained' = r /\ Keep(p, r) /\ MoveTo(p, l)
  \/ /\ retained' \in {retained, r}
     /\ Keep(p, [r0 EXCEPT !.outcome = "invalid"]) /\ MoveTo(p, "finish")

\* publish without a record: a fresh opening, saved before anything else.
Prepare(p) ==
  /\ At(p, "locked")
  /\ retained = NoValue
  /\ \E n \in Nonces :
       LET r == [nonce |-> n, subs |-> <<>>, outcome |-> "prepared", leaf |-> 0] IN
       \/ retained' = r /\ Keep(p, r) /\ MoveTo(p, "loop") /\ UNCHANGED <<lock, polls>>
       \/ retained' \in {retained, r} /\ Exit(p)
  /\ UNCHANGED <<net, log, told>>

\* publish with an unconfirmed record resumes it.
Resume(p) ==
  /\ At(p, "locked")
  /\ retained # NoValue
  /\ retained.outcome # "confirmed"
  /\ Keep(p, retained)
  /\ MoveTo(p, "loop")
  /\ UNCHANGED <<retained, lock, polls, net, log, told>>

\* A confirmed record is verified again and returned.
Recheck(p) ==
  /\ At(p, "locked")
  /\ retained # NoValue
  /\ retained.outcome = "confirmed"
  /\ told' = TRUE
  /\ Exit(p)
  /\ UNCHANGED <<retained, net, log>>

\* The record cannot be read, belongs to another receipt or log, or its
\* confirmation does not verify under this configuration.
LoadRefused(p) ==
  /\ At(p, "locked")
  /\ retained # NoValue
  /\ Exit(p)
  /\ UNCHANGED <<retained, net, log, told>>

----------------------------------------------------------------------------
(* obtain_inclusion: the submissions.                                      *)

\* Fault: an index counts only while the record awaits inclusion.
LoopAnew(p) ==
  /\ At(p, "loop")
  /\ IF Answered(mem[p]) # {} /\ mem[p].outcome = "awaiting"
     THEN MoveTo(p, "polling") /\ polls' = [polls EXCEPT ![p] = MaxPolls]
     ELSE /\ MoveTo(p, IF Len(mem[p].subs) < MaxSubmissions THEN "intend" ELSE "finish")
          /\ UNCHANGED polls
  /\ UNCHANGED <<retained, lock, mem, net, log, told>>

\* The loop: an index is known, or attempts are left, or neither.
Loop(p) ==
  /\ At(p, "loop")
  /\ IF Answered(mem[p]) # {}
     THEN MoveTo(p, "polling") /\ polls' = [polls EXCEPT ![p] = MaxPolls]
     ELSE /\ MoveTo(p, IF Len(mem[p].subs) < MaxSubmissions THEN "intend" ELSE "finish")
          /\ UNCHANGED polls
  /\ UNCHANGED <<retained, lock, mem, net, log, told>>

\* Fault: the intent is kept in memory only.
IntendInMemory(p) ==
  LET r == [mem[p] EXCEPT !.subs = Append(@, NoValue)] IN
  /\ At(p, "intend")
  /\ Keep(p, r)
  /\ MoveTo(p, "intended")
  /\ UNCHANGED <<retained, lock, polls, net, log, told>>

\* "record exact intent before POST".
Intend(p) ==
  LET r == [mem[p] EXCEPT !.subs = Append(@, NoValue)] IN
  /\ At(p, "intend")
  /\ Save(p, r, "intended", r)
  /\ UNCHANGED <<lock, polls, net, log, told>>

\* HttpLog::submit sends the entry.
Post(p) ==
  /\ At(p, "intended")
  /\ sent' = sent + 1
  /\ inflight' = inflight \cup {[id |-> sent + 1, by |-> p, nonce |-> mem[p].nonce]}
  /\ MoveTo(p, "waiting")
  /\ UNCHANGED <<retained, lock, mem, polls, answers, log, told>>

\* An index comes back and is saved.
Returned(p, a) ==
  LET r == [mem[p] EXCEPT !.subs[Len(mem[p].subs)] = a.index, !.outcome = "awaiting"] IN
  /\ At(p, "waiting")
  /\ a \in answers
  /\ a.by = p /\ a.id = sent
  /\ answers' = answers \ {a}
  /\ Save(p, r, "loop", r)
  /\ UNCHANGED <<lock, polls, sent, inflight, log, told>>

\* No index comes back: the connection fails, a gateway answers 5xx or 429, or
\* the answer is no index.  The entry may have reached the log all the same.
NoIndex(p, reason) ==
  LET r == [mem[p] EXCEPT !.outcome = reason] IN
  /\ At(p, "waiting")
  /\ reason \in {"failed", "refused", "invalid"}
  /\ Save(p, r, "sleeping", r)
  /\ UNCHANGED <<lock, polls, net, log, told>>

\* Another status: the service refuses the request.
Refused(p) ==
  LET r == [mem[p] EXCEPT !.outcome = "refused"] IN
  /\ At(p, "waiting")
  /\ \E q \in inflight :
       /\ q.by = p /\ q.id = sent
       /\ inflight' = inflight \ {q}
  /\ Save(p, r, "finish", r)
  /\ UNCHANGED <<lock, polls, sent, answers, log, told>>

WakeUp(p) ==
  /\ At(p, "sleeping")
  /\ MoveTo(p, "loop")
  /\ UNCHANGED <<retained, lock, mem, polls, net, log, told>>

----------------------------------------------------------------------------
(* obtain_inclusion: the proof.                                            *)

\* No checkpoint, or none that covers the index yet.
PollAgain(p) ==
  /\ At(p, "polling")
  /\ IF polls[p] > 1 THEN MoveTo(p, "polling") ELSE MoveTo(p, "finish")
  /\ polls' = [polls EXCEPT ![p] = IF @ > 0 THEN @ - 1 ELSE 0]
  /\ UNCHANGED <<retained, lock, mem, net, log, told>>

\* The checkpoint or a tile cannot be read.
PollError(p, reason) ==
  /\ At(p, "polling")
  /\ reason \in {"failed", "refused", "invalid"}
  /\ Keep(p, [mem[p] EXCEPT !.outcome = reason])
  /\ MoveTo(p, "finish")
  /\ UNCHANGED <<retained, lock, polls, net, log, told>>

\* Fault: an index covered by the checkpoint is taken for inclusion.
ConfirmByIndex(p, size) ==
  LET index == LastIndex(mem[p])
      r == [mem[p] EXCEPT !.outcome = "confirmed", !.leaf = index] IN
  /\ At(p, "polling")
  /\ index < size
  /\ Save(p, r, "finish", mem[p])
  /\ UNCHANGED <<lock, polls, net, log, told>>

\* A checkpoint of `size` entries covers the index and the inclusion proof
\* verifies: the entry is at that index.
Confirm(p, size) ==
  LET index == LastIndex(mem[p])
      r == [mem[p] EXCEPT !.outcome = "confirmed", !.leaf = index] IN
  /\ At(p, "polling")
  /\ index < size
  /\ log[index + 1] = mem[p].nonce
  /\ Save(p, r, "finish", mem[p])
  /\ UNCHANGED <<lock, polls, net, log, told>>

\* The proof does not verify: another entry is at that index.
ProofFails(p, size) ==
  /\ At(p, "polling")
  /\ LastIndex(mem[p]) < size
  /\ log[LastIndex(mem[p]) + 1] # mem[p].nonce
  /\ Keep(p, [mem[p] EXCEPT !.outcome = "invalid"])
  /\ MoveTo(p, "finish")
  /\ UNCHANGED <<retained, lock, polls, net, log, told>>

----------------------------------------------------------------------------
(* publish: the end.                                                       *)

\* Fault: the deadline covers the polls, not the submissions.
DeadlineOfPolls(p) ==
  /\ At(p, "polling")
  /\ Keep(p, [mem[p] EXCEPT !.outcome = "deadline"])
  /\ MoveTo(p, "finish")
  /\ UNCHANGED <<retained, lock, polls, net, log, told>>

\* tokio::time::timeout cuts obtain_inclusion off where it awaits.
Deadline(p) ==
  /\ stage[p] \in {"waiting", "sleeping", "polling"}
  /\ Keep(p, [mem[p] EXCEPT !.outcome = "deadline"])
  /\ MoveTo(p, "finish")
  /\ UNCHANGED <<retained, lock, polls, net, log, told>>

\* The attempt limit, the last save and the return.
Finish(p) ==
  LET m == mem[p]
      r == [m EXCEPT !.outcome =
              IF @ = "prepared" /\ Len(m.subs) >= MaxSubmissions /\ Answered(m) = {}
              THEN "limit" ELSE @] IN
  /\ At(p, "finish")
  /\ \/ retained' = r /\ told' = (told \/ r.outcome = "confirmed")
     \/ retained' \in {retained, r} /\ UNCHANGED told
  /\ Exit(p)
  /\ UNCHANGED <<net, log>>

\* The process is killed; the lock file stays.
KillPublisher(p) ==
  /\ ~At(p, "idle")
  /\ Gone(p)
  /\ UNCHANGED <<retained, lock, net, log, told>>

\* The operator has seen that no publisher is left and removes the lock file.
RemoveStaleLock ==
  /\ lock
  /\ \A p \in Publishers : At(p, "idle")
  /\ lock' = FALSE
  /\ UNCHANGED <<retained, proc, net, log, told>>

----------------------------------------------------------------------------
(* The log and the network.                                                *)

\* The log appends the entry of a request and answers with an index.
LogAppend(q, index) ==
  /\ Len(log) < MaxLog
  /\ q \in inflight
  /\ inflight' = inflight \ {q}
  /\ log' = Append(log, q.nonce)
  /\ answers' = answers \cup {[id |-> q.id, by |-> q.by, index |-> index]}
  /\ UNCHANGED <<retained, lock, proc, sent, told>>

LogOther ==
  /\ Len(log) < MaxLog
  /\ log' = Append(log, Other)
  /\ UNCHANGED <<retained, lock, proc, net, told>>

Lose(q) ==
  /\ q \in inflight
  /\ inflight' = inflight \ {q}
  /\ UNCHANGED <<retained, lock, proc, sent, answers, log, told>>

----------------------------------------------------------------------------
Own(p) ==
  \/ Prepare(p) \/ Resume(p) \/ Recheck(p) \/ LoadRefused(p)
  \/ Loop(p) \/ Intend(p) \/ Post(p) \/ WakeUp(p) \/ Finish(p)

FromTheLog(p) ==
  \/ \E a \in answers : Returned(p, a)
  \/ \E reason \in Reasons : NoIndex(p, reason) \/ PollError(p, reason)
  \/ Refused(p)
  \/ PollAgain(p)
  \/ \E size \in 0 .. Len(log) : Confirm(p, size) \/ ProofFails(p, size)

PublicationNext ==
  \/ \E p \in Publishers : Acquire(p) \/ Own(p) \/ FromTheLog(p) \/ Deadline(p) \/ KillPublisher(p)
  \/ RemoveStaleLock
  \/ \E q \in inflight : Lose(q) \/ (\E index \in Indices : LogAppend(q, index))
  \/ LogOther

PublicationSpec == PublicationInit /\ [][PublicationNext]_publicationVars

\* A publisher keeps running and its deadline fires; the log promises nothing.
PublicationFairness ==
  \A p \in Publishers : WF_publicationVars(Own(p)) /\ WF_publicationVars(Deadline(p))

----------------------------------------------------------------------------
(* Properties.                                                             *)

PCs == {"idle", "locked", "loop", "intend", "intended", "waiting", "sleeping", "polling", "finish"}

\* Types; a publisher past the load has a record, and one that polls an index.
PublicationTypeOK ==
  /\ retained \in Records \cup {NoValue}
  /\ lock \in BOOLEAN
  /\ stage \in [Publishers -> PCs]
  /\ polls \in [Publishers -> Nat]
  /\ mem \in [Publishers -> Records \cup {NoValue}]
  /\ \A p \in Publishers : stage[p] \notin {"idle", "locked"} => mem[p] # NoValue
  /\ \A p \in Publishers : stage[p] = "polling" => Answered(mem[p]) # {}
  /\ sent \in Nat
  /\ inflight \subseteq [id : Nat, by : Publishers, nonce : Nonces]
  /\ answers \subseteq [id : Nat, by : Publishers, index : Indices]
  /\ log \in Seq(Nonces \cup {Other})
  /\ told \in BOOLEAN

\* Nothing is disclosed that the record does not account for, through crashes,
\* failed saves and publishers started twice: there were never more requests
\* than recorded attempts, never more attempts than MAX_SUBMISSIONS, and every
\* entry on its way or in the log opens with the recorded nonce.
DisclosureRecorded ==
  /\ sent > 0 => retained # NoValue
  /\ retained # NoValue =>
       /\ sent <= Len(retained.subs)
       /\ Len(retained.subs) <= MaxSubmissions
       /\ \A q \in inflight : q.nonce = retained.nonce
       /\ \A i \in DOMAIN log : log[i] \in {Other, retained.nonce}

\* What publish reported as confirmed stays confirmed on disk: no later or
\* interrupted run takes it back.  A confirmed record is about an entry that is in
\* the log, at the leaf it names, although the answered index may be wrong.
ConfirmationStands ==
  /\ told => retained # NoValue /\ retained.outcome = "confirmed"
  /\ retained # NoValue /\ retained.outcome = "confirmed" =>
       retained.leaf < Len(log) /\ log[retained.leaf + 1] = retained.nonce

\* Once an index is on disk the entry is never submitted again, and neither the
\* record, its opening nor the index is ever lost.
NothingForgotten ==
  [][retained # NoValue =>
       /\ retained' # NoValue
       /\ retained'.nonce = retained.nonce
       /\ Answered(retained) \subseteq Answered(retained')
       /\ Answered(retained) # {} => sent' = sent]_publicationVars

\* "An unavailable service cannot stall the command indefinitely": a publisher
\* that started ends, although the log may never answer.
PublishEnds == \A p \in Publishers : stage[p] = "locked" ~> stage[p] = "idle"
=============================================================================
