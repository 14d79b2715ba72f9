-------------------------------- MODULE Wrap --------------------------------
(***************************************************************************)
(* src/wrap.rs with InputGuard of src/executor/mod.rs: `attest run --wrap` *)
(* holds the declared inputs read-only, hashes them, runs a foreign        *)
(* command, compares, and writes a receipt and a report.  Several such     *)
(* processes share one workspace, in which the user, the commands included,*)
(* writes, replaces and chmods files at any time, and each may be killed.  *)
(*                                                                         *)
(* wpc: idle, hold (the next input is to be looked at), protect (one was   *)
(* looked at), hash, spawn, build (the command runs), rehash, outputs,     *)
(* attest, receipt, report (the report is to be written), ended, killed.   *)
(***************************************************************************)
EXTENDS Verdicts, Naturals

CONSTANTS
  Wrappers,       \* processes of `attest run --wrap`
  WrapInputs,     \* the paths they declare as inputs
  BuildCodes,     \* exit codes of the command, 128 + n for a signal
  MaxMeddling     \* bound on what the user does to the inputs

VARIABLES
  wfile,     \* per input: what is at the path
  original,  \* history: the modes at the start
  meddled,   \* what the user has done so far
  wpc,
  asRoot,    \* the process is root: permission bits do not bind it
  todo,      \* inputs that are still to be looked at
  look,      \* the input looked at, its object and mode
  held,      \* guard.restore: the inputs made read-only, their objects and modes
  seen,      \* the inputs that were hashed before the command
  build,     \* report.build_exit_code
  result,    \* what run_wrap_inner returned, 2 for an error
  wreceipt,  \* the inputs its receipt states
  wexit      \* exit code of the process

wrapVars == <<wfile, original, meddled, wpc, asRoot, todo, look, held, seen, build, result,
              wreceipt, wexit>>

\* A path holds nothing, or an object (its device and inode; 1 is what replaces 0).
\* Modes: with some write bit, without, and one that cannot be opened.
FileObject == [object : {0, 1}, mode : {"rw", "ro", "closed"}, data : {0, 1}]
PathContent == FileObject \cup {None}

ASSUME WrapAssumption ==
  /\ BuildCodes \subseteq Nat /\ MaxMeddling \in Nat
  /\ None \notin Nat \cup FileObject /\ None \notin [WrapInputs -> {0, 1}]

----------------------------------------------------------------------------
\* What the user may do to an input at any time, within the permission bits.
WriteInput(p) == wfile[p] # None /\ wfile[p].mode = "rw" /\ wfile' = [wfile EXCEPT ![p].data = 1 - @]
RemoveInput(p) == wfile[p] # None /\ wfile' = [wfile EXCEPT ![p] = None]
ReplaceInput(p) == wfile' = [wfile EXCEPT ![p] = [object |-> 1, mode |-> "rw", data |-> 0]]
ChmodInput(p, m) == wfile[p] # None /\ wfile' = [wfile EXCEPT ![p].mode = m]

Meddle(p) ==
  /\ meddled < MaxMeddling
  /\ meddled' = meddled + 1
  /\ \/ WriteInput(p) \/ RemoveInput(p) \/ ReplaceInput(p)
     \/ \E m \in {"rw", "closed"} : ChmodInput(p, m)
  /\ UNCHANGED <<original, wpc, asRoot, todo, look, held, seen, build, result, wreceipt, wexit>>

----------------------------------------------------------------------------
\* InputGuard::drop: the objects whose bits were taken get them back, where they still
\* are and can be opened.
Restored(w) ==
  [p \in WrapInputs |->
     LET mine == {h \in held[w] : h.path = p /\ wfile[p] # None /\ h.object = wfile[p].object} IN
     IF mine # {} /\ wfile[p].mode # "closed"
     THEN [wfile[p] EXCEPT !.mode = (CHOOSE h \in mine : TRUE).mode]
     ELSE wfile[p]]

\* run_wrap_inner returns while it holds the guard; an error is exit code 2.
GiveUp(w, code) ==
  /\ wpc' = [wpc EXCEPT ![w] = "report"] /\ result' = [result EXCEPT ![w] = code]
  /\ wfile' = Restored(w) /\ held' = [held EXCEPT ![w] = {}]

\* Root does not get a guard.
BeginWrap(w, root) ==
  /\ wpc[w] = "idle"
  /\ wpc' = [wpc EXCEPT ![w] = IF root THEN "hash" ELSE "hold"]
  /\ asRoot' = [asRoot EXCEPT ![w] = root]
  /\ todo' = [todo EXCEPT ![w] = IF root THEN {} ELSE WrapInputs]
  /\ UNCHANGED <<wfile, original, meddled, look, held, seen, build, result, wreceipt, wexit>>

\* The path, its mode, and the device and inode the mode belongs to.
Identified(p) == [path |-> p, object |-> wfile[p].object, mode |-> wfile[p].mode]

\* Fault: inputs that are read-only already are taken into the guard too.
LookAtInputAlways(w, p) ==
  /\ wpc[w] = "hold" /\ p \in todo[w]
  /\ todo' = [todo EXCEPT ![w] = @ \ {p}]
  /\ IF wfile[p] # None
     THEN /\ wpc' = [wpc EXCEPT ![w] = "protect"]
          /\ look' = [look EXCEPT ![w] = Identified(p)]
     ELSE UNCHANGED <<wpc, look>>
  /\ UNCHANGED <<wfile, original, meddled, asRoot, held, seen, build, result, wreceipt, wexit>>

\* InputGuard::hold looks at an input: one that is missing or has no write bit is
\* passed over.
LookAtInput(w, p) ==
  /\ wpc[w] = "hold" /\ p \in todo[w]
  /\ todo' = [todo EXCEPT ![w] = @ \ {p}]
  /\ IF wfile[p] # None /\ wfile[p].mode = "rw"
     THEN /\ wpc' = [wpc EXCEPT ![w] = "protect"]
          /\ look' = [look EXCEPT ![w] = Identified(p)]
     ELSE UNCHANGED <<wpc, look>>
  /\ UNCHANGED <<wfile, original, meddled, asRoot, held, seen, build, result, wreceipt, wexit>>

\* It opens the input, makes sure of the object and takes the write bits.
Protect(w) ==
  /\ wpc[w] = "protect"
  /\ LET p == look[w].path IN
     IF wfile[p] # None /\ wfile[p].mode # "closed" /\ wfile[p].object = look[w].object
     THEN /\ wfile' = [wfile EXCEPT ![p].mode = "ro"]
          /\ held' = [held EXCEPT ![w] = @ \cup {look[w]}]
          /\ wpc' = [wpc EXCEPT ![w] = "hold"]
          /\ UNCHANGED result
     ELSE GiveUp(w, 2)
  /\ UNCHANGED <<original, meddled, asRoot, todo, look, seen, build, wreceipt, wexit>>

Hashable(w) == \A p \in WrapInputs : wfile[p] # None /\ (wfile[p].mode # "closed" \/ asRoot[w])
Data == [p \in WrapInputs |-> wfile[p].data]

\* hash_inputs before the command; an input that cannot be read ends it with 1.
HashBefore(w) ==
  /\ wpc[w] \in {"hold", "hash"} /\ todo[w] = {}
  /\ IF Hashable(w)
     THEN /\ seen' = [seen EXCEPT ![w] = Data]
          /\ wpc' = [wpc EXCEPT ![w] = "spawn"]
          /\ UNCHANGED <<wfile, held, result>>
     ELSE GiveUp(w, 1) /\ UNCHANGED seen
  /\ UNCHANGED <<original, meddled, asRoot, todo, look, build, wreceipt, wexit>>

\* A command that cannot be started is 127.
SpawnBuild(w, ok) ==
  /\ wpc[w] = "spawn"
  /\ IF ok THEN wpc' = [wpc EXCEPT ![w] = "build"] /\ UNCHANGED <<wfile, held, result>>
           ELSE GiveUp(w, 127)
  /\ UNCHANGED <<original, meddled, asRoot, todo, look, seen, build, wreceipt, wexit>>

\* The command ended and both of its streams did; the guard is dropped.
EndBuild(w, code) ==
  /\ wpc[w] = "build"
  /\ build' = [build EXCEPT ![w] = code]
  /\ wfile' = Restored(w) /\ held' = [held EXCEPT ![w] = {}]
  /\ wpc' = [wpc EXCEPT ![w] = "rehash"]
  /\ UNCHANGED <<original, meddled, asRoot, todo, look, seen, result, wreceipt, wexit>>

\* A step of the attestation: to the next one, or to the report with `code`.
Attesting(w, from, to, ok, code) ==
  /\ wpc[w] = from
  /\ wpc' = [wpc EXCEPT ![w] = IF ok THEN to ELSE "report"]
  /\ result' = IF ok THEN result ELSE [result EXCEPT ![w] = code]
  /\ UNCHANGED <<wfile, original, meddled, asRoot, todo, look, held, seen, build, wexit>>

Incomplete(w) == IF build[w] = 0 THEN 1 ELSE build[w]

\* The inputs must be readable and as they were.
Rehash(w) ==
  /\ Attesting(w, "rehash", "outputs", Hashable(w) /\ Data = seen[w], Incomplete(w))
  /\ UNCHANGED wreceipt

\* outputs_with_artifacts
HashOutputs(w, ok) == Attesting(w, "outputs", "attest", ok, Incomplete(w)) /\ UNCHANGED wreceipt

\* The ledger event, the signature and the time-stamp: any of them may be an error.
Attest(w, ok) == Attesting(w, "attest", "receipt", ok, 2) /\ UNCHANGED wreceipt

\* write_receipt_unique; the last thing that is done.
WriteReceipt(w, ok) ==
  /\ wpc[w] = "receipt"
  /\ wpc' = [wpc EXCEPT ![w] = "report"]
  /\ result' = [result EXCEPT ![w] = IF ok THEN build[w] ELSE 2]
  /\ wreceipt' = IF ok THEN [wreceipt EXCEPT ![w] = seen[w]] ELSE wreceipt
  /\ UNCHANGED <<wfile, original, meddled, asRoot, todo, look, held, seen, build, wexit>>

\* Fault: a report that cannot be written is an error whatever the command did.
WriteReportFirst(w, ok) ==
  /\ wpc[w] = "report"
  /\ wpc' = [wpc EXCEPT ![w] = "ended"]
  /\ wexit' = [wexit EXCEPT ![w] = IF ~ ok THEN 2
                                   ELSE IF build[w] \notin {None, 0} THEN build[w] ELSE result[w]]
  /\ UNCHANGED <<wfile, original, meddled, asRoot, todo, look, held, seen, build, result, wreceipt>>

\* run_wrap_with_report after run_wrap_inner: the report, if one was asked for, and the
\* exit code; a build that failed decides it alone.
WriteReport(w, ok) ==
  /\ wpc[w] = "report"
  /\ wpc' = [wpc EXCEPT ![w] = "ended"]
  /\ wexit' = [wexit EXCEPT ![w] = IF build[w] \notin {None, 0} THEN build[w]
                                   ELSE IF ~ ok THEN 2 ELSE result[w]]
  /\ UNCHANGED <<wfile, original, meddled, asRoot, todo, look, held, seen, build, result, wreceipt>>

\* A process that is killed drops nothing.
KillWrapper(w) ==
  /\ wpc[w] \notin {"idle", "ended", "killed"}
  /\ wpc' = [wpc EXCEPT ![w] = "killed"]
  /\ UNCHANGED <<wfile, original, meddled, asRoot, todo, look, held, seen, build, result, wreceipt, wexit>>

WrapInit ==
  /\ wfile \in [WrapInputs -> {[object |-> 0, mode |-> m, data |-> 0] : m \in {"rw", "ro"}}]
  /\ original = [p \in WrapInputs |-> wfile[p].mode] /\ meddled = 0
  /\ wpc = [w \in Wrappers |-> "idle"] /\ asRoot = [w \in Wrappers |-> FALSE]
  /\ todo = [w \in Wrappers |-> {}] /\ look = [w \in Wrappers |-> None]
  /\ held = [w \in Wrappers |-> {}] /\ seen = [w \in Wrappers |-> None]
  /\ build = [w \in Wrappers |-> None] /\ result = [w \in Wrappers |-> None]
  /\ wreceipt = [w \in Wrappers |-> None] /\ wexit = [w \in Wrappers |-> None]

WrapNext ==
  \/ \E p \in WrapInputs : Meddle(p)
  \/ \E w \in Wrappers :
       \/ \E root \in BOOLEAN : BeginWrap(w, root)
       \/ \E p \in WrapInputs : LookAtInput(w, p)
       \/ Protect(w) \/ HashBefore(w) \/ Rehash(w) \/ KillWrapper(w)
       \/ \E ok \in BOOLEAN :
            \/ SpawnBuild(w, ok) \/ HashOutputs(w, ok) \/ Attest(w, ok)
            \/ WriteReceipt(w, ok) \/ WriteReport(w, ok)
       \/ \E code \in BuildCodes : EndBuild(w, code)

WrapSpec == WrapInit /\ [][WrapNext]_wrapVars

----------------------------------------------------------------------------
\* "The wrapped command's exit code is always propagated; a wrapped failure is never
\* masked by attestation bookkeeping" (wrap.rs:11), whatever step of it fails; and
\* success is never claimed without a command that succeeded and a receipt.
FailureNeverMasked ==
  \A w \in Wrappers :
    wpc[w] = "ended" =>
      /\ build[w] \notin {None, 0} => wexit[w] = build[w]
      /\ wexit[w] = 0 => build[w] = 0 /\ wreceipt[w] # None
      /\ wreceipt[w] # None => build[w] # None

\* The input guard "gets them back when the guard drops, on success or failure"
\* (executor/mod.rs:299), for any number of processes whose guards overlap on the same
\* inputs: once all have ended, none of them killed, no file is left without the write
\* bits it had.  (A mode the user chose himself stays.)
PermissionsRestored ==
  (\A w \in Wrappers : wpc[w] \in {"idle", "report", "ended"}) =>
    \A p \in WrapInputs :
      wfile[p] # None /\ wfile[p].mode = "ro" => wfile[p].object = 0 /\ original[p] = "ro"
=============================================================================
