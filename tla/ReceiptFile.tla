---------------------------- MODULE ReceiptFile ----------------------------
(***************************************************************************)
(* sign_receipt_file and timestamp_receipt_file of src/core.rs with        *)
(* request_token of src/crypto/timestamp.rs: `attest sign` and `attest     *)
(* timestamp` read a receipt file, add to what they read, and put the      *)
(* result in its place or elsewhere by a rename.  Any number of them work  *)
(* on one file, and the time-stamp authority answers late or not at all.   *)
(***************************************************************************)
EXTENDS Verdicts, Naturals

CONSTANTS
  Clerks,       \* processes of `attest sign` and `attest timestamp`
  ClerkJobs,    \* what each may be asked for
  SignerKeys,   \* the keys they sign with
  Delivered     \* contents the receipt file may have at first

VARIABLES
  stored,   \* the receipt file and the file --output names, or None
  origin,   \* history: what the receipt file held at first
  fpc,      \* per clerk: idle, stamp (a token is wanted), store, done, killed
  errand,   \* what it was asked for
  copy,     \* what it has read and added
  fexit     \* its exit code

receiptFileVars == <<stored, origin, fpc, errand, copy, fexit>>

\* A receipt: a body, the signature over a body by a key, the key of the signer, the token
\* over a signature.  A file that does not parse is none; a receipt is `sound` unless
\* schema or consistency checks fail.
SignatureOver == [key : SignerKeys, body : {0, 1}]
ReceiptContent ==
  [parses : BOOLEAN, body : {0, 1}, sound : BOOLEAN, signature : SignatureOver \cup {None},
   signer : SignerKeys \cup {None}, token : SignatureOver \cup {None}]

\* `key`: the key to sign with, None if there is none to be had; `pinned`: the workspace
\* pins the time-stamp authority.
ErrandType == [kind : {"sign", "timestamp"}, key : SignerKeys \cup {None}, stamp : BOOLEAN,
               pinned : BOOLEAN, to : {"receipt", "output"}]

ASSUME ReceiptFileAssumption ==
  /\ Delivered \subseteq ReceiptContent \cup {None} /\ ClerkJobs \subseteq ErrandType
  /\ None \notin ReceiptContent /\ None \notin SignatureOver \cup SignerKeys /\ None \notin Nat

SignatureHolds(r) ==
  r.signature # None /\ r.signature.body = r.body /\ r.signer = r.signature.key

\* timestamp_check of the scrutiny: a token is over the signature that is there, and its
\* authority pinned.
TokenPasses(r, pinned) == r.token = None \/ (r.token = r.signature /\ pinned)

Finish(p, code) == fpc' = [fpc EXCEPT ![p] = "done"] /\ fexit' = [fexit EXCEPT ![p] = code]

----------------------------------------------------------------------------
\* sign_receipt_file: what is no receipt, names a signer or fails the checks, which leave
\* the signature out, is refused; then the key is loaded, and signature and signer are
\* put in.  A token that was there stays.
BeginSignReceipt(p, j) ==
  LET r == stored["receipt"] IN
  /\ fpc[p] = "idle" /\ j.kind = "sign"
  /\ errand' = [errand EXCEPT ![p] = j]
  /\ IF r = None THEN Finish(p, 2) /\ UNCHANGED copy
     ELSE IF ~ r.parses \/ r.signer # None \/ ~ r.sound \/ ~ TokenPasses(r, j.pinned)
     THEN Finish(p, 1) /\ UNCHANGED copy
     ELSE IF j.key = None THEN Finish(p, 2) /\ UNCHANGED copy
     ELSE /\ copy' = [copy EXCEPT ![p] =
               [r EXCEPT !.signature = [key |-> j.key, body |-> r.body], !.signer = j.key]]
          /\ fpc' = [fpc EXCEPT ![p] = IF j.stamp THEN "stamp" ELSE "store"]
          /\ UNCHANGED fexit
  /\ UNCHANGED <<stored, origin>>

\* timestamp_receipt_file: the receipt must have no token and a signature that holds.
BeginTimestamp(p, j) ==
  LET r == stored["receipt"] IN
  /\ fpc[p] = "idle" /\ j.kind = "timestamp"
  /\ errand' = [errand EXCEPT ![p] = j]
  /\ IF r = None THEN Finish(p, 2) /\ UNCHANGED copy
     ELSE IF ~ r.parses THEN Finish(p, 2) /\ UNCHANGED copy
     ELSE IF r.token # None \/ ~ SignatureHolds(r) THEN Finish(p, 1) /\ UNCHANGED copy
     ELSE /\ copy' = [copy EXCEPT ![p] = r]
          /\ fpc' = [fpc EXCEPT ![p] = "stamp"]
          /\ UNCHANGED fexit
  /\ UNCHANGED <<stored, origin>>

\* request_token over the signature in the copy: a token, or any failure within
\* the timeout, with which nothing has been written.
RequestToken(p, ok) ==
  /\ fpc[p] = "stamp"
  /\ IF ok THEN /\ copy' = [copy EXCEPT ![p].token = copy[p].signature]
                /\ fpc' = [fpc EXCEPT ![p] = "store"] /\ UNCHANGED fexit
           ELSE Finish(p, 2) /\ UNCHANGED copy
  /\ UNCHANGED <<stored, origin, errand>>

\* Fault: the token is put into the file as it is when the authority has answered.
StoreReceiptMerged(p, ok) ==
  LET now == stored["receipt"] IN
  /\ fpc[p] = "store"
  /\ IF ok /\ now # None
     THEN /\ stored' = [stored EXCEPT ![errand[p].to] =
               IF errand[p].kind = "sign" THEN copy[p] ELSE [now EXCEPT !.token = copy[p].token]]
          /\ Finish(p, 0)
     ELSE Finish(p, 2) /\ UNCHANGED stored
  /\ UNCHANGED <<origin, errand, copy>>

\* A temporary file beside the destination is written and renamed.
StoreReceipt(p, ok) ==
  /\ fpc[p] = "store"
  /\ IF ok THEN stored' = [stored EXCEPT ![errand[p].to] = copy[p]] /\ Finish(p, 0)
           ELSE Finish(p, 2) /\ UNCHANGED stored
  /\ UNCHANGED <<origin, errand, copy>>

\* A clerk that is killed leaves at most its temporary file.
KillClerk(p) ==
  /\ fpc[p] \in {"stamp", "store"}
  /\ fpc' = [fpc EXCEPT ![p] = "killed"]
  /\ UNCHANGED <<stored, origin, errand, copy, fexit>>

ReceiptFileInit ==
  /\ origin \in Delivered
  /\ stored = [s \in {"receipt", "output"} |-> IF s = "receipt" THEN origin ELSE None]
  /\ fpc = [p \in Clerks |-> "idle"] /\ errand = [p \in Clerks |-> None]
  /\ copy = [p \in Clerks |-> None] /\ fexit = [p \in Clerks |-> None]

ReceiptFileNext ==
  \E p \in Clerks :
    \/ \E j \in ClerkJobs : BeginSignReceipt(p, j) \/ BeginTimestamp(p, j)
    \/ \E ok \in BOOLEAN : RequestToken(p, ok) \/ StoreReceipt(p, ok)
    \/ KillClerk(p)

ReceiptFileSpec == ReceiptFileInit /\ [][ReceiptFileNext]_receiptFileVars

----------------------------------------------------------------------------
\* Whatever clerks do at once, and wherever one of them fails, a receipt they wrote is one
\* piece: its signature is over its body and by the signer it names, and a token is over
\* that signature.  (Two who both read it unsigned may both sign; then the later signature
\* stands, and never the token of the other.)  The one exception is the token of a receipt
\* that came with a signature and no signer, which TokenCoversSignature is about.  What a
\* clerk that reported success wrote to is signed.
TokenBesideItsSignature ==
  \A s \in {"receipt", "output"} :
    /\ stored[s] \notin {None, origin} =>
         /\ SignatureHolds(stored[s])
         /\ stored[s].token # None =>
              \/ stored[s].token = stored[s].signature
              \/ origin.signer = None /\ stored[s].token = origin.token
    /\ (\E p \in Clerks : fexit[p] = 0 /\ errand[p].to = s) =>
         stored[s] # None /\ SignatureHolds(stored[s])

\* "A signature over a receipt that cannot verify is worse than none" (core.rs:945): the
\* token of a receipt that a clerk wrote is over the signature beside it, without which
\* no verification of the receipt passes (verify.rs:693).
TokenCoversSignature ==
  \A s \in {"receipt", "output"} :
    stored[s] \notin {None, origin} =>
      (stored[s].token # None => stored[s].token = stored[s].signature)
=============================================================================
