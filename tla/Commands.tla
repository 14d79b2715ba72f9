------------------------------ MODULE Commands ------------------------------
(***************************************************************************)
(* The commands of src/main.rs around a receipt.  Each invocation runs one *)
(* of them to its exit code; each works on files of its own, so that the   *)
(* processes of one command, or of the two that belong together (pack and  *)
(* verify, export and import, sign and timestamp), interleave with one     *)
(* another and not with those of another command.  `attest run` and        *)
(* `publish` are in Production, `verify` in Verify, `keys` and `trust` in  *)
(* TrustStore.                                                             *)
(***************************************************************************)
EXTENDS Evidence, Interop, Identity, Images, Wrap, Timeout, ReceiptFile, CausalQuery, StepCache,
        Tiles

VARIABLE command  \* which it is

commandVars == <<command, evidenceVars, interopVars, identityVars, imageVars, wrapVars,
                 timeoutVars, receiptFileVars, queryVars, cacheVars, tileVars>>

CommandNames ==
  {"evidence", "interop", "identity", "image", "wrap", "step", "sign", "causal", "cache",
   "log"}

\* Only the files of the command that runs differ from one start to another.
CommandInit ==
  /\ command \in CommandNames
  /\ EvidenceInit    /\ (command = "evidence" \/ disk = LeftByRun("none"))
  /\ InteropInit     /\ (command = "interop"  \/ \A k \in SigningKeys : status[k] = "none")
  /\ IdentityInit    /\ (command = "identity" \/ onDisk = CHOOSE r \in ReceiptFiles : TRUE)
  /\ ImagesInit      /\ (command = "image"    \/ LET d == CHOOSE d \in ImageDocs : TRUE
                                                 IN /\ image.sbom = d.sbom /\ image.slsa = d.slsa
                                                    /\ image.keyless = d.keyless)
  /\ WrapInit        /\ (command = "wrap"     \/ \A p \in WrapInputs : original[p] = "rw")
  /\ TimeoutInit
  /\ ReceiptFileInit /\ (command = "sign"     \/ origin = CHOOSE r \in Delivered : TRUE)
  /\ QueryInit
  /\ CacheInit       /\ (command = "cache"    \/ cindex = None)
  /\ TilesInit       /\ (command = "log"      \/ grown = 1)

\* `attest evidence pack` and `verify`, `attest causal export`.
RunEvidence ==
  /\ command = "evidence" /\ EvidenceNext
  /\ UNCHANGED <<command, interopVars, identityVars, imageVars, wrapVars, timeoutVars,
                 receiptFileVars, queryVars, cacheVars, tileVars>>

\* `attest export` and `import`.
RunInterop ==
  /\ command = "interop" /\ InteropNext
  /\ UNCHANGED <<command, evidenceVars, identityVars, imageVars, wrapVars, timeoutVars,
                 receiptFileVars, queryVars, cacheVars, tileVars>>

\* `attest identity sign`, and the check of a bundle by a recipient.
RunIdentity ==
  /\ command = "identity" /\ IdentityNext
  /\ UNCHANGED <<command, evidenceVars, interopVars, imageVars, wrapVars, timeoutVars,
                 receiptFileVars, queryVars, cacheVars, tileVars>>

\* `attest image sign` and `verify`.
RunImage ==
  /\ command = "image" /\ ImagesNext
  /\ UNCHANGED <<command, evidenceVars, interopVars, identityVars, wrapVars, timeoutVars,
                 receiptFileVars, queryVars, cacheVars, tileVars>>

\* `attest run --wrap`.
RunWrap ==
  /\ command = "wrap" /\ WrapNext
  /\ UNCHANGED <<command, evidenceVars, interopVars, identityVars, imageVars, timeoutVars,
                 receiptFileVars, queryVars, cacheVars, tileVars>>

\* A command of a step of `attest run`.
RunStep ==
  /\ command = "step" /\ TimeoutNext
  /\ UNCHANGED <<command, evidenceVars, interopVars, identityVars, imageVars, wrapVars,
                 receiptFileVars, queryVars, cacheVars, tileVars>>

\* `attest sign` and `timestamp`.
RunSign ==
  /\ command = "sign" /\ ReceiptFileNext
  /\ UNCHANGED <<command, evidenceVars, interopVars, identityVars, imageVars, wrapVars,
                 timeoutVars, queryVars, cacheVars, tileVars>>

\* `attest causal path`, `stats`, `events` and `chain`.
RunCausal ==
  /\ command = "causal" /\ QueryNext
  /\ UNCHANGED <<command, evidenceVars, interopVars, identityVars, imageVars, wrapVars,
                 timeoutVars, receiptFileVars, cacheVars, tileVars>>

\* The cache, as `attest run` and users of the library look up, store and clean up.
RunCache ==
  /\ command = "cache" /\ CacheNext
  /\ UNCHANGED <<command, evidenceVars, interopVars, identityVars, imageVars, wrapVars,
                 timeoutVars, receiptFileVars, queryVars, tileVars>>

\* The proofs of `attest causal publish` and `fetch-consistency`.
RunLog ==
  /\ command = "log" /\ TilesNext
  /\ UNCHANGED <<command, evidenceVars, interopVars, identityVars, imageVars, wrapVars,
                 timeoutVars, receiptFileVars, queryVars, cacheVars>>

CommandNext ==
  \/ RunEvidence \/ RunInterop \/ RunIdentity \/ RunImage
  \/ RunWrap \/ RunStep \/ RunSign \/ RunCausal \/ RunCache \/ RunLog

CommandSpec == CommandInit /\ [][CommandNext]_commandVars /\ TimeoutFairness
=============================================================================
