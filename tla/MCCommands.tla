----------------------------- MODULE MCCommands -----------------------------
(* One small instance per component.  What others send (MCSent, MCReceived,  *)
(* MCForeign) holds each irregularity a recipient distinguishes, alone or    *)
(* with the ones it interacts with.                                          *)
EXTENDS Commands

CONSTANTS
  main, forked, art, cap, first, second,  \* Evidence
  alice, bob,                             \* Interop
  ours, theirs,                           \* Identity
  k1, k2,                                 \* ReceiptFile
  e1, e2, e3,                             \* CausalQuery
  h1, h2                                  \* StepCache

----------------------------------------------------------------------------
\* Evidence: an artifact, a capsule, an event and one it caused.
MCParents == [e \in Events |-> IF e = second THEN {first} ELSE {}]

Good == [schema |-> "known", signature |-> "holds", success |-> TRUE, artifacts |-> {art},
         inventory |-> TRUE, capsules |-> {cap}, events |-> <<first, second>>,
         root |-> <<first, second>>]

MCReceipts ==
  {Good, [Good EXCEPT !.schema = "newer"], [Good EXCEPT !.signature = "broken"],
   [Good EXCEPT !.success = FALSE], [Good EXCEPT !.inventory = FALSE],
   [Good EXCEPT !.events = <<>>, !.root = None],
   [Good EXCEPT !.events = <<second>>, !.root = <<second>>],
   [Good EXCEPT !.root = <<second, first>>], [Good EXCEPT !.events = <<first, first>>],
   [Good EXCEPT !.artifacts = {}]}

\* Signed tree heads of both histories, records and comparisons with them.
Signed(h, n) == [tree |-> Tree(h, n), ours |-> TRUE]
Heads        == {Signed(h, n) : h \in Histories, n \in 1 .. MaxSize}
SomeHead     == Signed(main, MaxSize)
Included(c)  == [bound |-> TRUE, names |-> TRUE, checkpoint |-> c, proves |-> TRUE]
Related(c, d) ==
  [known |-> TRUE, names |-> TRUE, first |-> c, second |-> d,
   path |-> IF c.tree.size < d.tree.size THEN <<c.tree, d.tree>> ELSE None]

MCRecords ==
  {Included(c) : c \in Heads} \cup
  {[Included(SomeHead) EXCEPT !.bound = FALSE], [Included(SomeHead) EXCEPT !.names = FALSE],
   [Included(SomeHead) EXCEPT !.proves = FALSE], Included(None),
   Included([SomeHead EXCEPT !.ours = FALSE])}
MCComparisons ==
  {Related(c, d) : c, d \in Heads} \cup {[Related(SomeHead, SomeHead) EXCEPT !.known = FALSE]}

Packing(k, r) ==
  [kind |-> k, receipt |-> r, given |-> r.capsules, publication |-> None,
   comparison |-> None, identity |-> None, allowPartial |-> FALSE]
MCAsked ==
  {Packing(k, r) : k \in {"evidence", "archive"}, r \in MCReceipts} \cup
  {[Packing("archive", Good) EXCEPT !.allowPartial = TRUE],
   [Packing("evidence", Good) EXCEPT !.given = {}],
   [Packing("evidence", Good) EXCEPT !.given = {Other}],
   [Packing("evidence", Good) EXCEPT !.comparison = Related(SomeHead, SomeHead)],
   [Packing("evidence", Good) EXCEPT !.publication = Included(SomeHead), !.identity = "differs"]}

\* Packages with every set of files, with each receipt, each flaw of the archive, and
\* each record with each comparison.
EventFile(o, i, s, b) == [of |-> o, id |-> i, signature |-> s, metadata |-> b]
EventShapes(e) ==
  {None, Other, EventFile(e, e, "none", FALSE), EventFile(e, e, "holds", TRUE),
   EventFile(e, e, "broken", FALSE), EventFile(Other, e, "holds", FALSE)}
  \cup {EventFile(d, d, "holds", FALSE) : d \in Events}
FileSets ==
  {fs \in [Files -> {art, cap, None, Other} \cup UNION {EventShapes(e) : e \in Events}] :
     \A f \in Files : fs[f] \in IF f \in Events THEN EventShapes(f) ELSE {f, Other, None}}
Whole == [f \in Files |-> IF f \in Events THEN EventFile(f, f, "holds", FALSE) ELSE f]
Parcel(r, fs) ==
  [kind |-> "evidence", format |-> "v2", fits |-> TRUE, partial |-> FALSE, receipt |-> r,
   files |-> fs, stray |-> FALSE, publication |-> None, comparison |-> None, identity |-> None]
MCSent ==
  {[Parcel(Good, fs) EXCEPT !.format = "v1"] : fs \in FileSets}
  \cup {[Parcel(Good, fs) EXCEPT !.kind = "archive", !.format = "v1", !.partial = b] :
        fs \in {x \in FileSets : x[art] = None /\ x[cap] = None}, b \in BOOLEAN}
  \cup {[Parcel(r, Whole) EXCEPT !.identity = i] :
        r \in MCReceipts \cup {None}, i \in {None, "matches"}}
  \cup {[Parcel(Good, Whole) EXCEPT !.format = f, !.stray = s, !.fits = t, !.publication = p] :
        f \in {"v1", "v2", "v3", "other", None}, s \in BOOLEAN, t \in BOOLEAN,
        p \in {None, Included(SomeHead)}}
  \cup {[Parcel(Good, Whole) EXCEPT !.format = "v3", !.publication = p, !.comparison = c] :
        p \in MCRecords, c \in MCComparisons \cup {None}}

NoLog  == [trust |-> FALSE, reference |-> None, comparison |-> None]
Reader == [trusted |-> TRUE, root |-> "none", policy |-> FALSE, asksLog |-> FALSE, log |-> NoLog]
MCReaders ==
  {Reader, [Reader EXCEPT !.trusted = FALSE], [Reader EXCEPT !.root = "differs"],
   [Reader EXCEPT !.policy = TRUE], [Reader EXCEPT !.asksLog = TRUE]}
  \cup {[Reader EXCEPT !.log = [trust |-> TRUE, reference |-> c, comparison |-> None]] :
        c \in Heads \cup {None, Signed(main, 0), [SomeHead EXCEPT !.ours = FALSE]}}

----------------------------------------------------------------------------
\* Interop: the exporter has alice's key; every recipient.
Original(k, h, t, b, w) ==
  [signer |-> k, holds |-> h, sound |-> TRUE, token |-> t, bound |-> b, bundle |-> w]
Unsound == [Original(alice, TRUE, None, TRUE, None) EXCEPT !.sound = FALSE]
MCOriginals ==
  {Original(alice, TRUE, t, b, w) :
     t \in {None, "before", "after", "broken"}, b \in BOOLEAN, w \in {None, "ours", "theirs"}}
  \cup {Unsound, Original(alice, FALSE, None, TRUE, None), Original(None, FALSE, None, TRUE, None)}
MCExports ==
  {[original |-> r, allowUnsigned |-> u, key |-> k, identity |-> w] :
     r \in {Original(alice, TRUE, None, TRUE, "ours"), Original(alice, TRUE, "before", FALSE, None),
            Original(alice, TRUE, "broken", FALSE, None), Unsound,
            Original(alice, FALSE, None, TRUE, None), Original(None, FALSE, None, TRUE, None)},
     u \in BOOLEAN, k \in {None, alice, bob}, w \in {None, "ours", "theirs"}}

Sig(k, h) == [key |-> k, holds |-> h]
Plain     == Original(alice, TRUE, None, TRUE, "ours")
Of(r) ==
  [parses |-> TRUE, coherent |-> TRUE, build |-> "current", original |-> r, claims |-> TRUE,
   workflow |-> None, bundle |-> None, finished |-> "before", signatures |-> {Sig(bob, TRUE)}]
MCReceived ==
  {[Of(r) EXCEPT !.build = b] : r \in MCOriginals \cup {None}, b \in {"current", "legacy"}}
  \cup {[Of(Plain) EXCEPT !.parses = p, !.coherent = c, !.claims = d] : p, c, d \in BOOLEAN}
  \cup {[Of(Original(alice, TRUE, None, TRUE, b)) EXCEPT !.workflow = w, !.bundle = v] :
        b, w, v \in {None, "ours", "theirs"}}
  \cup {[Of(Plain) EXCEPT !.build = b, !.finished = f, !.signatures = s] :
        b \in {"current", "legacy"}, f \in {"before", "after"},
        s \in {{}, {Sig(alice, TRUE)}, {Sig(bob, TRUE)}, {Sig(bob, FALSE)},
               {Sig(alice, TRUE), Sig(bob, TRUE)}}}
MCImports == ImportType

----------------------------------------------------------------------------
\* Identity: two workflows; bundles of the first over another receipt.
Cert(w, r, v) == [workflow |-> w, issuer |-> 1, repository |-> r, revision |-> v]
MCClaims ==
  [w \in Workflows |-> IF w = ours THEN Cert(1, <<1>>, <<1>>) ELSE Cert(2, <<2>>, <<2>>)]
Holding(i, c) == [id |-> i, commit |-> c]
MCFiles == {Holding(1, 1), Holding(2, 2), Holding(3, None)}
MCForeign ==
  {[over |-> Holding(2, 2), certificate |-> c, genuine |-> g] :
     c \in {Cert(1, <<1>>, <<1>>), Cert(1, <<1>>, <<1, 2>>), Cert(1, <<>>, <<2>>)}, g \in BOOLEAN}
MCPolicies ==
  {[valid |-> b, workflow |-> 1, issuer |-> 1, repository |-> 1, revision |-> r] :
     b \in BOOLEAN, r \in {1, 2}}

----------------------------------------------------------------------------
\* Images
Keyless(i, o, r) == [identity |-> i, issuer |-> o, revision |-> r]
Slsa(v, r) == [version |-> v, revision |-> r]
MCDocs ==
  {[sbom |-> s, slsa |-> d, keyless |-> {Keyless(1, 2, 1), Keyless(2, 1, 2)}] :
     s \in {{TRUE}, {TRUE, FALSE}},
     d \in {{}, {Slsa("v1", 1)}, {Slsa("v1", None)}, {Slsa("v02", None)},
            {Slsa("v1", 1), Slsa("v1", 2)}, {Slsa("unsound", 1), Slsa("v1", 1)}}}
Signing(k, a, r, c) ==
  [ref |-> "digest", key |-> k, allowFile |-> a, explicit |-> r, requireClean |-> c]
MCSign ==
  {Signing("kms", FALSE, None, TRUE), Signing("kms", FALSE, 1, TRUE),
   Signing("file", TRUE, None, FALSE), Signing("file", FALSE, None, TRUE),
   Signing("kms", FALSE, 0, TRUE), [Signing("kms", FALSE, None, TRUE) EXCEPT !.ref = "tag"]}
Demand(s, p, r, k, w) ==
  [ref |-> "digest", sbom |-> s, provenance |-> p, expected |-> r, key |-> k, identity |-> None,
   issuer |-> None, record |-> w]
Pinning(d, i, o) == [d EXCEPT !.identity = i, !.issuer = o]
MCVerify ==
  {Demand(FALSE, FALSE, None, None, FALSE), Demand(TRUE, TRUE, None, "kms", TRUE),
   Demand(FALSE, FALSE, 1, None, TRUE), Demand(FALSE, FALSE, 1, "kms", TRUE),
   Demand(FALSE, FALSE, 2, "file", FALSE), Demand(FALSE, TRUE, None, None, FALSE),
   Pinning(Demand(FALSE, FALSE, None, None, TRUE), 1, 2),
   Pinning(Demand(FALSE, FALSE, None, None, FALSE), 1, 1),
   Pinning(Demand(FALSE, FALSE, 1, None, TRUE), 2, 1),
   Pinning(Demand(FALSE, FALSE, None, None, FALSE), 1, None),
   Pinning(Demand(TRUE, FALSE, None, "kms", FALSE), 1, 2), [Demand(TRUE, TRUE, 0, None, TRUE) EXCEPT !.ref = "tag"]}

----------------------------------------------------------------------------
\* Timeout, ReceiptFile, CausalQuery, StepCache
MCCodes == {-1, 0}

Bare(s)  ==
  [parses |-> TRUE, body |-> 0, sound |-> s, signature |-> None, signer |-> None, token |-> None]
By(k, b) == [key |-> k, body |-> b]
Held(k, b) == [Bare(TRUE) EXCEPT !.signature = By(k, b), !.signer = k]
MCDelivered ==
  {None, [Bare(TRUE) EXCEPT !.parses = FALSE], Bare(TRUE), Bare(FALSE), Held(k1, 0), Held(k1, 1),
   [Held(k1, 0) EXCEPT !.token = By(k1, 0)],
   [Held(k1, 0) EXCEPT !.token = By(k1, 0), !.signer = None],
   [Held(k1, 0) EXCEPT !.token = By(k2, 0), !.signer = None]}
MCErrands ==
  {[kind |-> "sign", key |-> k, stamp |-> s, pinned |-> TRUE, to |-> "receipt"] :
     k \in {k1, k2, None}, s \in BOOLEAN}
  \cup {[kind |-> "sign", key |-> k2, stamp |-> FALSE, pinned |-> FALSE, to |-> "receipt"]}
  \cup {[kind |-> "timestamp", key |-> None, stamp |-> TRUE, pinned |-> FALSE, to |-> t] :
        t \in {"receipt", "output"}}

MCRecorded ==
  {[parents |-> s, ours |-> TRUE] :
     s \in {<<>>, <<e1>>, <<e2>>, <<e2, e1>>, <<e1, e1>>}}
  \cup {[parents |-> <<>>, ours |-> FALSE]}
MCQueries ==
  {[kind |-> "path", from |-> e3, to |-> b] : b \in {e1, e3}} \cup {[kind |-> "stats"]}
  \cup {[kind |-> "chain", ids |-> s] : s \in {<<e3, e1>>, <<e1, e2, e3>>, <<e1, e1>>}}

MCSize == [k \in CacheKeys |-> IF k = h1 THEN 1 ELSE 2]
=============================================================================
