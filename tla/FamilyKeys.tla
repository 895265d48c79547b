------------------------------ MODULE FamilyKeys ------------------------------
(***************************************************************************)
(* The receipts that authenticate letters and films under a key the family *)
(* holds (adapters/authenticity.py, adapters/inbox/authenticity.py,        *)
(* adapters/film/verify.py), and the ceremony that backs that key up,      *)
(* rotates and recovers it (adapters/key_recovery.py).                     *)
(*                                                                         *)
(* Keys are numbered as they are made; 1 is the family's own.  A bundle    *)
(* and a letter's receipt are written beside and renamed into place, a     *)
(* film's receipt is written in place.  The passphrase is the right one.   *)
(***************************************************************************)
EXTENDS Integers

CONSTANTS
  Ledgers, Films,   \* what gets a receipt: letters' ledgers, films' manifests
  Paths,            \* places for recovery bundles
  Versions,         \* the key versions an operator may name
  MaxKeys,
  MaxStops          \* ceremonies and receipts cut off

ASSUME KeyAssumption == MaxKeys \in Nat \ {0} /\ MaxStops \in Nat

VARIABLES
  keyFile,    \* the family's key file: a key, or 0
  bundles,    \* the recovery bundle at each path, or none
  made,       \* keys made so far
  ceremony,   \* a rotation between its two files: the key, or 0
  edition,    \* how often a film was rendered over its own manifest
  receipts,   \* the receipt beside each ledger and manifest, or none
  covered,    \* the receipts the last inventory found a bundle for
  stops,
  \* What the property excepts: keys whose bundle was written over, and the family's
  \* own key where it was replaced before it was ever backed up
  overwritten, neverBackedUp

keyVars == <<keyFile, bundles, made, ceremony, overwritten, neverBackedUp>>
receiptVars == <<keyVars, edition, receipts, covered, stops>>

Nothing == << >>
Cut == stops < MaxStops /\ stops' = stops + 1

---------------------------------------------------------------------------
(* The key ceremony                                                        *)

Bundled(k) == \E p \in Paths : bundles[p] # Nothing /\ bundles[p].key = k
\* _atomic_write, over what is there.
WriteBundle(p, k, v) ==
  /\ bundles' = [bundles EXCEPT ![p] = [key |-> k, version |-> v]]
  /\ overwritten' = IF bundles[p] # Nothing /\ bundles[p].key # k
                    THEN overwritten \cup {bundles[p].key} ELSE overwritten
\* The key file replaced by another key.
WriteKeyFile(k) ==
  /\ keyFile' = k
  /\ neverBackedUp' = IF keyFile = 1 /\ k # 1 /\ ~Bundled(1) THEN neverBackedUp \cup {1} ELSE neverBackedUp

Backup(p, v) ==
  /\ keyFile # 0 /\ ceremony = 0 /\ WriteBundle(p, keyFile, v)
  /\ UNCHANGED <<keyFile, made, ceremony, edition, receipts, covered, stops, neverBackedUp>>

\* Mutant: the key file first, the bundle when somebody thinks of it.
RotateKeyFirst(p, v) ==
  /\ ceremony = 0 /\ made < MaxKeys
  /\ made' = made + 1 /\ ceremony' = made' /\ WriteKeyFile(made')
  /\ UNCHANGED <<bundles, edition, receipts, covered, stops, overwritten>>
\* rotate: a new key is backed up first ...
Rotate(p, v) ==
  /\ ceremony = 0 /\ made < MaxKeys
  /\ made' = made + 1 /\ ceremony' = made' /\ WriteBundle(p, made', v)
  /\ UNCHANGED <<keyFile, edition, receipts, covered, stops, neverBackedUp>>
\* ... and then replaces the old one, unless somebody is cut off between.
RotateEnds ==
  /\ ceremony # 0 /\ WriteKeyFile(ceremony) /\ ceremony' = 0
  /\ UNCHANGED <<bundles, made, edition, receipts, covered, stops, overwritten>>
RotateStops ==
  /\ ceremony # 0 /\ Cut /\ ceremony' = 0
  /\ UNCHANGED <<keyFile, bundles, made, edition, receipts, covered, overwritten, neverBackedUp>>

RecoverKey(p) ==
  /\ bundles[p] # Nothing /\ ceremony = 0 /\ WriteKeyFile(bundles[p].key)
  /\ UNCHANGED <<bundles, made, ceremony, edition, receipts, covered, stops, overwritten>>

\* The disk with the key file is lost.
KeyFileLost ==
  /\ keyFile # 0 /\ ceremony = 0 /\ Cut /\ WriteKeyFile(0)
  /\ UNCHANGED <<bundles, made, ceremony, edition, receipts, covered, overwritten>>

---------------------------------------------------------------------------
(* Receipts                                                                *)

Documents == Ledgers \cup Films
Edition(d) == IF d \in Films THEN edition[d] ELSE 0
Receipt(d, k) == [key |-> k, edition |-> Edition(d), whole |-> TRUE]

\* FutureInboxLedgerAuthenticator.anchor and RenderReceiptAuthenticator.anchor.
Anchor(d) ==
  /\ keyFile # 0
  /\ receipts' = [receipts EXCEPT ![d] = Receipt(d, keyFile)]
  /\ UNCHANGED <<keyVars, edition, covered, stops>>
\* write_text of a film's receipt is cut off after it truncated the file.
AnchorStops(d) ==
  /\ keyFile # 0 /\ d \in Films /\ Cut
  /\ receipts' = [receipts EXCEPT ![d] = [Receipt(d, keyFile) EXCEPT !.whole = FALSE]]
  /\ UNCHANGED <<keyVars, edition, covered>>

\* A film is rendered again, over its manifest.
RenderAgain(d) ==
  /\ edition[d] = 0 /\ edition' = [edition EXCEPT ![d] = 1]
  /\ UNCHANGED <<keyVars, receipts, covered, stops>>

\* authenticate, with the key file's key or one recovered from a bundle.
Authentic(d, k) == receipts[d] = Receipt(d, k)
Provable(d) == \E k \in 1 .. made : (keyFile = k \/ Bundled(k)) /\ Authentic(d, k)

\* inventory of every bundle and receipt: it raises on a version or a key met twice,
\* and on a receipt that is no JSON.
Inventory ==
  /\ \A p, q \in {r \in Paths : bundles[r] # Nothing} :
       p # q => bundles[p].version # bundles[q].version /\ bundles[p].key # bundles[q].key
  /\ \A d \in Documents : receipts[d] # Nothing => receipts[d].whole
  /\ covered' = {<<d, receipts[d]>> : d \in {e \in Documents : receipts[e] # Nothing /\ Bundled(receipts[e].key)}}
  /\ UNCHANGED <<keyVars, edition, receipts, stops>>

---------------------------------------------------------------------------
KeyInit ==
  /\ keyFile = 1 /\ bundles = [p \in Paths |-> Nothing] /\ made = 1 /\ ceremony = 0
  /\ edition = [f \in Films |-> 0] /\ receipts = [d \in Documents |-> Nothing] /\ covered = {}
  /\ stops = 0 /\ overwritten = {} /\ neverBackedUp = {}

KeyNext ==
  \/ \E p \in Paths : RecoverKey(p) \/ \E v \in Versions : Backup(p, v) \/ Rotate(p, v)
  \/ RotateEnds \/ RotateStops \/ KeyFileLost \/ Inventory
  \/ \E d \in Documents : Anchor(d) \/ AnchorStops(d)
  \/ \E d \in Films : RenderAgain(d)

KeySpec == KeyInit /\ [][KeyNext]_receiptVars

---------------------------------------------------------------------------
(* Properties                                                              *)

KeysTypeOK ==
  /\ keyFile \in 0 .. MaxKeys /\ made \in 1 .. MaxKeys /\ ceremony \in 0 .. made
  /\ \A p \in Paths : bundles[p] = Nothing \/ bundles[p] \in [key : 1 .. made, version : Versions]
  /\ \A d \in Documents : receipts[d] = Nothing \/
       receipts[d] \in [key : 1 .. made, edition : 0 .. 1, whole : BOOLEAN]
  /\ stops \in 0 .. MaxStops /\ overwritten \subseteq 1 .. made /\ neverBackedUp \subseteq {1}

\* A receipt can be checked for as long as there is something to check: whatever was
\* rotated, recovered, cut off or lost since, its key is in the key file or in a bundle.
\* Except a key whose bundle was written over, a first key nobody backed up, a receipt that
\* was cut off, and a manifest rendered over.
\* What an inventory called covered needs no key file at all.
ReceiptsStayProvable ==
  /\ \A d \in Documents :
       receipts[d] # Nothing /\ receipts[d].whole /\ receipts[d].edition = Edition(d)
       /\ receipts[d].key \notin overwritten \cup neverBackedUp => Provable(d)
  /\ \A c \in covered : c[2].key \in overwritten \/ Bundled(c[2].key)
=============================================================================
