--------------------------- MODULE OverlapAnalysis ---------------------------
(***************************************************************************)
(* What the engine's verificationOverlapWorker decides about one decoded   *)
(* chunk that several detectors match: which findings are reported at      *)
(* once with verification disabled, and which detectors are run again on   *)
(* the chunk with verification enabled.                                    *)
(***************************************************************************)
EXTENDS Naturals, Sequences, FiniteSets, SequencesExt

CONSTANTS
  Detectors,    \* detector keys
  Secrets,      \* the texts detectors extract
  DetectorType, \* Type() of each key; versions of a detector share it
  Similar       \* pairs <<val, dupe>> likelyDuplicate takes for one secret

ASSUME OverlapAssumption ==
  /\ IsFiniteSet(Detectors) /\ DOMAIN DetectorType = Detectors
  /\ Similar \subseteq Secrets \X Secrets
  /\ \A s \in Secrets : <<s, s>> \in Similar

\* chunkSecretKey
SecretKey == [secret : Secrets, detector : Detectors]

\* Faulty variant for DisabledIffTwin: versions of one detector overlap too.
LikelyDuplicateAnyType(key, dupes) ==
  \E dupe \in dupes : <<key.secret, dupe.secret>> \in Similar

\* Whether a detector of another type already found a similar secret.
LikelyDuplicate(key, dupes) ==
  \E dupe \in dupes : /\ DetectorType[dupe.detector] # DetectorType[key.detector]
                      /\ <<key.secret, dupe.secret>> \in Similar

\* Faulty variant for ReverifiedIffNoTwin: an overlapping detector's key is kept.
NextResultKeepsKey(acc, key) ==
  IF key \in acc.chunkSecrets THEN acc
  ELSE [acc EXCEPT
          !.chunkSecrets = @ \cup {key},
          !.direct = IF LikelyDuplicate(key, acc.chunkSecrets) THEN Append(@, key) ELSE @]

\* One result of a detector: skipped if this detector found it before,
\* reported at once if it is a likely duplicate.
NextResult(acc, key) ==
  IF key \in acc.chunkSecrets THEN acc
  ELSE LET duplicate == LikelyDuplicate(key, acc.chunkSecrets)
       IN  [chunkSecrets |-> acc.chunkSecrets \cup {key},
            direct |-> IF duplicate THEN Append(acc.direct, key) ELSE acc.direct,
            keysWithResults |-> IF duplicate THEN acc.keysWithResults \ {key.detector}
                                ELSE acc.keysWithResults]

\* One detector, run without verification; found[d] is what it returns.
NextDetector(acc, d, found) ==
  IF found[d] = <<>> THEN acc
  ELSE FoldLeft(LAMBDA a, s : NextResult(a, [secret |-> s, detector |-> d]),
                [acc EXCEPT !.keysWithResults = @ \cup {d}],
                found[d])

\* The whole loop over the chunk's detectors.
Analyse(order, found) ==
  FoldLeft(LAMBDA acc, d : NextDetector(acc, d, found),
           [chunkSecrets |-> {}, direct |-> <<>>, keysWithResults |-> {}],
           order)
=============================================================================
