------------------------- MODULE VerificationOverlap -------------------------
(***************************************************************************)
(* OverlapAnalysis on every order of the detectors and everything they may *)
(* find, against what the worker is for.                                   *)
(***************************************************************************)
EXTENDS OverlapAnalysis

CONSTANT MaxFound \* bound: results one detector returns

VARIABLES
  chunkDetectors, \* the detectors that match the chunk, in the order they are run
  chunkFindings,  \* what each of them returns
  chunkOutcome    \* what the worker has decided about the chunk

Findings == UNION {[1..n -> Secrets] : n \in 0..MaxFound}
NoOutcome == [chunkSecrets |-> {}, direct |-> <<>>, keysWithResults |-> {}]

AnalysisInit ==
  /\ chunkDetectors \in SetToSeqs(Detectors)
  /\ chunkFindings \in [Detectors -> Findings]
  /\ chunkOutcome = NoOutcome

AnalyseChunk ==
  /\ chunkOutcome = NoOutcome
  /\ chunkOutcome' = Analyse(chunkDetectors, chunkFindings)
  /\ UNCHANGED <<chunkDetectors, chunkFindings>>

\* The map and the set are emptied for the next chunk.
NextChunk ==
  /\ chunkOutcome # NoOutcome
  /\ chunkOutcome' = NoOutcome
  /\ UNCHANGED <<chunkDetectors, chunkFindings>>

AnalysisNext == AnalyseChunk \/ NextChunk

analysisVars == <<chunkDetectors, chunkFindings, chunkOutcome>>
AnalysisSpec == AnalysisInit /\ [][AnalysisNext]_analysisVars

----------------------------------------------------------------------------
(* Properties.                                                             *)

Analysed == chunkOutcome # NoOutcome
DirectKeys == ToSet(chunkOutcome.direct)
Position(d) == CHOOSE i \in DOMAIN chunkDetectors : chunkDetectors[i] = d

\* What the worker is for, said without its loop: d's secret s has a twin when
\* a detector of another type before d found a similar one.
HasTwin(d, s) ==
  \E e \in Detectors : /\ Position(e) < Position(d)
                       /\ DetectorType[e] # DetectorType[d]
                       /\ \E t \in ToSet(chunkFindings[e]) : <<s, t>> \in Similar

(***************************************************************************)
(* Verification is disabled for a finding exactly when an earlier detector *)
(* of another type found a similar secret, and then only once per secret,  *)
(* however often the detector found it.                                    *)
(***************************************************************************)
DisabledIffTwin ==
  Analysed =>
    /\ DirectKeys = {k \in SecretKey : /\ k.secret \in ToSet(chunkFindings[k.detector])
                                       /\ HasTwin(k.detector, k.secret)}
    /\ IsInjective(chunkOutcome.direct)

(***************************************************************************)
(* A detector is run again with verification exactly when it found         *)
(* something and none of its findings has a twin: no detector verifies a   *)
(* text that the worker has reported as disabled for it.                   *)
(***************************************************************************)
ReverifiedIffNoTwin ==
  Analysed =>
    chunkOutcome.keysWithResults =
      {d \in Detectors : /\ chunkFindings[d] # <<>>
                         /\ \A s \in ToSet(chunkFindings[d]) : ~HasTwin(d, s)}
=============================================================================
