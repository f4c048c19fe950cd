-------------------------- MODULE MCEnginePipeline --------------------------
(* Instances of EnginePipeline for TLC.                                    *)
EXTENDS EnginePipeline

CONSTANTS c1, c2, p1, p2, p3, p4, d1, d2, s1, s2, w1, w2, v1, v2, k1, k2, n1, n2

TwoTypes == (d1 :> "Aws") @@ (d2 :> "CustomRegex")
Equal == {<<s, s>> : s \in Secrets}

\* c1 is decoded twice; p1 and p3 match both detectors, p2 and p4 only one.
Split == (c1 :> <<p1, p2>>) @@ (c2 :> <<p3>>)
OneEach == (c1 :> <<p1>>) @@ (c2 :> <<p2>>)
Three == (c1 :> <<p1, p3>>) @@ (c2 :> <<p4, p2>>)
Keywords == (p1 :> <<d1, d2>>) @@ (p2 :> <<d1>>) @@ (p3 :> <<d2, d1>>) @@ (p4 :> <<d1>>)
\* On p1, d2 repeats the secret of d1; on p3 one secret carries an ignore tag; on p4 d1
\* finds nothing.
Finds == (p1 :> (d1 :> <<s1>> @@ d2 :> <<s1>>))
           @@ (p2 :> (d1 :> <<s1, s1>> @@ d2 :> <<>>))
           @@ (p3 :> (d1 :> <<>> @@ d2 :> <<s1, s2>>))
           @@ (p4 :> (d1 :> <<>> @@ d2 :> <<>>))
NoPanics == {{}}
OnSingle == {{<<p2, d1>>}}
\* In an overlap worker and in a detector worker, or nowhere.
Anywhere == {{}, {<<p1, d2>>}, {<<p1, d2>>, <<p4, d1>>}}
Workers == Permutations(Scanners) \cup Permutations(Verifiers)
             \cup Permutations(DetectWorkers) \cup Permutations(Notifiers)
=============================================================================
