----------------------------- MODULE MCGCSScan -----------------------------
EXTENDS GCSScan, TLC

CONSTANTS b1, b2, o1, o2, o3, o4

\* Two objects of a bucket, one of them with the same MD5 as one of the other bucket.
Bucket == (o1 :> b1) @@ (o2 :> b1) @@ (o3 :> b2) @@ (o4 :> b2)
Key == (o1 :> 1) @@ (o2 :> 2) @@ (o3 :> 2) @@ (o4 :> 3)
=============================================================================
