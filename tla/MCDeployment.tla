---------------------------- MODULE MCDeployment -----------------------------
(* Two clusters in three processes; s1 -> s2 -> s3.                        *)
EXTENDS Deployment, TLC

CONSTANTS s1, s2, s3, k1, k2, c1, c2, p1, p2, p3

MCSerialField == s1 :> "nil" @@ s2 :> "true" @@ s3 :> "false"
MCProducer == k1 :> s1 @@ k2 :> s2
MCConsumer == k1 :> s2 @@ k2 :> s3
MCPort == k1 :> 1 @@ k2 :> 1
MCClusterOf == s1 :> c1 @@ s2 :> c2 @@ s3 :> c1
MCProcessAddr == c1 :> <<p1, p3>> @@ c2 :> <<p2>>
=============================================================================
