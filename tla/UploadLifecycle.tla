-------------------------- MODULE UploadLifecycle ---------------------------
(***************************************************************************)
(* For a client that sends each request once the upload pipeline           *)
(* implements the lifecycle of a batch. A confirmed batch is one that was  *)
(* reviewed; its results are its snapshots of either kind.                 *)
(***************************************************************************)
EXTENDS UploadPipeline

Lifecycle ==
    INSTANCE BatchLifecycle WITH
        confirmed <- {b \in Batches : client[b].reviews > 0},
        results <- [b \in Batches |-> Len(scans[b]) + deltas[b]]

(***************************************************************************)
(* Every step of handlers, workers and crashes is a step of the lifecycle  *)
(* of one batch or none that the owner of the batch can see.               *)
(***************************************************************************)
ImplementsLifecycle == Lifecycle!LifecycleSpec
=============================================================================
